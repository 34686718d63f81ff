# A formal model of node-icmp-ping

`node-icmp-ping` performs ICMP Echo from Node.js through a native Rust addon.
This directory holds TLA+ specifications of the addon, the TLC runs that check
them on small instances, and proofs of the most important results for every
value of the constants. Paths below are relative to the repository.

## 1. The system

| Component | State | Operations | Talks to |
|---|---|---|---|
| `ping()` lifecycle: `index.js`, `src/lib.rs` | a promise per call, a Node-API task | `ping`, `PingTask::compute`, `resolve` | worker pool, allocator, engine |
| Echo identifier allocator: `src/identifier.rs` | `IDS` (a `OnceLock<Mutex<Allocator>>`): `occupied`, `retired`, `next` | `initialize`, `Lease::acquire`, `Drop for Lease` | every worker thread, the clock, the random source |
| Attempt loop: `src/engine.rs`, `probe`, `network_error` | sequence number, start, deadline | send, receive, judge, retry | a `Transport` |
| Socket opening: `src/engine.rs`, `open`, `linux_socket`, `macos_socket`, `Raw::from_socket`; `Ping::open` of `src/linux.rs` | the ICMP socket and the route socket, their descriptors, the local address, the kernel's identifier | create, fall back, look the route up, bind, identify | kernel, the rest of the process |
| Raw socket: `src/engine.rs`, `Raw` | the socket, its receive buffer and timeouts | `send`, `receive`, `parse_reply` | kernel |
| Linux ping socket: `src/linux.rs`, `Ping` | data queue, error queue and pending errno in the kernel; the `error` meta data | `send`, `receive`, `queued_error`, `poll_event`, `parse_reply` | kernel |
| Packet codec: `src/packet.rs`, `parse_error` of `src/linux.rs` | none | `echo`, `parse`, `parse_ping_echo`, `parse_error`, `reason`, `normalize_macos_ipv4` | transports |
| Loader and declarations: `index.js` (top), `index.mjs`, `index.d.ts`, `build.rs` | none | `require` of the addon | |
| Build, packaging and release scripts: `scripts/` | none | file checks | |

How they interact. `ping(ip)` queues a task; a thread of the shared Node-API
pool runs `PingTask::compute`, which parses the address, leases an identifier,
draws 56 random bytes, opens a socket (raw, or a ping socket if the kernel
refuses a raw one), and runs `engine::probe`: up to three Echo requests, each
with its own second to be answered. The locals drop in reverse order: the socket
closes, then the lease returns its identifier to the quarantine. The promise
settles on the event loop. Calls run concurrently and share the thread pool, the
allocator and, because a raw socket hears every ICMP message of the host, each
other's answers.

What is hard here, and hardly reached by tests:

* threads race to create the allocator, and then for identifiers; the quarantine
  is a queue of which only the front is looked at;
* the thread may lose its processor between the return of a system call and the
  reading of the clock, for longer than the attempt lasts;
* answers are late, repeated, reordered, to an earlier attempt, to another
  call, or to the previous holder of the identifier, the lease's or the kernel's;
* signals and foreign traffic wake the thread without end; the time left can be
  zero; timers are rounded up;
* on a ping socket the kernel reports an ICMP error twice, as a record and as an
  errno, in two steps, and any later call may be the one that gets the errno;
* opening a socket takes two descriptors for a while and a dozen system calls,
  between which the host loses addresses and the process runs out of descriptors;
* the two transports recognise an answer by different means: checksums and quoted
  bytes on a raw socket, the kernel's demultiplexing and an error record on a ping socket;
* every step of `compute` can fail, after any number of acquisitions.

`PROJECT.json` lists these hazards line by line with the properties that cover
them.

What makes each component correct:

* allocator: no two holders; nothing lost; quarantine respected; exhaustion only
  when real; `acquire` returns;
* probe: decided by an answer to its latest request, and only by one that
  arrived; never gives up early; bounded; the latency is a measured one;
* Linux adapter: the same, in spite of the errnos; an errno alone is never taken
  for an answer;
* lifecycle: every call settles; its outcome is its own; a socket lives within
  its lease;
* socket opening: requests leave from the address that was looked up; the fallback is
  for a refused raw socket only; an open ping socket has its identifier and its error
  queue; no descriptor is left behind;
* codec: checksums verify what they sign, the header walks stay in bounds and
  terminate, normalisation inverts what the kernel did; only the answers to the own
  request decide, they all do, and they say the same on both transports.

## 2. Modules

```
LeasePool          what the allocator promises          (abstract)
Identifier         the allocator                        implements LeasePool
IdentifierProofs
ProbeContract      what a probe promises                (abstract)
Engine             the attempt loop, for any transport
RawProbe           Engine over a raw socket             implements ProbeContract
RawProbeProofs
LinuxProbe         Engine over a Linux ping socket      implements ProbeContract
LinuxProbeProofs
SocketOpen         how concurrent calls open their sockets
SocketOpenProofs
PingSystem         concurrent calls, built on LeasePool
PingContract       PingSystem with its history          implements ProbeContract, call by call
PingSystemMC       symmetry sets for TLC
PingContractMC
PingSystemProofs
Answers            which messages decide a probe, on both transports
AnswersProofs
QuotedV6           the walk over quoted IPv6 extension headers
QuotedV6Proofs
Bytes              bytes and 16-bit fields
EchoCodec          Echo messages: checksum, echo, parse_message
MacosHeader        IPv4 headers and their form on macOS
CodecProofs
```

**Identifier** (`src/identifier.rs`). `occupied`, `retired`, `next` are the
fields of `Allocator`, `initialized` is whether `IDS` is set. A worker's steps
are the places where another thread may come in between: looking the `OnceLock`
up (`Look`), drawing the seed (`Fill`, `FillFails`), `get_or_init` (`Publish`),
and the two critical sections (`Acquire`/`AcquireFails`, `Release`), one action
each because their state is reachable only through the mutex. The bit set
`used` is the set `occupied`, the `VecDeque` is the sequence `retired`, `u16`
wrap-around is `Wrap` on the width `N`. The history variable `lastRelease`
records when an identifier was last returned, for the quarantine's promise.
A poisoned mutex is left out: no critical section can panic.

**Engine** (`src/engine.rs`, `probe`). One action per step between which the
thread may be preempted: `SendReturns`, `Loop` (the `while let` with its
deadline), `ReceiveReturns`, `Stamp` (`start.elapsed()`), `Judge`. The results
of the transport are `"sent"`, `"message"`, `"wouldblock"` (`WouldBlock` and
`TimedOut`), `"interrupted"`, `"unreachable"` and `"failed"`. A
transport module adds the transport's state and says when which result is
possible. `age` is the time since the attempt began. The history variable `kept`
says whether time passed in this attempt while the thread was not asleep in a
system call: then it was kept waiting for a processor (`Passes`).

**RawProbe** (`src/engine.rs`, `Raw`). `inbox` is the kernel's receive buffer,
`timer` the `SO_RCVTIMEO` of the `recvfrom` under way; a message is its kind,
the request it answers and (history) its time of arrival. `"foreign"` stands for
everything that answers none of the probe's requests.

**LinuxProbe** (`src/linux.rs`, `Ping`). One action per system call: the drain
of the error queue (`Drain`, bounded by `DrainLimit`), `take_error`, `send_to`,
its single retry, and in `receive` the error queue, `poll`, the error queue
again, `take_error` or `recv_from`. The kernel is external and modelled from how
the code uses it: an ICMP error becomes a record on `errq` and, in a second step
(`posting`, `ErrnoPosted`), the pending errno `skErr`, which the next call on
the socket takes; removing a record sets the errno to the next record's, or
clears it. The walk over control messages and `sock_extended_err` is abstracted to
what it tells apart: records that answer a request, records that do not, and unusable
ones, which are truncated or lack the address or the `sock_extended_err` and are
returned as an empty event that answers nothing. The history variable `bare` says
whether the thread took an errno and has removed no record since: if so when `send` or
`receive` returns, the probe must have been rejected (`BareErrnoRejects`), neither
answered nor carried on.

**SocketOpen** (`open`, `macos_socket`, `linux_socket`, `Raw::from_socket`,
`Ping::open`). One action per system call that another call, the rest of the process
or the network configuration can interfere with; a call that only concerns the own
socket (TTL, `IP_RECVERR`, timeouts) is merged with its neighbour, and its failure
with that step's. Any step may fail, and then everything created so far is dropped
(`Release`). `others` is the number of descriptors the rest of the process has, `host`
the addresses the host has at the moment. The history variables `had` and `denied`
record which sockets a call created and whether a raw one was refused. Which
addresses and identifiers the kernel gives is external.

**PingSystem** (`index.js`, `src/lib.rs`, `linux_socket` of `src/engine.rs`).
`stage` is where a call is, from `ping()` over each step of `compute` to the
settled promise. It uses `LeasePool`, which the allocator implements, for leases
and clock, so that each module's checks stand on the other's: `Identifier`
proves the pool, `RawProbe` and `LinuxProbe` check the loop that `PingSystem`
shortens to send, listen, end: what is left of it keeps `ProbeContract` as they do
(`PingContract`). The 56 random bytes of a payload are modelled as unique where all of
them are compared, in an Echo Reply; what a minimal ICMP error quotes of them is their
`share` of the checksum, one of a few values, so that the requests of two calls may
look alike in it (`Answers`). A raw socket's identifier is the lease. A ping socket's
(`assigned`) is the kernel's: `Setup` takes any that no open ping socket has, as
`SocketOpen` does, also one given up a moment ago, for the quarantine does not cover it.
So a late minimal error to a call that is over can reach a ping socket that has the same
identifier now, and if the checksums are equal too it decides that call. The code knows
(`packet.rs`: "finite-width correlation, not uniqueness"). `Confused` is that case and
no other, the one exception of `OutcomeIsOwn`; `Misled` is its step, the one exception
of `CallsKeepContract`. Whether the process may create raw sockets is fixed for its
life. Opening a socket is shortened to creation, fallback and setup; `SocketOpen` has
the steps of each, and the difference between the platforms.

**PingContract** is `PingSystem` with a history variable, `arrived`: the answers to each
call's requests that reached the host, whoever heard them. With it each call is mapped to
`ProbeContract` (`Probe(c)`): its sequence number, its answers, its result. All else a
call does, from its place in the queue to its lease, is no step of the contract, or the
contract's failure, or the one exception above, in which the answer that arrived is
another call's.

**Answers** (`parse`, `parse_ping_echo`, `parse_message` and `reason` of
`src/packet.rs`, `parse_error` of `src/linux.rs`). One ICMP message comes in: any Echo
message of anyone, any of the faults that a router or a host signals about any Echo
message this host sent, quoted to any length, or an error that the host itself
signals; possibly damaged. Both transports then decide it: the raw socket by
`RawDecision`, the ping socket by `PingDecision`. The kernel's demultiplexing
(`Queued`, and which replies a ping socket is given) is external. A payload is three
values: its share of the checksum, so that two payloads may look alike to it, and two
halves, of which a quote may lack one or both. The table of types and codes is `Signals`, from the RFCs, on the sender's
side, and `Reason`, from the code, on the receiver's.

**EchoCodec** (`src/packet.rs`, `checksum` to `matches`, `parse_message`). A
message is a sequence of bytes of `Base` values, as a one's-complement sum is a
matter of carries and of odd lengths: small bytes carry as soon as large ones.
The model builds every payload byte by byte and asks of each what a sum signs,
which damage it shows, and which quotes of other requests it tells apart. The
pseudo-header has addresses of one word. The sum is a number without a width, as that of
the code is in a `u32` it cannot exceed (`SumFits` of section 5).

**QuotedV6** (`quoted_v6`). Extension headers are multiples of four bytes and the
walk reads no more than the first four of one, so a packet is a sequence of words
counted from the end of the fixed header, whose version and length checks are
left out. A sender lays a packet out header by header (`AddHeader`), a router cuts its
quote off anywhere (`Quote`), and each round of the loop is a step. A word inside a header is filled with what most
looks like a next header. The three option-like headers (0, 43, 60) are one type.

**MacosHeader** (`normalize_macos_ipv4`, `ipv4`). What Darwin does to a received
packet is external: the length and fragment fields as the comment on
`normalize_macos_ipv4` and the tests' `darwin_received` say. On the quoted length they
differ: `darwin_received` converts it for types 3, 11 and 12, whatever is quoted, the
code undoes it for 4 and 5 too, but in a whole IPv4 header only. The model's kernel
converts whatever stands in the place of the quote, and for 4 and 5 does so or not
(`Receive`); the code's own guards are in `NormalForm` alone. A packet is its size and
the fields that either touches; the sixteen-bit fields are pairs of bytes, so that their
order is real. `WithFields` is a packet with those fields replaced. The run asks that
`ipv4` finds in the restored packet, and in the quote of each error that `reason` has a
name for, just what it finds in the packet as sent.

## 3. Runs

| Run | Question | Bounds |
|---|---|---|
| `identifier` | Do racing threads keep leases unique, lose none, report exhaustion only when real, return, and implement `LeasePool`? | 3 threads, 3 identifiers, quarantine 2, clock 4 |
| `raw_probe` | Under preemption at every point, is the latency measured, no attempt cut short, a deadline no error; does the probe implement `ProbeContract` and settle? With a processor at hand, is an attempt bounded and every answer in time seen? | 2 attempts of 2 ticks, 2 messages |
| `linux_probe` | The same for the adapter; does a bare errno only reject? | 2 attempts of 2 ticks, 1 message and 1 record, drain of 1 |
| `linux_unreachable` | Does README.md's promise for unreachable networks hold? It does not: see section 6. | 1 attempt |
| `ping_shared` | Do calls that hear each other keep apart; do sockets live within leases? | 2 calls of 1 attempt, 2 threads, 2 identifiers, 2 checksum shares |
| `ping_contract` | Does each call keep `ProbeContract` when calls use one identifier in turn, hear late answers and retry; do answers to an earlier attempt decide nothing? | 2 calls with a retry, 1 identifier, 2 checksum shares |
| `ping_settles` | Does every call settle? | 3 calls, 2 threads, 1 identifier, 1 checksum share |
| `socket_open` | Do requests leave from the address in the checksum, is the fallback for a refusal only, are identifiers exclusive, and descriptors returned also when they run out? | 2 calls, 2 addresses, 2 identifiers, 3 descriptors |
| `answers` | Do the own answers decide, nothing else, and alike on both transports? | 2 of each: addresses, identifiers, sequence numbers, checksum shares, halves; every fault, cut and family |
| `echo_codec` | Are genuine answers accepted, and damaged ones and quotes of other requests not? | bytes of 8 values, 2 identifiers and sequence numbers, every payload of up to 3 |
| `quoted_v6` | Does the walk stay inside, end, and find the message exactly when it is there? | chains of up to 4 headers, length fields up to 2, 3 rounds |
| `macos_header` | Is every packet read on macOS as it was sent? | bytes of 16 values, sizes around each limit |

Why these bounds are enough to matter:

* *Identifiers.* With 3 identifiers the scan wraps, skips an occupied
  identifier and runs out; a clock of 4 with a quarantine of 2 lets an
  identifier expire twice, and the front of the queue hide an entry behind it if
  the code allowed it.
* *Time.* The code's clocks are unbounded. `age` saturates at `Horizon`, three
  ticks past the timeout: every comparison of the code is with the timeout or one
  or two ticks more (the floor of 1 ms, the millisecond `poll` adds), so a later
  time behaves like the last one. In `Identifier` and `PingSystem` the clock
  stops at `MaxTime`: at twice the quarantine, or at the quarantine and at most one more.
* *Attempts.* Two attempts have what three have: an attempt with a predecessor
  and one with a successor.
* *Calls.* What two calls do to each other is split over two runs. In `ping_shared` both
  have identifiers, hold sockets at a time, and recycle the kernel's. In `ping_contract`
  they take turns and retry, so that an answer can be to an earlier attempt. Both at once
  are left to the proofs.
* *Buffers.* `Capacity` and `DrainLimit` of 1 make "full" and "limit reached"
  happen at once: one record more than the drain removes can arrive between any
  two calls. `RawProbe` uses 2, so that a foreign message can stand before an
  answer.
* *Descriptors.* Two calls with a route socket each need four descriptors; with three
  the last one is contended for, and `others` can take all of them. Two addresses let
  one vanish and the other appear between the look-up and the bind.
* *Answers.* Whatever a comparison looks at can be equal or different, independently of
  the others, and the target can be the host itself.
* *Codec.* With payloads of up to three bytes lengths are odd and even and a sum
  carries more than once. With three rounds a message behind two headers is the last
  that is found, and behind three or four the walk gives up; a length field of up to 2
  makes the counts of RFC 8200 and RFC 4302 differ. The sizes in `macos_header` lie on both
  sides of each comparison (20, 28, the header with options, the header and a quote)
  and at the width of the field.
* *Delay.* `MaxDelay < Quarantine` is an assumption on the network: a packet
  is forgotten before its identifier is leased again. It is the assumption the
  quarantine exists for, and without it `OutcomeIsOwn` fails.

`CHECK_DEADLOCK` is off where the system stops by design: when the probe or
every call has settled, or a message has been read. Symmetry is used in runs without liveness properties
only.

## 4. Fairness

* `Identifier`: weak fairness of each thread's steps inside `acquire`. The
  operating system schedules runnable threads, and the mutex is held for a
  bounded time. A held lease may be held for ever.
* `RawProbe`, `LinuxProbe`: weak fairness of the clock and of the thread. The
  network, signals, foreign traffic and failures are under no obligation.
* `PingSystem`: weak fairness of dispatching, of each running call, and of the
  event loop that settles. `AttemptOver` has its own, because a call
  that keeps receiving foreign messages takes steps without making progress; that
  an attempt really ends is `RawProbe`'s and `LinuxProbe`'s `Settles`.

Two promises hold only for an attempt whose thread always had a processor: that
listening is bounded (`AttemptIsBounded`, `ListeningIsBounded`), and that no answer in
time is missed (`AnswerInTimeDecides`). A thread kept from its processor past the
deadline does discard an answer (`engine.rs`, the check of `elapsed` after `receive`).
They are conditioned on `~kept`, for the attempt in question only: the attempts before
it may have been preempted at will. All other properties hold under preemption at any
point.

## 5. Proofs

`IdentifierProofs` proves about `Identifier`, for any set of threads and any
positive number of identifiers, quarantine and clock bound, that `TypeOK`,
`UniqueLeases` and `NoIdentifierLost` are invariants, that `ExhaustionIsReal`
holds of every step, and that `Spec` implements `LeasePool`. The assumptions are
`IdentifierAssumption` only.

The invariant is `IInv`. `NoIdentifierLost` is not inductive without the
correspondence of `pc` and `lease` (`PlaceOK`) and of an unset `IDS` with
untouched fields (`Pristine`, which makes the first `Publish` harmless while
nobody can hold a lease). Exhaustion and the refinement need the quarantine to be
dated: each entry carries the time of its identifier's last release, in order of
release (`Dated`), and an identifier that is free was never released, or long
enough ago (`FreeIsAged`). From the order follows `QuarantineRest`: once the loop
has popped what it pops, nothing expired is left behind the front. `ScanCovers`
says that `N` candidates from any start are all the identifiers, so a scan that
fails has seen every one occupied.

`RawProbeProofs` proves about `RawProbe`, for any number of attempts, any timeout
and any capacity of the receive buffer, under preemption at every point: `TypeOK`,
`LatencyIsMeasured`, `AttemptRunsFull`, `DeadlineIsNoError`, `AttemptIsBounded`,
`AnswerInTimeDecides`, and that `Spec` implements `ProbeContract`. In the
invariant `RInv`, `WaitOK` relates the timer of a `recv_from` to the attempt:
`age + timer >= Timeout` while the thread waits, so that the timer runs out no sooner than the attempt. It is established by `Arm`,
whose floor of one millisecond only adds to it, and kept by time, which moves both
by one. `AllGenuine` says that what is in the buffer, or in the hands of the
thread, arrived, which the refinement needs; `StampOK` that the elapsed time taken
by `Stamp` is no later than the present and no earlier than the message's arrival.

The two properties of an attempt that always had a processor need more. `PaceOK`
bounds the clock and the timer from above. `FreshOK` says that whatever answers the
current attempt arrived at this very instant: time passes only in sleep, and sleep
only begins when nothing is left to read. So what is in the buffer when the attempt is
given up came after its deadline.

`LinuxProbeProofs` proves the same about `LinuxProbe`, for any drain limit too:
`TypeOK`, `BareErrnoRejects`, `LatencyIsMeasured`, `AttemptRunsFull`,
`ListeningIsBounded`, `AnswerInTimeDecides` and the refinement of `ProbeContract`.
Its many steps are first reduced to the loop's: each either leaves the loop alone,
lets time pass, or returns one of a few results to it (`StepsOfEngine`). In `LInv`,
`WaitOK` carries the deadline through the adapter: to the wait it was given, to what
is left of it at the head of its loop, and to the timer of `poll` or `recv_from`.
`AnswerInTimeDecides` rests on `QuietQueue`, the relation of the error queue and
the pending errno: a record that is queued while the thread reads brings an errno that
wakes it. For `BareErrnoRejects`, `BareOK` says where in the adapter an errno can be in
hand without a record: in the drain after a failed send, before it has removed
anything, and after a failed `recv_from`, before the error queue was looked at.

`SocketOpenProofs` proves about `SocketOpen`, for any calls, addresses, identifiers
and number of descriptors, `TypeOK`, `SourceIsExact`, `PingSocketsAreReady`,
`FallbackOnDenialOnly` and `DescriptorsReturned`. Its invariant `SInv` says of each
place in `open` which sockets the call has (`SocketsOK`) and had (`HistoryOK`), how far
the address (`AddressOK`) and the identifier (`IdentityOK`) have come, and that the
kernel's identifiers are exclusive (`NumbersUnique`).

`AnswersProofs` proves about `Answers`, for any addresses, identifiers, sequence
numbers and payloads, `OnlyOwnDecides`, `OwnAnswersDecide` and `TransportsAgree`. The
invariant only says in which forms a message comes in; the argument is by the kind of
message and, for an error, by how much it quotes.

`QuotedV6Proofs` proves about `QuotedV6`, for any number and length of headers and
any number of rounds, `TypeOK`, which keeps the walk inside the quote, and
`FindsMessage`. In `QInv` the headers lie in order without overlap (`LaidOut`), and the
walk is at the beginning of the header after those it looked at (`Walked`), never inside
one.

`CodecProofs` proves about `EchoCodec`, for bytes of any width, any identifiers, and
payloads of any content and length, `OwnAnswersAccepted`, `DamageIsSeen` and
`QuotesAreToldApart`. The library's induction theorems cannot be used here, so each
induction is by the least counterexample: a non-empty set of numbers has a least element
(`LeastElement`, from the well-foundedness of `<`), and a set that has 0 and the successors
of its members has them all (`UpTo`). By it the recursions of `Sum` and `Folded` are shown
to have a solution, and then what the solution is:

* a message that differs in one byte has a sum that differs by what the byte is worth,
  its difference times 1 or `Base` (`SumOfDamaged`);
* folding the carries keeps the sum's remainder by `Base * Base - 1`, ends in a word, and
  does not make a positive sum zero (`FoldFacts`, from `CarryFacts` for one carry);
* so sums whose difference is smaller than that divisor, and not zero, fold to different
  words (`FoldsDiffer`): that is why one damaged byte always shows;
* a message whose checksum field holds the checksum of the message with an empty field
  has checksum zero (`Verifying`, `SumFilledIn`).

The rest is the layout of a message (`Layout`) and of the first bytes of one (`Start`,
for the quotes). `SumFits` says that the sum of a message of 16-bit length, with its
pseudo-header, stays below `Base` to the fourth: the `u32` of `checksum` does not overflow.

`CodecProofs` also proves, of `MacosHeader`, `ReadAsSent` for bytes of any width that the
flags fit in, and packets of any size and type. It rests on lemmas about division by the
values of a byte: a field that is taken apart, swapped and put together is the number it
was. Packets are treated by whether `normalize_macos_ipv4` recognises them; those it does
not are refused by `ipv4` in either form. A quote that the kernel converted and the code
did not, or the other way round, is one that `parse_message` does not look at, or that
`ipv4` refuses in either form.

`PingSystemProofs` proves about `PingSystem`, for any calls, threads, identifiers
and attempts, that `TypeOK`, `OutcomeIsOwn` and `SocketWithinLease` are
invariants, and that each call keeps `ProbeContract` (`CallsKeepContract`). The assumption that matters is
`MaxDelay < Quarantine`. The heart is `OutcomeIsOwn`. In `PInv`, `Dated` says of
every request that can still be answered that it is no older than `MaxDelay` and that
its owner holds its identifier or gave it back after sending. When `Grant` leases an
identifier, nobody holds it and its last release is a quarantine ago, so any request
under way with it would be older than `MaxDelay`: there is none. Hence a request
under way with an identifier that is held is its holder's (`FlightOwn`), a message
with a socket's own identifier answers that socket's call (`InboxOK`), and only such
a message decides (`DeciderOK`). `UniqueOK` carries over from the pool, and
`LeaseOK` and `SocketOK` tie leases and sockets to the steps of `compute`.

That is the argument for raw sockets; a process has either kind (`ModeOK`). For ping
sockets the pool does not help. What does is that the kernel's identifiers are exclusive
among open sockets (`AssignedOK`), so that a request with the identifier of an open one
is that socket's or of a call whose socket is closed (`PingFlightOK`). An error that
looks like the own one is therefore to oneself or `Confused`, and stays so, as a closed
socket is not opened again (`OverStays`); an Echo Reply returns the whole payload.

For `CallsKeepContract`, `CInv` adds that a call has no outcome before it is done with the
probe (`ResultOK`, so that it settles once), that what is under way was sent
(`FlightSeqOK`), and that what a socket has in store has arrived (`ArrivedOK`). A step of
one call is none to the others; `ContractStep` goes through those of the call itself. The
one that needs the quarantine is `Receive`: the message is the call's own by `InboxOK`, so
the answer that arrived is the call's; or, on a ping socket only, the step is `Misled`.

Only model-checked: all liveness (`AcquireReturns`, `Settles`,
`EveryCallSettles`), for the prover knows no fairness, and the counterexample of section
6. Every other property of the runs is stated by a theorem. The type invariants of
`PingSystem` and `SocketOpen` are proved and not part of a run.

## 6. A disagreement between code and documentation

README.md:107 says that a network or host unreachable error returned while
sending resolves negatively. On a raw socket it does. On a Linux ping socket a
failed `send_to` is wrapped in `io::Error::other` (`linux.rs:300`, and in the
retry `linux.rs:305`), which hides the errno from `network_error`, so the call
rejects. Run `linux_unreachable` is the counterexample. The wrapping is
deliberate for errnos that a queued error left behind, which say nothing about the
request (`BareErrnoRejects`), but also catches the errors of the send itself.

## 7. Not modelled

* The loader at the top of `index.js`, the declarations and the release scripts:
  no state, no concurrency.
* Message texts beyond the names of the faults, the form of addresses, and TTL values.
* The walk over control messages and `sock_extended_err` in `Ping::queued_error`, byte
  by byte: its outcomes are records that answer, records that do not, and unusable ones.
* The fixed IPv6 header's version and length checks.
* Windows beyond the absence of a fallback.
* Bytes of `Options` and entropy: in `PingSystem` two payloads differ, but may share a
  checksum; in `Answers` and `EchoCodec` they are any payloads at all.

## 8. Plan

Done: every component that has state or decides something has a module, a run, and,
liveness excepted, proofs for every value of the constants.

Possible next steps:

1. A refinement of `PingSystem`'s opening of a socket (`Create`, `Setup`) by
   `SocketOpen`, which would turn that abstraction of section 2 into a checked one, as
   `PingContract` does for the probe.
2. The same probe over two sockets of two processes, where the kernel's receive
   buffer is shared with traffic that the model counts as foreign.
