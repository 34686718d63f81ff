------------------------------ MODULE PingSystem ------------------------------
(***************************************************************************)
(* Concurrent calls of ping(), from index.js through the Node-API task     *)
(* PingTask::compute of src/lib.rs to the promise that settles.            *)
(*                                                                         *)
(* The calls share three things: the worker threads of the Node-API pool,  *)
(* the identifier allocator (LeasePool) and the network, where each raw    *)
(* socket of the process hears the answers to every call's requests.  An   *)
(* Echo Reply returns the request's 56 random bytes; an ICMP error may     *)
(* quote no more than identifier, sequence number and a 16-bit checksum,   *)
(* which the payloads of two calls may share.                              *)
(*                                                                         *)
(* A raw socket's identifier is the lease.  A Linux ping socket has one    *)
(* from the kernel instead, which no other open socket has, but which the  *)
(* kernel may give to the next socket at once: no quarantine covers it.    *)
(*                                                                         *)
(* The loop of one probe, its clock and its socket buffer are RawProbe's;  *)
(* here an attempt just sends, listens and ends.                           *)
(***************************************************************************)
EXTENDS Integers, Sequences, FiniteSets

CONSTANTS
    Call,        \* the calls of ping()
    PoolSize,    \* threads of the Node-API worker pool
    Attempts,    \* Options.attempts
    N,           \* the number of identifiers
    Quarantine,  \* how long a released identifier is withheld
    MaxDelay,    \* how long an answer may be under way
    MaxTime,     \* bound on the clock
    Share,       \* what a payload may contribute to a checksum
    NoId         \* "holds no identifier"

\* The network forgets a packet before its identifier leaves the quarantine.
ASSUME SystemAssumption ==
    /\ PoolSize \in Nat \ {0}
    /\ Attempts \in Nat \ {0}
    /\ N \in Nat \ {0}
    /\ Quarantine \in Nat \ {0}
    /\ MaxTime \in Nat
    /\ NoId \notin 0 .. N - 1
    /\ MaxDelay \in Nat
    /\ MaxDelay < Quarantine

VARIABLES
    now,          \* the clock
    lease,        \* the lease held by the task of each call
    lastRelease,  \* when each identifier was last given back
    queue,        \* tasks that wait for a worker thread, oldest first
    stage,        \* where each call is
    privileged,   \* may this process create raw sockets
    share,        \* the payload's share of the checksum, for each task
    socket,       \* the open socket of each task
    assigned,     \* the kernel's identifier for each open ping socket
    seq,          \* the current attempt of each probe, 0 before the first
    inbox,        \* the unread messages of each socket
    flight,       \* requests that can still be answered
    result,       \* the outcome of each call
    decider       \* history: the message that decided each call

Pool == INSTANCE LeasePool WITH Holder <- Call

poolVars == <<now, lease, lastRelease>>
netVars == <<seq, inbox, flight>>
taskVars == <<share, socket, assigned>>
vars == <<poolVars, netVars, taskVars, queue, stage, privileged, result, decider>>

\* The steps of PingTask::compute, in their order.
ComputeStage ==
    {"parse", "lease", "payload", "create", "fallback", "setup", "send", "listen",
     "close", "drop"}

Stage == {"new", "queued", "returned", "settled"} \cup ComputeStage

Running == {c \in Call : stage[c] \in ComputeStage}

Result == {"none", "success", "negative", "timeout", "unreachable", "rejected"}

\* The Echo identifier on the wire: Ping::identifier, or the lease.
WireId(c) == IF socket[c] = "ping" THEN assigned[c] ELSE lease[c]

Request == [owner : Call, id : Pool!Id, seq : 1 .. Attempts, at : 0 .. MaxTime]

Message == [owner : Call, id : Pool!Id, seq : 1 .. Attempts, kind : {"echo", "error"}]

Nobody == [kind |-> "none"]

NoShare == "none"

TypeOK ==
    /\ now \in 0 .. MaxTime
    /\ lease \in [Call -> Pool!Id \cup {NoId}]
    /\ lastRelease \in [Pool!Id -> {Pool!Never} \cup 0 .. MaxTime]
    /\ queue \in Seq(Call)
    /\ stage \in [Call -> Stage]
    /\ privileged \in BOOLEAN
    /\ share \in [Call -> Share \cup {NoShare}]
    /\ socket \in [Call -> {"none", "raw", "ping"}]
    /\ assigned \in [Call -> Pool!Id \cup {NoId}]
    /\ seq \in [Call -> 0 .. Attempts]
    /\ inbox \in [Call -> SUBSET Message]
    /\ flight \subseteq Request
    /\ result \in [Call -> Result]
    /\ decider \in [Call -> Message \cup {Nobody}]

Init ==
    /\ Pool!PoolInit
    /\ queue = <<>>
    /\ stage = [c \in Call |-> "new"]
    /\ privileged \in BOOLEAN
    /\ share = [c \in Call |-> NoShare]
    /\ socket = [c \in Call |-> "none"]
    /\ assigned = [c \in Call |-> NoId]
    /\ seq = [c \in Call |-> 0]
    /\ inbox = [c \in Call |-> {}]
    /\ flight = {}
    /\ result = [c \in Call |-> "none"]
    /\ decider = [c \in Call |-> Nobody]

-------------------------------------------------------------------------------

Goto(c, s) == stage' = [stage EXCEPT ![c] = s]

Conclude(c, r) == result' = [result EXCEPT ![c] = r]

(* The event loop.                                                           *)

\* ping(ip) of index.js hands the address to the native task ...
Ping(c) ==
    /\ stage[c] = "new"
    /\ Goto(c, "queued")
    /\ queue' = Append(queue, c)
    /\ UNCHANGED <<poolVars, netVars, privileged, taskVars, result, decider>>

\* ... or throws on anything but one string, and nothing native runs.
PingThrows(c) ==
    /\ stage[c] = "new"
    /\ Goto(c, "settled")
    /\ Conclude(c, "rejected")
    /\ UNCHANGED <<poolVars, netVars, queue, privileged, taskVars, decider>>

\* PingTask::resolve or the rejection, once compute has returned.
Resolve(c) ==
    /\ stage[c] = "returned"
    /\ Goto(c, "settled")
    /\ UNCHANGED <<poolVars, netVars, queue, privileged, taskVars, result, decider>>

\* A free worker thread takes the oldest task.
Dispatch ==
    /\ queue # <<>>
    /\ Cardinality(Running) < PoolSize
    /\ Goto(Head(queue), "parse")
    /\ queue' = Tail(queue)
    /\ UNCHANGED <<poolVars, netVars, privileged, taskVars, result, decider>>

-------------------------------------------------------------------------------
(* PingTask::compute up to the open socket: what was acquired is dropped on  *)
(* every error path, and nothing else.                                       *)

Parse(c) ==
    /\ stage[c] = "parse"
    /\ \/ Goto(c, "lease") /\ UNCHANGED result
       \/ Goto(c, "returned") /\ Conclude(c, "rejected")
    /\ UNCHANGED <<poolVars, netVars, queue, privileged, taskVars, decider>>

Lease(c) ==
    /\ stage[c] = "lease"
    /\ Pool!Grant(c)
    /\ Goto(c, "payload")
    /\ UNCHANGED <<netVars, queue, privileged, taskVars, result, decider>>

WaitsForCapacity(c) == FALSE  \* Mutant: wait for an identifier.

\* Every identifier is held or quarantined.
Exhausted(c) ==
    /\ stage[c] = "lease"
    /\ \A i \in Pool!Id : ~Pool!Available(i)
    /\ Goto(c, "returned")
    /\ Conclude(c, "rejected")
    /\ UNCHANGED <<poolVars, netVars, queue, privileged, taskVars, decider>>

\* The random source fails, for the allocator's seed or for the payload.
RandomFails(c) ==
    /\ \/ stage[c] = "lease" /\ Goto(c, "returned")
       \/ stage[c] = "payload" /\ Goto(c, "drop")
    /\ Conclude(c, "rejected")
    /\ UNCHANGED <<poolVars, netVars, queue, privileged, taskVars, decider>>

Payload(c) ==
    /\ stage[c] = "payload"
    /\ \E s \in Share : share' = [share EXCEPT ![c] = s]
    /\ Goto(c, "create")
    /\ UNCHANGED <<poolVars, netVars, queue, privileged, socket, assigned, result, decider>>

\* linux_socket: a raw socket, or on a permission error a ping socket.
Create(c) ==
    /\ \/ /\ stage[c] = "create" /\ privileged
          /\ socket' = [socket EXCEPT ![c] = "raw"]
          /\ Goto(c, "setup")
       \/ /\ stage[c] = "create" /\ ~privileged
          /\ Goto(c, "fallback")
          /\ UNCHANGED socket
       \/ /\ stage[c] = "fallback"
          /\ socket' = [socket EXCEPT ![c] = "ping"]
          /\ Goto(c, "setup")
    /\ UNCHANGED <<poolVars, netVars, queue, privileged, share, assigned, result, decider>>

CreateFails(c) ==
    /\ stage[c] \in {"create", "fallback"}
    /\ Goto(c, "drop")
    /\ Conclude(c, "rejected")
    /\ UNCHANGED <<poolVars, netVars, queue, privileged, taskVars, decider>>

\* TTL, route, local address, bind, send timeout.  The bind of a ping socket gives
\* it any identifier that no open one has; there are as many as leases.
Setup(c) ==
    /\ stage[c] = "setup"
    /\ IF socket[c] = "ping"
          THEN \E i \in Pool!Id :
                  /\ \A d \in Call : assigned[d] # i
                  /\ assigned' = [assigned EXCEPT ![c] = i]
          ELSE UNCHANGED assigned
    /\ Goto(c, "send")
    /\ UNCHANGED <<poolVars, netVars, queue, privileged, share, socket, result, decider>>

SetupFails(c) ==
    /\ stage[c] = "setup"
    /\ Goto(c, "drop")
    /\ Conclude(c, "rejected")
    /\ socket' = [socket EXCEPT ![c] = "none"]
    /\ inbox' = [inbox EXCEPT ![c] = {}]
    /\ UNCHANGED <<poolVars, seq, flight, queue, privileged, share, assigned, decider>>

-------------------------------------------------------------------------------
(* engine::probe, one attempt after the other.                               *)

Send(c) ==
    /\ stage[c] = "send"
    /\ Goto(c, "listen")
    /\ seq' = [seq EXCEPT ![c] = @ + 1]
    /\ flight' = flight \cup
          {[owner |-> c, id |-> WireId(c), seq |-> seq[c] + 1, at |-> now]}
    /\ UNCHANGED <<poolVars, inbox, queue, privileged, taskVars, result, decider>>

\* A send or receive fails: an unreachable network resolves, the rest rejects.
TransportFails(c) ==
    /\ stage[c] \in {"send", "listen"}
    /\ Goto(c, "close")
    /\ \E r \in {"unreachable", "rejected"} : Conclude(c, r)
    /\ UNCHANGED <<poolVars, netVars, queue, privileged, taskVars, decider>>

\* Mutant: the sequence number is not compared.
AnswersAnyAttempt(c, m) ==
    /\ m.id = WireId(c)
    /\ IF m.kind = "echo" THEN m.owner = c ELSE share[m.owner] = share[c]

\* packet::parse and parse_error: the header of the request, all of its payload in
\* an Echo Reply, and in a minimal quote its checksum, which with the header alike is
\* the payload's share.
Answers(c, m) ==
    /\ m.id = WireId(c) /\ m.seq = seq[c]
    /\ IF m.kind = "echo" THEN m.owner = c ELSE share[m.owner] = share[c]

Receive(c) ==
    /\ stage[c] = "listen"
    /\ \E m \in inbox[c] :
          /\ inbox' = [inbox EXCEPT ![c] = @ \ {m}]
          /\ IF Answers(c, m)
                THEN /\ Conclude(c, IF m.kind = "echo" THEN "success" ELSE "negative")
                     /\ decider' = [decider EXCEPT ![c] = m]
                     /\ Goto(c, "close")
                ELSE UNCHANGED <<stage, result, decider>>
    /\ UNCHANGED <<poolVars, seq, flight, queue, privileged, taskVars>>

AttemptLeft(c) == seq[c] < Attempts

\* The deadline of the attempt has passed.
AttemptOver(c) ==
    /\ stage[c] = "listen"
    /\ IF AttemptLeft(c)
          THEN Goto(c, "send") /\ UNCHANGED result
          ELSE Goto(c, "close") /\ Conclude(c, "timeout")
    /\ UNCHANGED <<poolVars, netVars, queue, privileged, taskVars, decider>>

-------------------------------------------------------------------------------
(* The end of compute: locals are dropped in reverse order of declaration.   *)

\* Mutant: the lease is declared after the socket and dropped before it.
CloseLast(c) ==
    /\ stage[c] = "close"
    /\ Pool!Return(c)
    /\ Goto(c, "returned")
    /\ UNCHANGED <<netVars, queue, privileged, taskVars, result, decider>>

Close(c) ==
    /\ stage[c] = "close"
    /\ socket' = [socket EXCEPT ![c] = "none"]
    /\ assigned' = [assigned EXCEPT ![c] = NoId]
    /\ inbox' = [inbox EXCEPT ![c] = {}]
    /\ Goto(c, "drop")
    /\ UNCHANGED <<poolVars, seq, flight, queue, privileged, share, result, decider>>

Drop(c) ==
    /\ stage[c] = "drop"
    /\ Pool!Return(c)
    /\ Goto(c, "returned")
    /\ UNCHANGED <<netVars, queue, privileged, taskVars, result, decider>>

-------------------------------------------------------------------------------
(* The network and the clock.                                                *)

\* A raw socket hears every message, a ping socket those with its identifier.
Hears(c, m) == socket[c] = "raw" \/ (socket[c] = "ping" /\ m.id = assigned[c])

MessageOf(f, k) == [owner |-> f.owner, id |-> f.id, seq |-> f.seq, kind |-> k]

\* A request is answered, perhaps again, or never.
AnswerTo(f, k) ==
    /\ LET m == MessageOf(f, k)
       IN  inbox' = [c \in Call |-> IF Hears(c, m) THEN inbox[c] \cup {m} ELSE inbox[c]]
    /\ UNCHANGED <<poolVars, seq, flight, queue, stage, privileged, taskVars, result, decider>>

Answer == \E f \in flight, k \in {"echo", "error"} : AnswerTo(f, k)

\* What has been under way for longer than MaxDelay is lost.
Tick ==
    /\ Pool!Advance
    /\ flight' = {f \in flight : now' - f.at <= MaxDelay}
    /\ UNCHANGED <<seq, inbox, queue, stage, privileged, taskVars, result, decider>>

\* The steps a worker thread takes by itself.
Compute(c) ==
    \/ Parse(c) \/ Lease(c) \/ Exhausted(c) \/ Payload(c) \/ Create(c) \/ Setup(c)
    \/ Send(c) \/ Receive(c) \/ AttemptOver(c) \/ Close(c) \/ Drop(c)

Fail(c) == RandomFails(c) \/ CreateFails(c) \/ SetupFails(c) \/ TransportFails(c)

Act(c) == Ping(c) \/ PingThrows(c) \/ Resolve(c) \/ Compute(c) \/ Fail(c)

Next ==
    \/ \E c \in Call : Act(c)
    \/ Dispatch
    \/ Answer
    \/ Tick

Spec == Init /\ [][Next]_vars

\* Threads that can run do, and an attempt ends by its deadline whatever the
\* socket delivers (RawProbe's Settles).
FairSpec ==
    /\ Spec
    /\ WF_vars(Dispatch)
    /\ \A c \in Call :
          WF_vars(Compute(c)) /\ WF_vars(AttemptOver(c)) /\ WF_vars(Resolve(c))

-------------------------------------------------------------------------------

\* The answer of another call that a ping socket cannot tell from its own: a minimal
\* error, checksum alike, to a call that is over, and whose identifier the kernel has
\* given away again.
Confused(c, m) ==
    /\ ~privileged
    /\ m.kind = "error" /\ share[m.owner] = share[c]
    /\ socket[m.owner] = "none"

\* No cross-talk: the message that decides a call answers the latest request of
\* that same call.  Raw sockets hear the others' answers, their identifiers are leased
\* again and again, checksums collide, and still it holds without exception; for a
\* ping socket there is one, which the code accepts as finite-width correlation.
OutcomeIsOwn ==
    \A c \in Call :
        decider[c] # Nobody =>
            /\ decider[c].seq = seq[c]
            /\ decider[c].owner = c \/ Confused(c, decider[c])

\* A socket lives within the lease of its identifier, on every path of success
\* and failure, and neither outlives compute.
SocketWithinLease ==
    \A c \in Call :
        /\ socket[c] # "none" => lease[c] # NoId
        /\ lease[c] # NoId => c \in Running

\* Every call that reached the native addon settles, however few the threads
\* and identifiers.
EveryCallSettles ==
    \A c \in Call : stage[c] = "queued" ~> stage[c] = "settled"
===============================================================================
