------------------------------ MODULE Identifier ------------------------------
(***************************************************************************)
(* The process-wide allocator of ICMP Echo identifiers, src/identifier.rs. *)
(*                                                                         *)
(* A raw ICMP socket receives a copy of every ICMP message of the host, so *)
(* two probes of one process are told apart by their Echo identifier.      *)
(* Every probe leases one from a lazily created allocator behind a mutex   *)
(* and gives it back when its lease is dropped; a returned identifier is   *)
(* quarantined before it may be leased again.                              *)
(*                                                                         *)
(* A worker thread's calls interleave with the others' at every step that  *)
(* is not under the mutex: the look-up of the OnceLock, the random seed,   *)
(* get_or_init.  A critical section is one action: its state is reachable  *)
(* only through the mutex, and it reads the clock after it took the mutex. *)
(***************************************************************************)
EXTENDS Integers, Sequences

CONSTANTS
    Worker,      \* the threads that may run a ping: the Node-API worker pool
    N,           \* the number of identifiers (u16: 65536)
    Quarantine,  \* the quarantine of a released identifier (60 s)
    MaxTime,     \* bound on the clock
    NoId         \* "no identifier is leased", "no seed was drawn"

ASSUME IdentifierAssumption ==
    /\ N \in Nat \ {0}
    /\ Quarantine \in Nat \ {0}
    /\ MaxTime \in Nat
    /\ NoId \notin 0 .. N - 1

VARIABLES
    initialized,  \* has the OnceLock IDS been set
    occupied,     \* Allocator.occupied: identifiers leased or quarantined
    retired,      \* Allocator.retired: the quarantine, oldest release first
    next,         \* Allocator.next: where the scan for a free one starts
    now,          \* the monotonic clock behind Instant::now()
    pc,           \* where each worker is in Lease::acquire / Drop
    seed,         \* the seed of the allocator a worker built but has not published
    lease,        \* the identifier each worker holds
    lastRelease   \* history: when each identifier was last released

allocVars == <<initialized, occupied, retired, next>>
workerVars == <<pc, seed, lease>>
vars == <<initialized, occupied, retired, next, now, pc, seed, lease, lastRelease>>

Id == 0 .. N - 1

Never == -1

\* An identifier that waits in the quarantine, with the time of its release.
Retirement == [id : Id, at : 0 .. MaxTime]

\* Where a worker is: no lease wanted; about to draw a seed, to publish its
\* allocator, to enter the mutex; or holding a lease.
Place == {"idle", "fill", "publish", "lock", "held"}

Init ==
    /\ initialized = FALSE
    /\ occupied = {}
    /\ retired = <<>>
    /\ next = 0
    /\ now = 0
    /\ pc = [w \in Worker |-> "idle"]
    /\ seed = [w \in Worker |-> NoId]
    /\ lease = [w \in Worker |-> NoId]
    /\ lastRelease = [i \in Id |-> Never]

-------------------------------------------------------------------------------
(* initialize: the OnceLock is looked up, and only a thread that found it    *)
(* empty draws a seed and tries to publish an allocator of its own.          *)

Look(w) ==
    /\ pc[w] = "idle"
    /\ pc' = [pc EXCEPT ![w] = IF initialized THEN "lock" ELSE "fill"]
    /\ UNCHANGED <<allocVars, now, seed, lease, lastRelease>>

\* Allocator::new fails with its random source; the caller gets the error and
\* the OnceLock stays as it was.
FillFails(w) ==
    /\ pc[w] = "fill"
    /\ pc' = [pc EXCEPT ![w] = "idle"]
    /\ UNCHANGED <<allocVars, now, seed, lease, lastRelease>>

Fill(w) ==
    /\ pc[w] = "fill"
    /\ \E s \in Id : seed' = [seed EXCEPT ![w] = s]
    /\ pc' = [pc EXCEPT ![w] = "publish"]
    /\ UNCHANGED <<allocVars, now, lease, lastRelease>>

\* Mutant: set instead of get_or_init, the last allocator wins.
PublishAlways(w) ==
    /\ pc[w] = "publish"
    /\ initialized' = TRUE
    /\ occupied' = {}
    /\ retired' = <<>>
    /\ next' = seed[w]
    /\ pc' = [pc EXCEPT ![w] = "lock"]
    /\ seed' = [seed EXCEPT ![w] = NoId]
    /\ UNCHANGED <<now, lease, lastRelease>>

\* get_or_init: the first allocator wins, a later one is thrown away.
Publish(w) ==
    /\ pc[w] = "publish"
    /\ IF initialized
          THEN UNCHANGED allocVars
          ELSE /\ initialized' = TRUE
               /\ occupied' = {}
               /\ retired' = <<>>
               /\ next' = seed[w]
    /\ pc' = [pc EXCEPT ![w] = "lock"]
    /\ seed' = [seed EXCEPT ![w] = NoId]
    /\ UNCHANGED <<now, lease, lastRelease>>

-------------------------------------------------------------------------------
(* Allocator::acquire and Allocator::release, under the mutex.               *)

HalfExpired(r) == 2 * (now - r.at) >= Quarantine  \* Mutant: too short.

Expired(r) == now - r.at >= Quarantine

\* The loop that pops the front of the quarantine pops the first k entries.
PopsFirst(k) ==
    /\ \A j \in 1 .. k : Expired(retired[j])
    /\ k < Len(retired) => ~Expired(retired[k + 1])

\* Mutant: the pop forgets to free the identifier.
KeptAll(k) == occupied

\* What stays occupied after it.
KeptAfter(k) == occupied \ {retired[j].id : j \in 1 .. k}

\* Mutant: a plain addition on a wider integer.
NoWrap(x) == x

\* wrapping_add on the identifier's width, for x below 2 * N.
Wrap(x) == IF x < N THEN x ELSE x - N

\* The identifier the scan tries after k others, and the number it tries.
Candidate(k) == Wrap(next + k)

TriesAllButOne == N - 1  \* Mutant: 0 .. u16::MAX, which leaves out the last.

Tries == N

Acquire(w) ==
    /\ pc[w] = "lock"
    /\ \E k \in 0 .. Len(retired), d \in 0 .. Tries - 1 :
          LET kept == KeptAfter(k)
              id == Candidate(d)
          IN  /\ PopsFirst(k)
              /\ \A e \in 0 .. d - 1 : Candidate(e) \in kept
              /\ id \notin kept
              /\ retired' = SubSeq(retired, k + 1, Len(retired))
              /\ occupied' = kept \cup {id}
              /\ next' = Wrap(id + 1)
              /\ lease' = [lease EXCEPT ![w] = id]
    /\ pc' = [pc EXCEPT ![w] = "held"]
    /\ UNCHANGED <<initialized, now, seed, lastRelease>>

AcquireSpins(w) == FALSE  \* Mutant: a scan without a bound never gives up.

\* Every candidate is occupied.  The expired entries are gone all the same,
\* and the scan has moved next once around.
AcquireFails(w) ==
    /\ pc[w] = "lock"
    /\ \E k \in 0 .. Len(retired) :
          /\ PopsFirst(k)
          /\ \A d \in 0 .. Tries - 1 : Candidate(d) \in KeptAfter(k)
          /\ retired' = SubSeq(retired, k + 1, Len(retired))
          /\ occupied' = KeptAfter(k)
    /\ next' = Wrap(next + Tries)
    /\ pc' = [pc EXCEPT ![w] = "idle"]
    /\ UNCHANGED <<initialized, now, seed, lease, lastRelease>>

\* Drop for Lease, with Allocator::release: the identifier stays occupied.
Release(w) ==
    /\ pc[w] = "held"
    /\ initialized
    /\ retired' = Append(retired, [id |-> lease[w], at |-> now])
    /\ lastRelease' = [lastRelease EXCEPT ![lease[w]] = now]
    /\ lease' = [lease EXCEPT ![w] = NoId]
    /\ pc' = [pc EXCEPT ![w] = "idle"]
    /\ UNCHANGED <<initialized, occupied, next, now, seed>>

-------------------------------------------------------------------------------

Tick ==
    /\ now < MaxTime
    /\ now' = now + 1
    /\ UNCHANGED <<allocVars, workerVars, lastRelease>>

\* The steps of Lease::acquire, and the drop of the lease.
AcquireStep(w) ==
    \/ Look(w)
    \/ Fill(w)
    \/ FillFails(w)
    \/ Publish(w)
    \/ Acquire(w)
    \/ AcquireFails(w)

Next == Tick \/ \E w \in Worker : AcquireStep(w) \/ Release(w)

Spec == Init /\ [][Next]_vars

\* The operating system runs every thread that can run, and the mutex is held
\* for a bounded time only.  Nothing is assumed of how long a lease is held.
FairSpec == Spec /\ \A w \in Worker : WF_vars(pc[w] # "idle" /\ AcquireStep(w))

-------------------------------------------------------------------------------

\* Every variable has its type.  The one part the code could break is the
\* u16 width of next, kept by wrapping_add.
TypeOK ==
    /\ initialized \in BOOLEAN
    /\ occupied \in SUBSET Id
    /\ retired \in Seq(Retirement)
    /\ next \in Id
    /\ now \in 0 .. MaxTime
    /\ pc \in [Worker -> Place]
    /\ seed \in [Worker -> Id \cup {NoId}]
    /\ lease \in [Worker -> Id \cup {NoId}]
    /\ lastRelease \in [Id -> {Never} \cup 0 .. MaxTime]

Leased == {lease[w] : w \in {v \in Worker : pc[v] = "held"}}

Quarantined == {retired[j].id : j \in 1 .. Len(retired)}

\* Two probes in flight never share an identifier, also when several threads
\* race to create the allocator and all but one of theirs are thrown away.
UniqueLeases ==
    \A v, w \in Worker :
        pc[v] = "held" /\ pc[w] = "held" /\ lease[v] = lease[w] => v = w

\* Every occupied identifier is accounted for: either a live lease holds it or
\* exactly one entry of the quarantine will free it.  An identifier outside both
\* would be lost to the process for good, one in both would be freed while held.
NoIdentifierLost ==
    /\ occupied = Leased \cup Quarantined
    /\ Leased \cap Quarantined = {}
    /\ \A j, k \in 1 .. Len(retired) : retired[j].id = retired[k].id => j = k

\* Lease::acquire fails for lack of capacity only when every identifier is held
\* or was released less than the quarantine ago: no expired entry hides behind
\* a younger one, and the scan misses no identifier wherever it starts.
ExhaustionIsReal ==
    [][\A w \in Worker :
          pc[w] = "lock" /\ pc'[w] = "idle" =>
              \A i \in Id :
                  \/ i \in Leased
                  \/ lastRelease[i] # Never /\ now - lastRelease[i] < Quarantine]_vars

\* Lease::acquire returns: whatever the other threads do it comes out with a
\* lease or an error, also when every identifier is taken.
AcquireReturns ==
    \A w \in Worker : pc[w] = "lock" ~> pc[w] \in {"held", "idle"}

Pool == INSTANCE LeasePool WITH Holder <- Worker

\* The allocator is a lease pool: what it grants is free, and past its
\* quarantine if it was ever released.
ImplementsPool == Pool!PoolSpec
===============================================================================
