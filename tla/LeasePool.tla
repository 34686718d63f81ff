------------------------------ MODULE LeasePool ------------------------------
(***************************************************************************)
(* What the identifier allocator promises its callers, whatever its data   *)
(* structures: an identifier has at most one holder, and one that was      *)
(* given back is not handed out again before the quarantine has passed.    *)
(* Module Identifier implements this specification, and PingSystem is      *)
(* built on it.                                                            *)
(***************************************************************************)
EXTENDS Integers

CONSTANTS
    Holder,      \* who may hold an identifier
    N,           \* the number of identifiers
    Quarantine,  \* how long a released identifier is withheld
    MaxTime,     \* bound on the clock
    NoId         \* "holds no identifier"

VARIABLES
    now,         \* the clock
    lease,       \* the identifier each holder holds
    lastRelease  \* when each identifier was last given back

poolVars == <<now, lease, lastRelease>>

Id == 0 .. N - 1

Never == -1

PoolInit ==
    /\ now = 0
    /\ lease = [w \in Holder |-> NoId]
    /\ lastRelease = [i \in Id |-> Never]

NobodyHolds(i) == FALSE  \* Mutant: leases are not recorded.

Held(i) == \E w \in Holder : lease[w] = i

NeverWithheld(i) == FALSE  \* Mutant: no quarantine.

\* Released less than the quarantine ago.
Withheld(i) == lastRelease[i] # Never /\ now - lastRelease[i] < Quarantine

Available(i) == ~Held(i) /\ ~Withheld(i)

Grant(w) ==
    /\ lease[w] = NoId
    /\ \E i \in Id :
          /\ Available(i)
          /\ lease' = [lease EXCEPT ![w] = i]
    /\ UNCHANGED <<now, lastRelease>>

Return(w) ==
    /\ lease[w] # NoId
    /\ lease' = [lease EXCEPT ![w] = NoId]
    /\ lastRelease' = [lastRelease EXCEPT ![lease[w]] = now]
    /\ UNCHANGED now

Advance ==
    /\ now < MaxTime
    /\ now' = now + 1
    /\ UNCHANGED <<lease, lastRelease>>

PoolNext == Advance \/ \E w \in Holder : Grant(w) \/ Return(w)

PoolSpec == PoolInit /\ [][PoolNext]_poolVars
==============================================================================
