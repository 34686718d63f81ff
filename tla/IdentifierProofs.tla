--------------------------- MODULE IdentifierProofs ---------------------------
(***************************************************************************)
(* Proofs about Identifier for every number of workers, every identifier   *)
(* width, every quarantine and every bound of the clock.                   *)
(*                                                                         *)
(* UniqueLeases and NoIdentifierLost are not inductive: that a popped      *)
(* entry frees an identifier nobody holds, and one past its quarantine,    *)
(* rests on what a worker holds at each place (PlaceOK), on the order and  *)
(* the dates of the quarantine (Dated) and on the age of what is free      *)
(* (FreeIsAged).  IInv joins them.                                         *)
(***************************************************************************)
EXTENDS Identifier, SequenceTheorems, TLAPS

PlaceOK ==
    \A w \in Worker :
        /\ lease[w] # NoId <=> pc[w] = "held"
        /\ seed[w] # NoId <=> pc[w] = "publish"
        /\ pc[w] \in {"lock", "held"} => initialized

Pristine == ~initialized => occupied = {} /\ retired = <<>>

Dated ==
    \A j \in 1 .. Len(retired) :
        /\ retired[j].at <= now
        /\ lastRelease[retired[j].id] = retired[j].at
        /\ \A k \in j .. Len(retired) : retired[j].at <= retired[k].at

FreeIsAged ==
    \A i \in Id \ occupied :
        lastRelease[i] = Never \/ now - lastRelease[i] >= Quarantine

IInv ==
    /\ TypeOK
    /\ PlaceOK
    /\ Pristine
    /\ UniqueLeases
    /\ NoIdentifierLost
    /\ Dated
    /\ FreeIsAged
-------------------------------------------------------------------------------
(* Lemmas about the operators of the scan and of the quarantine.             *)

\* The scan visits every identifier, wherever it starts: N candidates from
\* next on, wrapping at the width, are all the identifiers there are.
LEMMA ScanCovers ==
    ASSUME next \in Id, NEW i \in Id
    PROVE  \E d \in 0 .. Tries - 1 : Candidate(d) = i
<1> DEFINE d == IF i >= next THEN i - next ELSE i - next + N
<1>1. d \in 0 .. Tries - 1
  BY IdentifierAssumption DEF Id, Tries
<1>2. Candidate(d) = i
  BY IdentifierAssumption DEF Id, Candidate, Wrap
<1> QED
  BY <1>1, <1>2

\* A candidate of the scan, and the scan's new start, have the u16 width.
LEMMA ScanInRange ==
    ASSUME next \in Id
    PROVE  /\ \A d \in 0 .. Tries - 1 : Candidate(d) \in Id
           /\ \A i \in Id : Wrap(i + 1) \in Id
           /\ Wrap(next + Tries) \in Id
<1> QED
  BY IdentifierAssumption DEF Id, Candidate, Wrap, Tries

\* What the quarantine loses when its first k entries are popped.
LEMMA QuarantineRest ==
    ASSUME retired \in Seq(Retirement), NEW k \in 0 .. Len(retired)
    PROVE  LET rest == SubSeq(retired, k + 1, Len(retired))
           IN  /\ rest \in Seq(Retirement)
               /\ Len(rest) = Len(retired) - k
               /\ \A j \in 1 .. Len(rest) : rest[j] = retired[j + k]
<1> DEFINE rest == SubSeq(retired, k + 1, Len(retired))
<1>1. Len(retired) \in Nat
  BY LenProperties
<1>2. \A j \in k + 1 .. Len(retired) : retired[j] \in Retirement
  BY <1>1, ElementOfSeq
<1>3. /\ rest \in Seq(Retirement)
      /\ Len(rest) = IF k + 1 <= Len(retired) THEN Len(retired) - (k + 1) + 1 ELSE 0
      /\ \A j \in 1 .. Len(retired) - (k + 1) + 1 : rest[j] = retired[k + 1 + j - 1]
  <2>1. k + 1 \in Int /\ Len(retired) \in Int
    BY <1>1
  <2> HIDE DEF rest
  <2> QED
    BY <1>2, <2>1, SubSeqProperties DEF rest
<1>4. Len(rest) = Len(retired) - k
  BY <1>1, <1>3
<1>5. ASSUME NEW j \in 1 .. Len(rest)
      PROVE  rest[j] = retired[j + k]
  <2>1. j \in 1 .. Len(retired) - (k + 1) + 1 /\ k + 1 + j - 1 = j + k
    BY <1>1, <1>4
  <2> QED
    BY <1>3, <2>1
<1> QED
  BY <1>3, <1>4, <1>5

\* What Allocator::acquire finds after its pop loop: what stays occupied is
\* leased or waits in the rest of the quarantine, and what is free was never
\* released or was released a quarantine ago.
LEMMA AfterPop ==
    ASSUME IInv, NEW k \in 0 .. Len(retired), PopsFirst(k)
    PROVE  /\ KeptAfter(k) \subseteq Id
           /\ KeptAfter(k) = Leased \cup {retired[j].id : j \in k + 1 .. Len(retired)}
           /\ \A i \in Id \ KeptAfter(k) :
                 lastRelease[i] = Never \/ now - lastRelease[i] >= Quarantine
<1> USE DEF IInv
<1>1. Len(retired) \in Nat
  BY LenProperties DEF TypeOK
<1>2. KeptAfter(k) = Leased \cup {retired[j].id : j \in k + 1 .. Len(retired)}
  BY <1>1 DEF KeptAfter, NoIdentifierLost, Quarantined
<1>3. ASSUME NEW i \in Id \ KeptAfter(k)
      PROVE  lastRelease[i] = Never \/ now - lastRelease[i] >= Quarantine
  <2>1. CASE i \notin occupied
    BY <2>1 DEF FreeIsAged
  <2>2. CASE i \in occupied
    <3>1. PICK j \in 1 .. k : i = retired[j].id
      BY <2>2 DEF KeptAfter
    <3>2. Expired(retired[j]) /\ lastRelease[i] = retired[j].at
      BY <1>1, <3>1 DEF PopsFirst, Dated
    <3> QED
      BY <3>2 DEF Expired
  <2> QED
    BY <2>1, <2>2
<1> QED
  BY <1>2, <1>3 DEF KeptAfter, TypeOK
\* Popping k entries shifts the positions of the others, no more.
LEMMA RestIsQuarantined ==
    ASSUME Len(retired) \in Nat, NEW k \in 0 .. Len(retired),
           Len(retired') = Len(retired) - k,
           \A j \in 1 .. Len(retired') : retired'[j] = retired[j + k]
    PROVE  Quarantined' = {retired[j].id : j \in k + 1 .. Len(retired)}
<1> DEFINE left == {retired[j].id : j \in k + 1 .. Len(retired)}
<1>1. ASSUME NEW i \in Quarantined'
      PROVE  i \in left
  <2>1. PICK j \in 1 .. Len(retired') : i = retired'[j].id
    BY DEF Quarantined
  <2>2. j + k \in k + 1 .. Len(retired) /\ i = retired[j + k].id
    BY <2>1
  <2> QED
    BY <2>2
<1>2. ASSUME NEW i \in left
      PROVE  i \in Quarantined'
  <2>1. PICK j \in k + 1 .. Len(retired) : i = retired[j].id
    OBVIOUS
  <2>2. j - k \in 1 .. Len(retired') /\ (j - k) + k = j
    OBVIOUS
  <2>3. retired'[j - k].id = i
    BY <2>1, <2>2
  <2> QED
    BY <2>2, <2>3 DEF Quarantined
<1> QED
  BY <1>1, <1>2

LEMMA RestIsDistinct ==
    ASSUME Len(retired) \in Nat, NEW k \in 0 .. Len(retired),
           Len(retired') = Len(retired) - k,
           \A j \in 1 .. Len(retired') : retired'[j] = retired[j + k],
           \A j, m \in 1 .. Len(retired) : retired[j].id = retired[m].id => j = m
    PROVE  \A j, m \in 1 .. Len(retired') : retired'[j].id = retired'[m].id => j = m
<1> SUFFICES ASSUME NEW j \in 1 .. Len(retired'), NEW m \in 1 .. Len(retired'),
                    retired'[j].id = retired'[m].id
             PROVE  j = m
  OBVIOUS
<1>1. j + k \in 1 .. Len(retired) /\ m + k \in 1 .. Len(retired)
  OBVIOUS
<1>2. retired[j + k].id = retired[m + k].id
  OBVIOUS
<1>3. j + k = m + k
  BY <1>1, <1>2
<1> QED
  BY <1>3

LEMMA RestIsDated ==
    ASSUME Dated, Len(retired) \in Nat, NEW k \in 0 .. Len(retired),
           Len(retired') = Len(retired) - k,
           \A j \in 1 .. Len(retired') : retired'[j] = retired[j + k],
           UNCHANGED <<now, lastRelease>>
    PROVE  Dated'
<1> SUFFICES ASSUME NEW j \in 1 .. Len(retired')
             PROVE  /\ retired'[j].at <= now'
                    /\ lastRelease'[retired'[j].id] = retired'[j].at
                    /\ \A m \in j .. Len(retired') : retired'[j].at <= retired'[m].at
  BY DEF Dated
<1>1. j + k \in 1 .. Len(retired) /\ retired'[j] = retired[j + k]
  OBVIOUS
<1>2. \A m \in j .. Len(retired') :
         m + k \in j + k .. Len(retired) /\ retired'[m] = retired[m + k]
  OBVIOUS
<1> QED
  BY <1>1, <1>2 DEF Dated

-------------------------------------------------------------------------------
(* The inductive invariant: one lemma per action under the mutex.            *)

LEMMA AcquireKeepsIInv ==
    ASSUME IInv, NEW w \in Worker, Acquire(w)
    PROVE  IInv'
<1> USE DEF IInv
<1>1. PICK k \in 0 .. Len(retired), d \in 0 .. Tries - 1 :
         /\ PopsFirst(k)
         /\ Candidate(d) \notin KeptAfter(k)
         /\ retired' = SubSeq(retired, k + 1, Len(retired))
         /\ occupied' = KeptAfter(k) \cup {Candidate(d)}
         /\ next' = Wrap(Candidate(d) + 1)
         /\ lease' = [lease EXCEPT ![w] = Candidate(d)]
  BY DEF Acquire
<1> DEFINE id == Candidate(d)
<1>2. /\ pc[w] = "lock" /\ pc' = [pc EXCEPT ![w] = "held"]
      /\ UNCHANGED <<initialized, now, seed, lastRelease>>
  BY DEF Acquire
<1>3. id \in Id /\ next' \in Id
  BY <1>1, ScanInRange DEF TypeOK
<1>4. /\ Len(retired) \in Nat
      /\ retired' \in Seq(Retirement)
      /\ Len(retired') = Len(retired) - k
      /\ \A j \in 1 .. Len(retired') : retired'[j] = retired[j + k]
  BY <1>1, QuarantineRest, LenProperties DEF TypeOK
<1>5. /\ KeptAfter(k) \subseteq Id
      /\ KeptAfter(k) = Leased \cup {retired[j].id : j \in k + 1 .. Len(retired)}
      /\ \A i \in Id \ KeptAfter(k) :
            lastRelease[i] = Never \/ now - lastRelease[i] >= Quarantine
  BY <1>1, AfterPop
<1> HIDE DEF id
<1>6. /\ id \notin KeptAfter(k)
      /\ occupied' = KeptAfter(k) \cup {id}
      /\ lease' = [lease EXCEPT ![w] = id]
  BY <1>1 DEF id
<1>7. TypeOK'
  BY <1>2, <1>3, <1>4, <1>5, <1>6 DEF TypeOK, Place
<1>8. PlaceOK'
  BY <1>2, <1>3, <1>6, IdentifierAssumption DEF PlaceOK, TypeOK, Id
<1>9. Pristine'
  BY <1>2 DEF PlaceOK, Pristine
<1>10. UniqueLeases'
  <2>1. \A v \in Worker : pc[v] = "held" => lease[v] # id
    BY <1>5, <1>6 DEF Leased
  <2> QED
    BY <1>2, <1>6, <2>1 DEF UniqueLeases, TypeOK
<1>11. Leased' = Leased \cup {id}
  BY <1>2, <1>6 DEF Leased, TypeOK
<1>12. Quarantined' = {retired[j].id : j \in k + 1 .. Len(retired)}
  BY <1>4, RestIsQuarantined
<1>13. NoIdentifierLost'
  <2>1. occupied' = Leased' \cup Quarantined'
    BY <1>5, <1>6, <1>11, <1>12
  <2>2. Leased' \cap Quarantined' = {}
    BY <1>4, <1>5, <1>6, <1>11, <1>12 DEF NoIdentifierLost, Quarantined
  <2>3. \A j, m \in 1 .. Len(retired') : retired'[j].id = retired'[m].id => j = m
    BY <1>4, RestIsDistinct DEF NoIdentifierLost
  <2> QED
    BY <2>1, <2>2, <2>3 DEF NoIdentifierLost
<1>14. Dated'
  BY <1>2, <1>4, RestIsDated
<1>15. FreeIsAged'
  BY <1>2, <1>5, <1>6 DEF FreeIsAged
<1> QED
  BY <1>7, <1>8, <1>9, <1>10, <1>13, <1>14, <1>15
LEMMA AcquireFailsKeepsIInv ==
    ASSUME IInv, NEW w \in Worker, AcquireFails(w)
    PROVE  IInv'
<1> USE DEF IInv
<1>1. PICK k \in 0 .. Len(retired) :
         /\ PopsFirst(k)
         /\ retired' = SubSeq(retired, k + 1, Len(retired))
         /\ occupied' = KeptAfter(k)
  BY DEF AcquireFails
<1>2. /\ pc[w] = "lock" /\ pc' = [pc EXCEPT ![w] = "idle"]
      /\ next' = Wrap(next + Tries)
      /\ UNCHANGED <<initialized, now, seed, lease, lastRelease>>
  BY DEF AcquireFails
<1>3. /\ Len(retired) \in Nat
      /\ retired' \in Seq(Retirement)
      /\ Len(retired') = Len(retired) - k
      /\ \A j \in 1 .. Len(retired') : retired'[j] = retired[j + k]
  BY <1>1, QuarantineRest, LenProperties DEF TypeOK
<1>4. /\ KeptAfter(k) \subseteq Id
      /\ KeptAfter(k) = Leased \cup {retired[j].id : j \in k + 1 .. Len(retired)}
      /\ \A i \in Id \ KeptAfter(k) :
            lastRelease[i] = Never \/ now - lastRelease[i] >= Quarantine
  BY <1>1, AfterPop
<1>5. TypeOK'
  BY <1>1, <1>2, <1>3, <1>4, ScanInRange DEF TypeOK, Place
<1>6. PlaceOK' /\ Pristine'
  BY <1>2 DEF PlaceOK, Pristine, TypeOK
<1>7. UniqueLeases'
  BY <1>2 DEF UniqueLeases, TypeOK
<1>8. Leased' = Leased
  BY <1>2 DEF Leased, TypeOK
<1>9. Quarantined' = {retired[j].id : j \in k + 1 .. Len(retired)}
  BY <1>3, RestIsQuarantined
<1>10. NoIdentifierLost'
  <2>1. Leased' \cap Quarantined' = {}
    BY <1>3, <1>8, <1>9 DEF NoIdentifierLost, Quarantined
  <2>2. \A j, m \in 1 .. Len(retired') : retired'[j].id = retired'[m].id => j = m
    BY <1>3, RestIsDistinct DEF NoIdentifierLost
  <2> QED
    BY <1>1, <1>4, <1>8, <1>9, <2>1, <2>2 DEF NoIdentifierLost
<1>11. Dated'
  BY <1>2, <1>3, RestIsDated
<1>12. FreeIsAged'
  BY <1>1, <1>2, <1>4 DEF FreeIsAged
<1> QED
  BY <1>5, <1>6, <1>7, <1>10, <1>11, <1>12
\* What is leased and what is quarantined depends on these variables only.
LEMMA AccountsUnchanged ==
    ASSUME UniqueLeases, NoIdentifierLost,
           UNCHANGED <<occupied, retired, lease>>,
           \A v \in Worker : pc'[v] = "held" <=> pc[v] = "held"
    PROVE  UniqueLeases' /\ NoIdentifierLost'
<1>1. Leased' = Leased
  BY DEF Leased
<1>2. Quarantined' = Quarantined
  BY DEF Quarantined
<1>3. UniqueLeases'
  BY DEF UniqueLeases
<1>4. NoIdentifierLost'
  BY <1>1, <1>2 DEF NoIdentifierLost
<1> QED
  BY <1>3, <1>4

LEMMA ReleaseKeepsIInv ==
    ASSUME IInv, NEW w \in Worker, Release(w)
    PROVE  IInv'
<1> USE DEF IInv
<1> DEFINE id == lease[w]
           L == Len(retired)
<1>1. /\ pc[w] = "held" /\ initialized
      /\ retired' = Append(retired, [id |-> id, at |-> now])
      /\ lastRelease' = [lastRelease EXCEPT ![id] = now]
      /\ lease' = [lease EXCEPT ![w] = NoId]
      /\ pc' = [pc EXCEPT ![w] = "idle"]
      /\ UNCHANGED <<initialized, occupied, next, now, seed>>
  BY DEF Release
<1>2. id \in Id /\ id \in Leased
  BY <1>1 DEF PlaceOK, TypeOK, Leased
<1>3. /\ L \in Nat
      /\ retired' \in Seq(Retirement)
      /\ Len(retired') = L + 1
      /\ \A j \in 1 .. L : retired'[j] = retired[j]
      /\ retired'[L + 1] = [id |-> id, at |-> now]
  <2>1. [id |-> id, at |-> now] \in Retirement
    BY <1>2 DEF Retirement, TypeOK
  <2> QED
    BY <1>1, <2>1, LenProperties, AppendProperties DEF TypeOK
<1> HIDE DEF id, L
<1>4. \A j \in 1 .. L : retired[j].id # id /\ retired[j].id \in Id
  <2>1. \A j \in 1 .. L : retired[j].id # id
    BY <1>2 DEF NoIdentifierLost, Quarantined, L
  <2>2. \A j \in 1 .. L : retired[j] \in Retirement
    BY <1>3, ElementOfSeq DEF TypeOK, L
  <2> QED
    BY <2>1, <2>2 DEF Retirement
<1>5. TypeOK'
  BY <1>1, <1>2, <1>3 DEF TypeOK, Place
<1>6. PlaceOK' /\ Pristine'
  BY <1>1 DEF PlaceOK, Pristine, TypeOK
<1>7. UniqueLeases'
  BY <1>1 DEF UniqueLeases, TypeOK
<1>8. Leased' = Leased \ {id}
  BY <1>1 DEF Leased, TypeOK, UniqueLeases, id
<1>9. Quarantined' = Quarantined \cup {id}
  <2>1. \A j \in 1 .. Len(retired') : j \in 1 .. L \/ j = L + 1
    BY <1>3
  <2>2. 1 .. L \subseteq 1 .. Len(retired') /\ L + 1 \in 1 .. Len(retired')
    BY <1>3
  <2> QED
    BY <1>3, <2>1, <2>2 DEF Quarantined, L
<1>10. NoIdentifierLost'
  <2>1. ASSUME NEW j \in 1 .. Len(retired'), NEW m \in 1 .. Len(retired'),
               retired'[j].id = retired'[m].id
        PROVE  j = m
    BY <1>3, <1>4, <2>1 DEF NoIdentifierLost, L
  <2>2. occupied' = Leased' \cup Quarantined' /\ Leased' \cap Quarantined' = {}
    BY <1>1, <1>2, <1>8, <1>9 DEF NoIdentifierLost
  <2> QED
    BY <2>1, <2>2 DEF NoIdentifierLost
<1>11. Dated'
  <2> SUFFICES ASSUME NEW j \in 1 .. Len(retired')
               PROVE  /\ retired'[j].at <= now'
                      /\ lastRelease'[retired'[j].id] = retired'[j].at
                      /\ \A m \in j .. Len(retired') : retired'[j].at <= retired'[m].at
    BY DEF Dated
  <2>1. now \in Nat
    BY DEF TypeOK
  <2>2. CASE j = L + 1
    BY <1>1, <1>2, <1>3, <2>1, <2>2 DEF TypeOK
  <2>3. CASE j \in 1 .. L
    <3>1. retired'[j].at <= now /\ retired'[j] = retired[j]
      BY <1>3, <2>3 DEF Dated, L
    <3>2. lastRelease'[retired'[j].id] = retired'[j].at
      BY <1>1, <1>4, <2>3, <3>1 DEF Dated, L, TypeOK
    <3>3. \A m \in j .. Len(retired') : retired'[j].at <= retired'[m].at
      BY <1>3, <2>3, <3>1 DEF Dated, L
    <3> QED
      BY <1>1, <3>1, <3>2, <3>3
  <2> QED
    BY <1>3, <2>2, <2>3
<1>12. FreeIsAged'
  BY <1>1, <1>2 DEF FreeIsAged, NoIdentifierLost, TypeOK
<1> QED
  BY <1>5, <1>6, <1>7, <1>10, <1>11, <1>12
-------------------------------------------------------------------------------
(* The theorems.                                                             *)

\* Init gives the inductive invariant and every step keeps it: the allocator's
\* bookkeeping is right at every point where another thread can look at it.
THEOREM Inductive == Spec => []IInv
<1>1. Init => IInv
  <2> SUFFICES ASSUME Init PROVE IInv
    OBVIOUS
  <2>1. TypeOK
    BY IdentifierAssumption DEF Init, TypeOK, Id, Place
  <2>2. PlaceOK /\ Pristine /\ UniqueLeases
    BY DEF Init, PlaceOK, Pristine, UniqueLeases
  <2>3. NoIdentifierLost /\ Dated
    BY DEF Init, NoIdentifierLost, Leased, Quarantined, Dated
  <2>4. FreeIsAged
    BY DEF Init, FreeIsAged
  <2> QED
    BY <2>1, <2>2, <2>3, <2>4 DEF IInv
<1>2. IInv /\ [Next]_vars => IInv'
  <2> SUFFICES ASSUME IInv, [Next]_vars PROVE IInv'
    OBVIOUS
  <2> USE DEF IInv
  <2>1. CASE UNCHANGED vars
    <3>1. TypeOK' /\ PlaceOK' /\ Pristine' /\ Dated' /\ FreeIsAged'
      BY <2>1 DEF vars, TypeOK, PlaceOK, Pristine, Dated, FreeIsAged
    <3> QED
      BY <2>1, <3>1, AccountsUnchanged DEF vars
  <2>2. CASE Tick
    <3>1. /\ now' = now + 1 /\ now' \in 0 .. MaxTime
          /\ UNCHANGED <<allocVars, workerVars, lastRelease>>
      BY <2>2, IdentifierAssumption DEF Tick, TypeOK
    <3>2. TypeOK' /\ PlaceOK' /\ Pristine'
      BY <3>1 DEF allocVars, workerVars, TypeOK, PlaceOK, Pristine
    <3>3. Dated'
      <4>1. \A j \in 1 .. Len(retired) : retired[j] \in Retirement
        BY ElementOfSeq DEF TypeOK
      <4> QED
        BY <3>1, <4>1 DEF allocVars, TypeOK, Dated, Retirement
    <3>4. FreeIsAged'
      BY <3>1, IdentifierAssumption DEF allocVars, TypeOK, FreeIsAged
    <3> QED
      BY <3>1, <3>2, <3>3, <3>4, AccountsUnchanged DEF allocVars, workerVars
  <2>3. ASSUME NEW w \in Worker, Look(w) \/ FillFails(w) \/ Fill(w)
        PROVE  IInv'
    <3>1. /\ UNCHANGED <<allocVars, now, lease, lastRelease>>
          /\ \A v \in Worker : pc'[v] = "held" <=> pc[v] = "held"
          /\ pc' \in [Worker -> Place]
          /\ seed' \in [Worker -> Id \cup {NoId}]
      BY <2>3 DEF Look, FillFails, Fill, TypeOK, Place
    <3>2. PlaceOK'
      BY <2>3, IdentifierAssumption
         DEF Look, FillFails, Fill, allocVars, PlaceOK, TypeOK, Id
    <3>3. TypeOK' /\ Pristine'
      BY <3>1 DEF allocVars, TypeOK, Pristine
    <3>4. Dated' /\ FreeIsAged'
      BY <3>1 DEF allocVars, Dated, FreeIsAged
    <3> QED
      BY <3>1, <3>2, <3>3, <3>4, AccountsUnchanged DEF allocVars
  <2>4. ASSUME NEW w \in Worker, Publish(w)
        PROVE  IInv'
    <3>1. /\ pc[w] = "publish" /\ seed[w] \in Id
          /\ UNCHANGED <<now, lease, lastRelease>>
          /\ pc' = [pc EXCEPT ![w] = "lock"] /\ seed' = [seed EXCEPT ![w] = NoId]
      BY <2>4 DEF Publish, PlaceOK, TypeOK
    <3>2. /\ initialized' /\ UNCHANGED <<occupied, retired>>
          /\ next' \in {next, seed[w]}
      BY <2>4 DEF Publish, allocVars, Pristine
    <3>3. TypeOK'
      BY <3>1, <3>2 DEF TypeOK, Place, Publish
    <3>4. PlaceOK' /\ Pristine' /\ Dated' /\ FreeIsAged'
      BY <3>1, <3>2 DEF PlaceOK, Pristine, Dated, FreeIsAged, TypeOK
    <3>5. \A v \in Worker : pc'[v] = "held" <=> pc[v] = "held"
      BY <3>1 DEF TypeOK
    <3> QED
      BY <3>1, <3>2, <3>3, <3>4, <3>5, AccountsUnchanged
  <2> QED
    BY <2>1, <2>2, <2>3, <2>4, AcquireKeepsIInv, AcquireFailsKeepsIInv, ReleaseKeepsIInv
       DEF Next, AcquireStep
<1> QED
  BY <1>1, <1>2, PTL DEF Spec

\* next never leaves the u16 width, and every other variable has its type.
THEOREM TypeCorrect == Spec => []TypeOK
<1>1. IInv => TypeOK
  BY DEF IInv
<1> QED
  BY <1>1, Inductive, PTL

\* Two probes in flight never share an identifier, whatever the number of
\* threads that raced to create the allocator.
THEOREM LeasesAreUnique == Spec => []UniqueLeases
<1>1. IInv => UniqueLeases
  BY DEF IInv
<1> QED
  BY <1>1, Inductive, PTL

\* No identifier is ever lost to the process, nor freed while it is held.
THEOREM NothingIsLost == Spec => []NoIdentifierLost
<1>1. IInv => NoIdentifierLost
  BY DEF IInv
<1> QED
  BY <1>1, Inductive, PTL

\* Lease::acquire reports exhaustion only when no identifier may be leased: the
\* scan misses none, and no expired entry hides behind a younger one.
THEOREM ExhaustionTheorem == Spec => ExhaustionIsReal
<1> DEFINE Real ==
      \A w \in Worker :
          pc[w] = "lock" /\ pc'[w] = "idle" =>
              \A i \in Id :
                  \/ i \in Leased
                  \/ lastRelease[i] # Never /\ now - lastRelease[i] < Quarantine
<1>1. IInv /\ [Next]_vars => [Real]_vars
  <2> SUFFICES ASSUME IInv, Next,
                      NEW w \in Worker, pc[w] = "lock", pc'[w] = "idle",
                      NEW i \in Id
               PROVE  \/ i \in Leased
                      \/ lastRelease[i] # Never /\ now - lastRelease[i] < Quarantine
    OBVIOUS
  <2>1. AcquireFails(w)
    BY DEF IInv, TypeOK, Next, Tick, AcquireStep, Look, Fill, FillFails, Publish,
           Acquire, AcquireFails, Release, workerVars
  <2>2. PICK k \in 0 .. Len(retired) :
           PopsFirst(k) /\ \A d \in 0 .. Tries - 1 : Candidate(d) \in KeptAfter(k)
    BY <2>1 DEF AcquireFails
  <2>3. i \in KeptAfter(k)
    BY <2>2, ScanCovers DEF IInv, TypeOK
  <2>4. CASE i \in Leased
    BY <2>4
  <2>5. CASE i \notin Leased
    <3>1. PICK j \in k + 1 .. Len(retired) : i = retired[j].id
      BY <2>2, <2>3, <2>5, AfterPop
    <3>2. Len(retired) \in Nat
      BY LenProperties DEF IInv, TypeOK
    <3>3. ~Expired(retired[k + 1]) /\ retired[k + 1].at <= retired[j].at
      BY <2>2, <3>1, <3>2 DEF PopsFirst, IInv, Dated
    <3>4. retired[k + 1] \in Retirement /\ retired[j] \in Retirement
      BY <3>1, <3>2, ElementOfSeq DEF IInv, TypeOK
    <3>5. lastRelease[i] = retired[j].at
      BY <3>1, <3>2 DEF IInv, Dated
    <3> QED
      BY <3>3, <3>4, <3>5, IdentifierAssumption
         DEF Expired, Retirement, Never, IInv, TypeOK
  <2> QED
    BY <2>4, <2>5
<1> QED
  BY <1>1, Inductive, PTL DEF Spec, ExhaustionIsReal

\* The allocator implements the lease pool: an identifier it grants has no
\* holder and is past its quarantine.
THEOREM Refinement == Spec => ImplementsPool
<1>1. Init => Pool!PoolInit
  BY DEF Init, Pool!PoolInit, Id, Never, Pool!Id, Pool!Never
<1>2. IInv /\ [Next]_vars => [Pool!PoolNext]_(Pool!poolVars)
  <2> SUFFICES ASSUME IInv, [Next]_vars
               PROVE  Pool!PoolNext \/ UNCHANGED Pool!poolVars
    OBVIOUS
  <2> USE DEF Pool!poolVars
  <2>1. CASE UNCHANGED vars
    BY <2>1 DEF vars
  <2>2. CASE Tick
    BY <2>2 DEF Tick, workerVars, Pool!PoolNext, Pool!Advance
  <2>3. ASSUME NEW w \in Worker,
               Look(w) \/ Fill(w) \/ FillFails(w) \/ Publish(w) \/ AcquireFails(w)
        PROVE  UNCHANGED Pool!poolVars
    BY <2>3 DEF Look, Fill, FillFails, Publish, AcquireFails
  <2>4. ASSUME NEW w \in Worker, Acquire(w)
        PROVE  Pool!Grant(w)
    <3>1. PICK k \in 0 .. Len(retired), d \in 0 .. Tries - 1 :
             /\ PopsFirst(k)
             /\ Candidate(d) \notin KeptAfter(k)
             /\ lease' = [lease EXCEPT ![w] = Candidate(d)]
      BY <2>4 DEF Acquire
    <3>2. Candidate(d) \in Id
      BY <3>1, ScanInRange DEF IInv, TypeOK
    <3>3. lease[w] = NoId /\ UNCHANGED <<now, lastRelease>>
      BY <2>4 DEF Acquire, IInv, PlaceOK
    <3>4. ~Pool!Held(Candidate(d))
      <4>1. Candidate(d) \notin Leased
        BY <3>1, AfterPop
      <4> QED
        BY <3>2, <4>1, IdentifierAssumption
           DEF Pool!Held, Leased, IInv, PlaceOK, TypeOK, Id
    <3>5. ~Pool!Withheld(Candidate(d))
      <4>1. \/ lastRelease[Candidate(d)] = Never
            \/ now - lastRelease[Candidate(d)] >= Quarantine
        BY <3>1, <3>2, AfterPop
      <4> QED
        BY <3>2, <4>1, IdentifierAssumption
           DEF Pool!Withheld, Pool!Never, Never, IInv, TypeOK
    <3> QED
      BY <3>1, <3>2, <3>3, <3>4, <3>5 DEF Pool!Grant, Pool!Available, Pool!Id, Id
  <2>5. ASSUME NEW w \in Worker, Release(w)
        PROVE  Pool!Return(w)
    BY <2>5 DEF Release, Pool!Return, IInv, PlaceOK
  <2> QED
    BY <2>1, <2>2, <2>3, <2>4, <2>5 DEF Next, AcquireStep, Pool!PoolNext
<1> QED
  BY <1>1, <1>2, Inductive, PTL DEF Spec, ImplementsPool, Pool!PoolSpec
===============================================================================
