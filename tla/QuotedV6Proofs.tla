---------------------------- MODULE QuotedV6Proofs ----------------------------
(***************************************************************************)
(* Theorems about QuotedV6, for packets of any number of headers of any    *)
(* length, cut off anywhere, and any number of rounds.                     *)
(***************************************************************************)
EXTENDS QuotedV6, TLAPS

\* Each header begins where the one before it ends, so they lie in order.
LaidOut ==
    /\ starts[1] = 0
    /\ \A k \in 1 .. Len(chain) : starts[k + 1] = starts[k] + SizeOf(chain[k])
    /\ \A i, j \in 1 .. Len(starts) : i < j => starts[i] < starts[j]

\* The walk is at the beginning of the header after those it looked at, none of
\* which belonged to a later fragment.
Walked ==
    /\ rounds <= Len(chain)
    /\ offset = starts[rounds + 1]
    /\ next = TypeAfter(rounds)
    /\ \A k \in 1 .. rounds : ~chain[k].part

QInv ==
    /\ TypeOK
    /\ LaidOut
    /\ result = "sending" => offset = 0 /\ rounds = 0
    /\ result = "walking" => Walked
    /\ FindsMessage

-------------------------------------------------------------------------------

LEMMA HeaderFacts ==
    ASSUME NEW h \in Header, NEW w, w.length = h.length
    PROVE  /\ h.type \in Extension
           /\ h.length \in Nat
           /\ SizeOf(h) \in Nat /\ SizeOf(h) >= 2
           /\ Size(h.type, w) = SizeOf(h)
  <1>1. h.type \in Extension /\ h.length \in Nat
    <2>1. CASE h \in [type : {"options", "auth"}, length : 0 .. MaxLength, part : {FALSE}]
      BY <2>1, QuotedAssumption DEF Extension
    <2>2. CASE h \in [type : {"fragment"}, length : {0}, part : BOOLEAN]
      BY <2>2 DEF Extension
    <2> QED
      BY <2>1, <2>2 DEF Header
  <1>2. CASE h.type = "auth"
    BY <1>1, <1>2 DEF SizeOf, Size
  <1>3. CASE h.type = "options"
    BY <1>1, <1>3 DEF SizeOf, Size
  <1>4. CASE h.type = "fragment"
    BY <1>1, <1>4 DEF SizeOf, Size
  <1> QED
    BY <1>1, <1>2, <1>3, <1>4 DEF Extension

LEMMA HeaderSize == ASSUME NEW h \in Header PROVE SizeOf(h) \in Nat /\ SizeOf(h) >= 2
  BY HeaderFacts

\* At the beginning of a header the walk reads that header.
LEMMA WordFound ==
    ASSUME TypeOK, LaidOut, NEW k \in 1 .. Len(chain)
    PROVE  WordAt(starts[k]) =
             [next |-> TypeAfter(k), length |-> chain[k].length, part |-> chain[k].part]
  <1>1. ASSUME NEW j \in 1 .. Len(chain), starts[j] = starts[k] PROVE j = k
    <2>1. /\ Len(chain) \in Nat /\ Len(starts) = Len(chain) + 1
          /\ j \in 1 .. Len(starts) /\ k \in 1 .. Len(starts)
          /\ starts[j] \in Nat /\ starts[k] \in Nat
      BY DEF TypeOK
    <2>2. ~(j < k) /\ ~(k < j)
      BY <1>1, <2>1 DEF LaidOut
    <2> QED
      BY <2>1, <2>2
  <1>2. (CHOOSE j \in 1 .. Len(chain) : starts[j] = starts[k]) = k
    BY <1>1
  <1> QED
    BY <1>2 DEF WordAt

LEMMA TypesFound ==
    ASSUME TypeOK, NEW k \in 0 .. Len(chain)
    PROVE  /\ TypeAfter(k) \in Extension \cup Upper
           /\ TypeAfter(k) \in Extension <=> k < Len(chain)
           /\ TypeAfter(k) = "icmp6" <=> k = Len(chain) /\ upper = "icmp6"
  <1>1. CASE k = Len(chain)
    BY <1>1 DEF TypeOK, TypeAfter, Upper, Extension
  <1>2. CASE k # Len(chain)
    <2>1. k + 1 \in 1 .. Len(chain) /\ k < Len(chain) /\ chain[k + 1] \in Header
      BY <1>2 DEF TypeOK
    <2>2. chain[k + 1].type \in Extension
      BY <2>1 DEF Header, Extension
    <2> QED
      BY <1>2, <2>1, <2>2 DEF TypeAfter, Extension
  <1> QED
    BY <1>1, <1>2

\* Where a header begins is no further than the end.
LEMMA EndIsLast ==
    ASSUME TypeOK, LaidOut, NEW k \in 1 .. Len(starts)
    PROVE  /\ End \in Nat /\ starts[k] \in Nat
           /\ starts[k] <= End
  <1>1. /\ Len(starts) \in Nat /\ Len(starts) \in 1 .. Len(starts) /\ End = starts[Len(starts)]
        /\ starts[k] \in Nat /\ starts[Len(starts)] \in Nat
    BY DEF TypeOK, End
  <1> QED
    BY <1>1 DEF LaidOut

-------------------------------------------------------------------------------

LEMMA Starts == ASSUME Init PROVE QInv
  <1>1. Len(<<>>) = 0 /\ Len(<<0>>) = 1 /\ <<0>>[1] = 0 /\ <<>> \in Seq(Header) /\ <<0>> \in Seq(Nat)
    OBVIOUS
  <1>2. TypeOK
    BY <1>1, QuotedAssumption DEF Init, TypeOK, Upper
  <1> QED
    BY <1>1, <1>2 DEF Init, QInv, LaidOut, FindsMessage

LEMMA AddHeaderKeeps == ASSUME QInv, AddHeader PROVE QInv'
  <1> USE DEF QInv
  <1>1. PICK h \in Header : /\ chain' = Append(chain, h)
                            /\ starts' = Append(starts, End + SizeOf(h))
    BY DEF AddHeader
  <1>2. /\ SizeOf(h) \in Nat /\ SizeOf(h) >= 2
        /\ End \in Nat /\ \A k \in 1 .. Len(starts) : starts[k] \in Nat /\ starts[k] <= End
    BY HeaderSize, EndIsLast DEF TypeOK, End
  <1> DEFINE n == Len(chain)
  <1>3. /\ n \in Nat /\ Len(starts) = n + 1
        /\ Len(chain') = n + 1 /\ Len(starts') = n + 2
        /\ \A k \in 1 .. n : chain'[k] = chain[k]
        /\ chain'[n + 1] = h
        /\ \A k \in 1 .. n + 1 : starts'[k] = starts[k]
        /\ starts'[n + 2] = End + SizeOf(h)
        /\ End = starts[n + 1]
    BY <1>1, <1>2 DEF TypeOK, End
  <1>4. TypeOK'
    BY <1>1, <1>2, <1>3 DEF TypeOK, AddHeader
  <1>5. LaidOut'
    <2>1. starts'[1] = 0
      BY <1>3 DEF LaidOut
    <2>2. ASSUME NEW k \in 1 .. n + 1 PROVE starts'[k + 1] = starts'[k] + SizeOf(chain'[k])
      <3>1. CASE k = n + 1
        BY <1>2, <1>3, <3>1
      <3>2. CASE k # n + 1
        <4>1. k \in 1 .. n /\ k + 1 \in 1 .. n + 1 /\ k \in 1 .. n + 1
          BY <1>3, <3>2
        <4> QED
          BY <1>3, <4>1 DEF LaidOut
      <3> QED
        BY <3>1, <3>2
    <2>3. ASSUME NEW i \in 1 .. n + 2, NEW j \in 1 .. n + 2, i < j
          PROVE  starts'[i] < starts'[j]
      <3>1. i \in 1 .. n + 1 /\ starts'[i] = starts[i] /\ starts[i] \in Nat /\ starts[i] <= End
        BY <1>2, <1>3, <2>3
      <3>2. CASE j = n + 2
        BY <1>2, <1>3, <3>1, <3>2
      <3>3. CASE j # n + 2
        <4>1. j \in 1 .. n + 1
          BY <1>3, <3>3
        <4> QED
          BY <1>3, <2>3, <3>1, <4>1 DEF LaidOut
      <3> QED
        BY <3>2, <3>3
    <2>4. \A k \in 1 .. n + 1 : (SizeOf(chain[k]))' = SizeOf(chain'[k])
      BY DEF SizeOf
    <2> QED
      BY <1>3, <2>1, <2>2, <2>3, <2>4 DEF LaidOut
  <1>6. result' = "sending" /\ offset' = 0 /\ rounds' = 0
    BY DEF AddHeader
  <1> QED
    BY <1>4, <1>5, <1>6 DEF FindsMessage

LEMMA QuoteKeeps == ASSUME QInv, Quote PROVE QInv'
  <1> USE DEF QInv
  <1>1. /\ result = "sending" /\ result' = "walking" /\ offset' = 0 /\ rounds' = 0
        /\ chain' = chain /\ starts' = starts /\ upper' = upper
        /\ next' = TypeAfter(0) /\ available' \in 0 .. End + 2
    BY DEF Quote, packet
  <1>2. End \in Nat /\ Len(chain) \in Nat
    BY EndIsLast DEF TypeOK, End
  <1>3. TypeAfter(0) \in Extension \cup Upper
    BY <1>2, TypesFound
  <1>4. TypeOK'
    BY <1>1, <1>2, <1>3 DEF TypeOK
  <1>5. LaidOut'
    BY <1>1 DEF LaidOut
  <1>6. Walked'
    BY <1>1, <1>2 DEF Walked, LaidOut, TypeAfter
  <1> QED
    BY <1>1, <1>4, <1>5, <1>6 DEF FindsMessage

\* A round: it finds the message (<1>6), stops where there is none (<1>8), or goes on
\* to the next header (<1>9).
LEMMA LookKeeps == ASSUME QInv, Look PROVE QInv'
  <1> USE DEF QInv
  <1> DEFINE w == WordAt(offset)
             k == rounds + 1
  <1>1. /\ result = "walking" /\ rounds < Rounds /\ rounds' = rounds + 1
        /\ chain' = chain /\ starts' = starts /\ upper' = upper /\ available' = available
        /\ Walked
    BY DEF Look, packet
  <1>2. /\ Len(chain) \in Nat /\ rounds \in Nat /\ Rounds \in Nat /\ rounds \in 0 .. Len(chain)
        /\ available \in Nat /\ offset \in Nat
    BY <1>1, QuotedAssumption DEF TypeOK, Walked
  <1>3. /\ next \in Extension <=> rounds < Len(chain)
        /\ next = "icmp6" <=> rounds = Len(chain) /\ upper = "icmp6"
    BY <1>1, <1>2, TypesFound DEF Walked
  <1>4. LaidOut'
    BY <1>1 DEF LaidOut
  <1>5. rounds' \in 0 .. Rounds
    BY <1>1, <1>2
  <1>6. CASE next = "icmp6"
    <2>1. result' = "found" /\ next' = next /\ offset' = offset
      BY <1>6 DEF Look, Return
    <2>2. HasMessage /\ offset = End
      BY <1>1, <1>2, <1>3, <1>6 DEF HasMessage, Walked, End, TypeOK
    <2>3. TypeOK'
      BY <1>1, <1>5, <2>1 DEF TypeOK
    <2>4. FindsMessage'
      BY <1>1, <2>1, <2>2 DEF FindsMessage, HasMessage, End
    <2> QED
      BY <1>4, <2>1, <2>3, <2>4
  <1>7. ASSUME next \in Extension
        PROVE  /\ k \in 1 .. Len(chain) /\ chain[k] \in Header /\ next = chain[k].type
               /\ w = [next |-> TypeAfter(k), length |-> chain[k].length, part |-> chain[k].part]
               /\ Size(next, w) = SizeOf(chain[k]) /\ SizeOf(chain[k]) \in Nat /\ SizeOf(chain[k]) >= 2
               /\ starts[k + 1] = offset + Size(next, w)
               /\ starts[k + 1] <= End /\ End \in Nat /\ starts[k + 1] \in Nat
    <2>1. /\ k \in 1 .. Len(chain) /\ k + 1 \in 1 .. Len(starts)
          /\ chain[k] \in Header /\ next = chain[k].type /\ offset = starts[k]
      BY <1>1, <1>2, <1>3, <1>7 DEF Walked, TypeAfter, TypeOK
    <2>2. w = [next |-> TypeAfter(k), length |-> chain[k].length, part |-> chain[k].part]
      BY <2>1, WordFound
    <2>3. Size(next, w) = SizeOf(chain[k]) /\ SizeOf(chain[k]) \in Nat /\ SizeOf(chain[k]) >= 2
      <3>1. w.length = chain[k].length
        BY <2>2
      <3> QED
        BY <2>1, <3>1, HeaderFacts
    <2>4. starts[k + 1] = offset + Size(next, w)
      BY <2>1, <2>3 DEF LaidOut
    <2>5. starts[k + 1] <= End /\ End \in Nat /\ starts[k + 1] \in Nat
      BY <2>1, EndIsLast
    <2> QED
      BY <2>1, <2>2, <2>3, <2>4, <2>5
  <1>8. CASE next # "icmp6" /\ Stops(w)
    <2>1. result' = "none" /\ next' = next /\ offset' = offset
      BY <1>8 DEF Look, Return
    <2>2. ~HasMessage
      <3>1. CASE next \notin Extension
        BY <1>2, <1>3, <1>8, <3>1 DEF HasMessage
      <3>2. CASE next \in Extension /\ next = "fragment" /\ w.part
        BY <1>7, <3>2 DEF HasMessage
      <3>3. CASE next \in Extension /\ ~(next = "fragment" /\ w.part)
        <4>1. available - offset < 2 \/ ~(offset + Size(next, w) <= available)
          BY <1>8, <3>3 DEF Stops, Inside
        <4>2. available < starts[k + 1]
          BY <1>2, <1>7, <3>3, <4>1
        <4> QED
          BY <1>2, <1>7, <3>3, <4>2 DEF HasMessage
      <3> QED
        BY <3>1, <3>2, <3>3
    <2>3. TypeOK'
      BY <1>1, <1>5, <2>1 DEF TypeOK
    <2>4. FindsMessage'
      BY <1>1, <2>1, <2>2 DEF FindsMessage, HasMessage, End
    <2> QED
      BY <1>4, <2>1, <2>3, <2>4
  <1>9. CASE next # "icmp6" /\ ~Stops(w)
    <2>1. /\ result' = "walking" /\ next' = w.next /\ offset' = offset + Size(next, w)
      BY <1>1, <1>9 DEF Look
    <2>2. /\ next \in Extension /\ offset + Size(next, w) <= available
          /\ ~(next = "fragment" /\ w.part)
      BY <1>9 DEF Stops, Inside
    <2>3. /\ offset' = starts[k + 1] /\ offset' \in 0 .. available
          /\ next' = TypeAfter(k) /\ next' \in Extension \cup Upper
      BY <1>2, <1>7, <2>1, <2>2, TypesFound
    <2>4. ~chain[k].part
      <3>1. chain[k].type # "fragment" => chain[k].part = FALSE
        BY <1>7, <2>2 DEF Header
      <3> QED
        BY <1>7, <2>2, <3>1
    <2>5. TypeOK'
      BY <1>1, <1>5, <2>1, <2>3 DEF TypeOK
    <2>6. Walked'
      <3>1. \A j \in 1 .. rounds + 1 : ~chain[j].part
        BY <1>1, <1>2, <2>4 DEF Walked
      <3> QED
        BY <1>1, <1>2, <1>7, <2>2, <2>3, <3>1 DEF Walked, TypeAfter
    <2> QED
      BY <1>4, <2>1, <2>5, <2>6 DEF FindsMessage
  <1> QED
    BY <1>6, <1>8, <1>9

LEMMA GiveUpKeeps == ASSUME QInv, GiveUp PROVE QInv'
  <1> USE DEF QInv
  <1>1. /\ result = "walking" /\ rounds = Rounds /\ result' = "none"
        /\ chain' = chain /\ starts' = starts /\ upper' = upper /\ available' = available
        /\ next' = next /\ offset' = offset /\ rounds' = rounds
    BY DEF GiveUp, Return, packet
  <1>2. ~HasMessage
    BY <1>1, QuotedAssumption DEF HasMessage, Walked, TypeOK
  <1>3. TypeOK' /\ LaidOut'
    BY <1>1 DEF TypeOK, LaidOut
  <1>4. FindsMessage'
    BY <1>1, <1>2 DEF FindsMessage, HasMessage, End
  <1> QED
    BY <1>1, <1>3, <1>4

LEMMA StutterKeeps == ASSUME QInv, UNCHANGED vars PROVE QInv'
  BY DEF QInv, TypeOK, LaidOut, Walked, TypeAfter, FindsMessage, HasMessage, End, vars, packet

\* QInv holds in every reachable state.
THEOREM Inductive == Spec => []QInv
  <1>1. QInv /\ [Next]_vars => QInv'
    BY AddHeaderKeeps, QuoteKeeps, LookKeeps, GiveUpKeeps, StutterKeeps DEF Next
  <1> QED
    BY Starts, <1>1, PTL DEF Spec

\* The walk stays inside the packet.
THEOREM TypeCorrect == Spec => []TypeOK
  <1>1. QInv => TypeOK
    BY DEF QInv
  <1> QED
    BY <1>1, Inductive, PTL

\* The walk finds the quoted message exactly when it is there.
THEOREM FindsTheorem == Spec => []FindsMessage
  <1>1. QInv => FindsMessage
    BY DEF QInv
  <1> QED
    BY <1>1, Inductive, PTL
===============================================================================
