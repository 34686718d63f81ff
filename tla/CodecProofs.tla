------------------------------ MODULE CodecProofs ------------------------------
(***************************************************************************)
(* Theorems about EchoCodec and MacosHeader, for any width of a byte,      *)
(* payloads of any length and packets of any size: the target's answers    *)
(* are accepted, a damaged reply is not, the quotes of another payload are *)
(* not, and what Darwin does to an IPv4 header is undone.                  *)
(*                                                                         *)
(* An induction is an appeal to the least counterexample: a set of numbers *)
(* that is not empty has a least element (LeastElement).  So the sum of a  *)
(* message is shown to exist, to be a number, and to move by what a byte   *)
(* weighs when the byte is changed (SumOfDamaged); folding the carries     *)
(* keeps the remainder by Base * Base - 1 and ends in a word (FoldFacts).  *)
(* Two messages with one differing byte then have different checksums,     *)
(* since the difference is less than that divisor.                         *)
(***************************************************************************)
EXTENDS EchoCodec, MacosHeader, SequenceTheorems, WellFoundedInduction, TLAPS

-------------------------------------------------------------------------------
(* Induction, by the least counterexample.                                   *)

LEMMA LeastElement ==
    ASSUME NEW T \in SUBSET Nat, T # {}
    PROVE  \E n \in T : \A m \in T : n <= m
  <1>1. PICK n \in T : \A m \in T : <<m, n>> \notin OpToRel(<, Nat)
    BY NatLessThanWellFounded, WFMin
  <1>2. \A m \in T : ~(m < n)
    BY <1>1 DEF OpToRel
  <1> QED
    BY <1>2

\* A set with 0 and, up to n, the successors of its members has all up to n.
LEMMA UpTo ==
    ASSUME NEW n \in Nat, NEW T, 0 \in T, \A m \in 0 .. n - 1 : m \in T => m + 1 \in T
    PROVE  0 .. n \subseteq T
  <1> SUFFICES ASSUME NEW x \in 0 .. n, x \notin T PROVE FALSE
    OBVIOUS
  <1> DEFINE U == {m \in 0 .. n : m \notin T}
  <1>0. U \in SUBSET Nat /\ U # {}
    OBVIOUS
  <1>1. PICK m \in U : \A k \in U : m <= k
    <2> HIDE DEF U
    <2> QED
      BY <1>0, LeastElement
  <1>2. m - 1 \in 0 .. n - 1 /\ m - 1 \notin U /\ (m - 1) + 1 = m
    BY <1>1
  <1>3. m - 1 \in T
    BY <1>2
  <1>4. (m - 1) + 1 \in T
    BY <1>2, <1>3
  <1> QED
    BY <1>1, <1>2, <1>4

-------------------------------------------------------------------------------
(* The sum of a message's words.                                             *)

SumOf(f, x) ==
    f = [j \in 0 .. Words(x) |-> IF j = 0 THEN 0 ELSE f[j - 1] + WordOf(x, j)]

LEMMA WordsType ==
    ASSUME NEW x \in Seq(Nat)
    PROVE  /\ Words(x) \in Nat
           /\ \A j \in 1 .. Words(x) : WordOf(x, j) \in Nat
  <1> USE BytesAssumption
  <1>1. Words(x) \in Nat /\ 2 * Words(x) <= Len(x) + 1
    BY DEF Words
  <1>2. ASSUME NEW j \in 1 .. Words(x) PROVE WordOf(x, j) \in Nat
    <2>1. 2 * j - 1 \in 1 .. Len(x)
      BY <1>1
    <2>2. x[2 * j - 1] \in Nat /\ (2 * j <= Len(x) => x[2 * j] \in Nat)
      BY <2>1
    <2>3. x[2 * j - 1] * Base \in Nat
      BY <2>2
    <2> QED
      BY <2>2, <2>3 DEF WordOf
  <1> QED
    BY <1>1, <1>2

\* The recursion of Sum has a solution.
LEMMA SumExists == ASSUME NEW x \in Seq(Nat) PROVE \E f : SumOf(f, x)
  <1> DEFINE n == Words(x)
             Up(m, f) == f = [j \in 0 .. m |-> IF j = 0 THEN 0 ELSE f[j - 1] + WordOf(x, j)]
             T == {m \in 0 .. n : \E f : Up(m, f)}
  <1>0. n \in Nat
    BY WordsType
  <1>1. 0 \in T
    <2> DEFINE f == [j \in 0 .. 0 |-> 0]
    <2>1. Up(0, f)
      OBVIOUS
    <2>2. \E h : Up(0, h)
      BY <2>1, Zenon
    <2> HIDE DEF Up
    <2> QED
      BY <1>0, <2>2
  <1>2. ASSUME NEW m \in 0 .. n - 1, m \in T PROVE m + 1 \in T
    <2>1. PICK f : Up(m, f)
      BY <1>2, Zenon
    <2> DEFINE g == [j \in 0 .. m + 1 |-> IF j = m + 1 THEN f[m] + WordOf(x, m + 1) ELSE f[j]]
    <2>2. Up(m + 1, g)
      BY <1>0, <2>1
    <2>3. \E h : Up(m + 1, h)
      BY <2>2, Zenon
    <2> HIDE DEF Up
    <2> QED
      BY <1>0, <2>3
  <1>3. n \in T
    <2> HIDE DEF T
    <2>1. 0 .. n \subseteq T
      BY <1>0, <1>1, <1>2, UpTo
    <2> QED
      BY <1>0, <2>1
  <1> QED
    BY <1>3, Zenon DEF SumOf

\* The recursion of Sum, and that it stays in the natural numbers.
LEMMA SumType ==
    ASSUME NEW x \in Seq(Nat), NEW f, SumOf(f, x)
    PROVE  \A j \in 0 .. Words(x) : f[j] \in Nat
  <1> DEFINE n == Words(x)
             T == {m \in 0 .. n : f[m] \in Nat}
  <1>0. n \in Nat
    BY WordsType
  <1>1. 0 \in T
    BY <1>0 DEF SumOf
  <1>2. ASSUME NEW m \in 0 .. n - 1, m \in T PROVE m + 1 \in T
    <2>1. f[m + 1] = f[m] + WordOf(x, m + 1)
      BY <1>0 DEF SumOf
    <2>2. f[m] \in Nat /\ WordOf(x, m + 1) \in Nat
      BY <1>0, <1>2, WordsType
    <2> QED
      BY <1>0, <2>1, <2>2
  <1>3. 0 .. n \subseteq T
    <2> HIDE DEF T
    <2> QED
      BY <1>0, <1>1, <1>2, UpTo
  <1> QED
    BY <1>3

LEMMA SumIs ==
    ASSUME NEW x \in Seq(Nat)
    PROVE  \E f : SumOf(f, x) /\ Sum(x) = f[Words(x)]
  <1> DEFINE F == CHOOSE f : SumOf(f, x)
  <1>1. SumOf(F, x)
    BY SumExists, Zenon
  <1>2. Sum(x) = F[Words(x)]
    BY Zenon DEF Sum, SumOf
  <1> QED
    BY <1>1, <1>2, Zenon

LEMMA SumIsNatural == ASSUME NEW x \in Seq(Nat) PROVE Sum(x) \in Nat
  BY SumIs, SumType, WordsType

LEMMA Products == ASSUME NEW a \in Nat, NEW b \in Nat PROVE a * b \in Nat
  OBVIOUS

LEMMA Distributes ==
    ASSUME NEW a \in Int, NEW b \in Int, NEW c \in Int
    PROVE  (a - b) * c = a * c - b * c
  OBVIOUS

\* What a byte at this place is worth.
Weight(j) == IF j % 2 = 1 THEN Base ELSE 1

\* x and y are the same, but for the byte at k.
Differ(x, y, k) ==
    /\ Len(y) = Len(x) /\ k \in 1 .. Len(x)
    /\ \A i \in 1 .. Len(x) : i # k => y[i] = x[i]

\* A message that differs in one byte has a sum that differs by what the byte is worth.
LEMMA SumOfDamaged ==
    ASSUME NEW x \in Seq(Nat), NEW y \in Seq(Nat), NEW j, Differ(x, y, j)
    PROVE  Sum(y) = Sum(x) + (y[j] - x[j]) * Weight(j)
  <1>a. /\ Len(y) = Len(x) /\ j \in 1 .. Len(x)
        /\ \A i \in 1 .. Len(x) : i # j => y[i] = x[i]
    BY DEF Differ
  <1> USE BytesAssumption, <1>a
  <1> DEFINE n == Words(x)
  <1>1. PICK f : SumOf(f, x) /\ Sum(x) = f[n]
    BY SumIs
  <1>2. PICK g : SumOf(g, y) /\ Sum(y) = g[n]
    BY SumIs DEF Words
  <1>3. n \in Nat /\ Words(y) = n
    BY DEF Words
  <1>4. x[j] \in Nat /\ y[j] \in Nat /\ Weight(j) \in Nat
    BY DEF Weight
  <1>5. PICK d \in Int : d = (y[j] - x[j]) * Weight(j)
    BY <1>4
  <1>6. PICK w \in 1 .. n : w = (j + 1) \div 2
    <2>1. j \in Nat /\ Len(x) \in Nat /\ 1 <= j /\ j <= Len(x)
      OBVIOUS
    <2>2. (j + 1) \div 2 \in 1 .. (Len(x) + 1) \div 2
      BY <2>1
    <2> QED
      BY <2>2 DEF Words
  <1>7. \A i \in 1 .. Len(x) : x[i] \in Nat /\ y[i] \in Nat
    OBVIOUS
  <1>8. ASSUME NEW k \in 1 .. n
        PROVE  WordOf(y, k) = WordOf(x, k) + IF k = w THEN d ELSE 0
    <2>1. k \in Nat /\ k >= 1 /\ j \in Nat /\ Len(x) \in Nat /\ j <= Len(x)
      BY <1>3, <1>8
    <2>2. PICK i \in 1 .. Len(x) : i = 2 * k - 1
      BY <1>8, <2>1 DEF Words
    <2>3. PICK p \in Nat : p = x[i] * Base
      BY <1>7, Products
    <2>4. PICK q \in Nat : q = y[i] * Base
      BY <1>7, Products
    <2> DEFINE second(z) == IF 2 * k <= Len(x) THEN z[2 * k] ELSE 0
    <2>5. second(x) \in Nat /\ second(y) \in Nat
      <3>1. CASE 2 * k <= Len(x)
        <4>1. 2 * k \in 1 .. Len(x)
          BY <2>1, <3>1
        <4>2. x[2 * k] \in Nat /\ y[2 * k] \in Nat
          BY <1>7, <4>1
        <4> QED
          BY <3>1, <4>2
      <3>2. CASE ~(2 * k <= Len(x))
        BY <3>2
      <3> QED
        BY <3>1, <3>2
    <2>6. PICK t \in Nat, u \in Nat : t = second(x) /\ u = second(y)
      BY <2>5, Zenon
    <2>7. WordOf(x, k) = p + t
      BY <2>2, <2>3, <2>6 DEF WordOf
    <2>8. WordOf(y, k) = q + u
      BY <2>2, <2>4, <2>6 DEF WordOf
    <2>9. CASE j = 2 * k - 1
      <3>1. j % 2 = 1 /\ w = k
        BY <1>6, <2>1, <2>9
      <3>2. p = x[j] * Base /\ q = y[j] * Base
        BY <2>2, <2>3, <2>4, <2>9
      <3>3. (y[j] - x[j]) * Base = y[j] * Base - x[j] * Base
        BY <1>4, Distributes
      <3>4. d = q - p
        BY <1>5, <3>1, <3>2, <3>3 DEF Weight
      <3>5. t = u
        BY <2>1, <2>6, <2>9
      <3> QED
        BY <2>7, <2>8, <3>1, <3>4, <3>5
    <2>10. CASE j = 2 * k
      <3>1. j % 2 = 0 /\ w = k
        BY <1>6, <2>1, <2>10
      <3>2. d = y[j] - x[j]
        BY <1>4, <1>5, <3>1 DEF Weight
      <3>3. p = q
        <4>1. i # j
          BY <2>1, <2>2, <2>10
        <4> QED
          BY <2>3, <2>4, <4>1
      <3>4. d = u - t
        BY <2>1, <2>6, <2>10, <3>2
      <3> QED
        BY <2>7, <2>8, <3>1, <3>3, <3>4
    <2>11. CASE j # 2 * k - 1 /\ j # 2 * k
      <3>1. k # w
        BY <1>6, <2>1, <2>11
      <3>2. p = q
        BY <2>2, <2>3, <2>4, <2>11
      <3>3. t = u
        BY <2>1, <2>6, <2>11
      <3> QED
        BY <2>7, <2>8, <3>1, <3>2, <3>3
    <2> QED
      BY <2>9, <2>10, <2>11
  <1> DEFINE T == {m \in 0 .. n : g[m] = f[m] + IF w <= m THEN d ELSE 0}
  <1>9. 0 \in T
    BY <1>1, <1>2, <1>3 DEF SumOf
  <1>10. ASSUME NEW m \in 0 .. n - 1, m \in T PROVE m + 1 \in T
    <2>1. /\ f[m + 1] = f[m] + WordOf(x, m + 1)
          /\ g[m + 1] = g[m] + WordOf(y, m + 1)
      BY <1>1, <1>2, <1>3 DEF SumOf
    <2>2. PICK a \in Nat, b \in Nat, c \in Nat, e \in Nat :
              a = f[m] /\ b = g[m] /\ c = WordOf(x, m + 1) /\ e = WordOf(y, m + 1)
      <3>1. m \in 0 .. n /\ m + 1 \in 1 .. n
        BY <1>3
      <3>2. f[m] \in Nat /\ g[m] \in Nat
        BY <1>1, <1>2, <1>3, <3>1, SumType
      <3>3. WordOf(x, m + 1) \in Nat /\ WordOf(y, m + 1) \in Nat
        BY <1>3, <3>1, WordsType
      <3> QED
        BY <3>2, <3>3, Zenon
    <2>3. e = c + IF m + 1 = w THEN d ELSE 0
      <3>1. m + 1 \in 1 .. n
        BY <1>3
      <3> QED
        BY <1>8, <2>2, <3>1, Zenon
    <2>4. b = a + IF w <= m THEN d ELSE 0
      BY <1>10, <2>2
    <2>5. b + e = (a + c) + IF w <= m + 1 THEN d ELSE 0
      BY <1>3, <2>3, <2>4
    <2> QED
      BY <1>3, <2>1, <2>2, <2>5
  <1>11. n \in T
    <2> HIDE DEF T, n
    <2>1. 0 .. n \subseteq T
      BY <1>3, <1>9, <1>10, UpTo
    <2> QED
      BY <1>3, <2>1
  <1> QED
    BY <1>1, <1>2, <1>5, <1>6, <1>11

-------------------------------------------------------------------------------
(* Folding the carries.                                                      *)

Modulus == Base * Base - 1

Carry(x) == (x % (Base * Base)) + (x \div (Base * Base))

LEMMA Division ==
    ASSUME NEW b \in Nat \ {0}, NEW x \in Nat,
           NEW q \in Nat, NEW r \in Nat, q = x \div b, r = x % b
    PROVE  x = q * b + r
  BY Z3

LEMMA DivisionOf ==
    ASSUME NEW b \in Nat \ {0}, NEW x \in Nat
    PROVE  \E q \in Nat, r \in 0 .. b - 1 : x \div b = q /\ x % b = r /\ q * b + r = x
  <1>1. PICK q \in Nat : q = x \div b
    OBVIOUS
  <1>2. PICK r \in 0 .. b - 1 : r = x % b
    OBVIOUS
  <1>3. x = q * b + r
    BY <1>1, <1>2, Division
  <1> QED
    BY <1>1, <1>2, <1>3

LEMMA DivisionIsUnique ==
    ASSUME NEW b \in Nat \ {0}, NEW q \in Nat, NEW r \in 0 .. b - 1
    PROVE  (q * b + r) \div b = q /\ (q * b + r) % b = r
  OBVIOUS

LEMMA ModulusType ==
    Modulus \in Nat /\ Modulus >= 3 /\ Base < Modulus /\ Base * Base = Modulus + 1
  <1>1. Base \in Nat /\ Base >= 2
    BY BytesAssumption
  <1>2. Base * Base >= 2 * Base /\ Base * Base \in Nat
    BY <1>1
  <1> QED
    BY <1>1, <1>2 DEF Modulus

\* A word of a message fits a word, and so the sum of its words is bounded.
LEMMA SumBound ==
    ASSUME NEW x \in Seq(Byte)
    PROVE  Sum(x) \in Nat /\ Sum(x) <= Words(x) * Modulus
  <1> USE BytesAssumption
  <1> DEFINE n == Words(x)
  <1>1. x \in Seq(Nat)
    BY DEF Byte
  <1>2. n \in Nat /\ 2 * n <= Len(x) + 1 /\ Modulus \in Nat
    BY <1>1, WordsType, ModulusType DEF Words
  <1>3. ASSUME NEW j \in 1 .. n PROVE WordOf(x, j) \in Nat /\ WordOf(x, j) <= Modulus
    <2>1. 2 * j - 1 \in 1 .. Len(x)
      BY <1>2
    <2>2. PICK a \in Byte : a = x[2 * j - 1]
      BY <2>1
    <2>3. PICK b \in Byte : b = IF 2 * j <= Len(x) THEN x[2 * j] ELSE 0
      BY <2>1 DEF Byte
    <2>4. WordOf(x, j) = a * Base + b
      BY <2>2, <2>3 DEF WordOf
    <2>5. a \in Nat /\ b \in Nat /\ a <= Base - 1 /\ b <= Base - 1
      BY DEF Byte
    <2>6. a * Base <= (Base - 1) * Base /\ a * Base \in Nat
      BY <2>5
    <2> QED
      BY <2>4, <2>5, <2>6 DEF Modulus
  <1>4. PICK f : SumOf(f, x) /\ Sum(x) = f[n]
    BY <1>1, SumIs
  <1>5. \A j \in 0 .. n : f[j] \in Nat
    BY <1>1, <1>4, SumType
  <1> DEFINE T == {m \in 0 .. n : f[m] <= m * Modulus}
  <1>6. 0 \in T
    BY <1>2, <1>4 DEF SumOf
  <1>7. ASSUME NEW m \in 0 .. n - 1, m \in T PROVE m + 1 \in T
    <2>1. f[m + 1] = f[m] + WordOf(x, m + 1)
      BY <1>2, <1>4 DEF SumOf
    <2>2. m + 1 \in 1 .. n /\ m \in 0 .. n
      BY <1>2
    <2>3. PICK w \in Nat : w = WordOf(x, m + 1) /\ w <= Modulus
      BY <1>3, <2>2
    <2>4. PICK p \in Nat : p = m * Modulus /\ p + Modulus = (m + 1) * Modulus
      BY <1>2
    <2>5. f[m] \in Nat /\ f[m] <= p
      BY <1>5, <1>7, <2>2, <2>4
    <2> QED
      BY <1>2, <2>1, <2>2, <2>3, <2>4, <2>5
  <1>8. 0 .. n \subseteq T
    <2> HIDE DEF T
    <2> QED
      BY <1>2, <1>6, <1>7, UpTo
  <1> QED
    BY <1>2, <1>4, <1>5, <1>8

\* Adding the carries makes the number smaller and keeps it, modulo Modulus.
LEMMA CarryFacts ==
    ASSUME NEW x \in Nat, x >= Base * Base
    PROVE  /\ Carry(x) \in 1 .. x - 1
           /\ \E q \in Nat : x = Carry(x) + q * Modulus
  <1> DEFINE b == Modulus + 1
  <1>1. b \in Nat \ {0} /\ b = Base * Base
    BY ModulusType
  <1>2. PICK q \in Nat, r \in 0 .. b - 1 : x \div b = q /\ x % b = r /\ q * b + r = x
    <2> HIDE DEF b
    <2> QED
      BY <1>1, DivisionOf
  <1>3. Carry(x) = r + q
    BY <1>1, <1>2 DEF Carry
  <1>4. q * b = q * Modulus + q
    BY ModulusType
  <1>5. x = Carry(x) + q * Modulus
    <2>1. PICK p \in Nat : p = q * Modulus
      BY ModulusType
    <2> QED
      BY <1>1, <1>2, <1>3, <1>4, <2>1
  <1>6. q # 0
    BY <1>1, <1>2
  <1>7. q * Modulus >= 1
    BY <1>6, ModulusType
  <1>8. Carry(x) \in 1 .. x - 1
    <2>1. PICK p \in Nat : p = q * Modulus
      BY ModulusType
    <2>2. r \in Nat
      BY <1>1
    <2> QED
      BY <1>3, <1>5, <1>6, <1>7, <2>1, <2>2
  <1> QED
    BY <1>5, <1>8

FoldOf(f, s) == f = [x \in 0 .. s |-> IF x < Base * Base THEN x ELSE f[Carry(x)]]

\* The recursion of Folded has a solution.
LEMMA FoldExists == ASSUME NEW s \in Nat PROVE \E f : FoldOf(f, s)
  <1> DEFINE T == {m \in 0 .. s : \E f : FoldOf(f, m)}
  <1>1. 0 \in T
    <2> DEFINE f == [x \in 0 .. 0 |-> 0]
    <2>1. FoldOf(f, 0)
      BY ModulusType DEF FoldOf
    <2>2. \E h : FoldOf(h, 0)
      BY <2>1, Zenon
    <2> QED
      BY <2>2
  <1>2. ASSUME NEW m \in 0 .. s - 1, m \in T PROVE m + 1 \in T
    <2>1. PICK f : FoldOf(f, m)
      BY <1>2, Zenon
    <2> DEFINE top == IF m + 1 < Base * Base THEN m + 1 ELSE f[Carry(m + 1)]
               g == [x \in 0 .. m + 1 |-> IF x = m + 1 THEN top ELSE f[x]]
    <2>2. ASSUME NEW x \in 0 .. m + 1, ~(x < Base * Base)
          PROVE  g[Carry(x)] = f[Carry(x)]
      <3>1. x \in Nat /\ x >= Base * Base
        BY <2>2, ModulusType
      <3>2. Carry(x) \in 1 .. x - 1
        BY <3>1, CarryFacts
      <3> QED
        BY <3>2
    <2>3. ASSUME NEW x \in 0 .. m + 1
          PROVE  g[x] = IF x < Base * Base THEN x ELSE g[Carry(x)]
      <3>1. CASE x = m + 1
        BY <2>2, <3>1
      <3>2. CASE x # m + 1
        <4>1. x \in 0 .. m
          BY <3>2
        <4>2. g[x] = f[x]
          BY <3>2
        <4>3. f[x] = IF x < Base * Base THEN x ELSE f[Carry(x)]
          BY <2>1, <4>1 DEF FoldOf
        <4> HIDE DEF g
        <4> QED
          BY <2>2, <4>2, <4>3
      <3> QED
        BY <3>1, <3>2
    <2>4. g = [x \in 0 .. m + 1 |-> g[x]]
      OBVIOUS
    <2>5. FoldOf(g, m + 1)
      <3> HIDE DEF g
      <3> QED
        BY <2>3, <2>4 DEF FoldOf
    <2>6. \E h : FoldOf(h, m + 1)
      BY <2>5, Zenon
    <2> QED
      BY <2>6
  <1> HIDE DEF T
  <1>3. 0 .. s \subseteq T
    BY <1>1, <1>2, UpTo
  <1>4. s \in T
    BY <1>3
  <1> QED
    BY <1>4 DEF T

\* A number and what its carries fold into: a word, that is 0 for 0 alone, and
\* the same number modulo Modulus.
FoldsInto(s, w) ==
    w \in Word /\ (w = 0 <=> s = 0) /\ \E k \in Nat : s = w + k * Modulus

LEMMA FoldFacts ==
    ASSUME NEW s \in Nat, NEW f, FoldOf(f, s)
    PROVE  \A x \in 0 .. s : FoldsInto(x, f[x])
  <1> DEFINE U == {x \in 0 .. s : ~FoldsInto(x, f[x])}
  <1> SUFFICES ASSUME U # {} PROVE FALSE
    OBVIOUS
  <1>1. PICK x \in U : \A y \in U : x <= y
    <2>1. U \in SUBSET Nat
      OBVIOUS
    <2> HIDE DEF U
    <2> QED
      BY <2>1, LeastElement
  <1>2. x \in Nat /\ x \in 0 .. s /\ ~FoldsInto(x, f[x])
    BY <1>1
  <1>3. f[x] = IF x < Base * Base THEN x ELSE f[Carry(x)]
    BY <1>2 DEF FoldOf
  <1>4. CASE x < Base * Base
    <2>1. f[x] = x /\ x \in Word
      BY <1>2, <1>3, <1>4, ModulusType DEF Word
    <2>2. x = x + 0 * Modulus
      BY <1>2, ModulusType
    <2> QED
      BY <1>2, <2>1, <2>2 DEF FoldsInto
  <1>5. CASE ~(x < Base * Base)
    <2>1. x >= Base * Base
      BY <1>2, <1>5, ModulusType
    <2>2. PICK y \in 1 .. x - 1, q \in Nat : y = Carry(x) /\ x = y + q * Modulus
      BY <1>2, <2>1, CarryFacts
    <2>3. FoldsInto(y, f[y])
      BY <1>1, <1>2, <2>2
    <2>4. PICK k \in Nat : y = f[y] + k * Modulus
      BY <2>3 DEF FoldsInto
    <2>5. f[y] \in Nat
      BY <2>3, ModulusType DEF FoldsInto, Word
    <2>6. x = f[y] + (k + q) * Modulus
      <3>1. (k + q) * Modulus = k * Modulus + q * Modulus
        BY ModulusType
      <3>2. PICK a \in Nat, b \in Nat : a = k * Modulus /\ b = q * Modulus
        BY ModulusType
      <3> QED
        BY <2>2, <2>4, <2>5, <3>1, <3>2
    <2>7. f[x] = f[y] /\ y # 0 /\ x # 0 /\ k + q \in Nat
      BY <1>2, <1>3, <1>5, <2>2
    <2> QED
      BY <1>2, <2>3, <2>6, <2>7 DEF FoldsInto
  <1> QED
    BY <1>4, <1>5

LEMMA FoldedFacts == ASSUME NEW s \in Nat PROVE FoldsInto(s, Folded(s))
  <1> DEFINE F == CHOOSE f : FoldOf(f, s)
  <1>1. FoldOf(F, s)
    BY FoldExists, Zenon
  <1>2. Folded(s) = F[s]
    BY Zenon DEF Folded, FoldOf, Carry
  <1>3. s \in 0 .. s
    OBVIOUS
  <1> HIDE DEF F
  <1> QED
    BY <1>1, <1>2, <1>3, FoldFacts

-------------------------------------------------------------------------------
(* Checksums.                                                                *)

\* Between two multiples of Modulus there is no third.
LEMMA NoMultiple ==
    ASSUME NEW M \in Nat, NEW e \in Int, e * M < M, -M < e * M
    PROVE  e = 0
  <1>1. CASE e >= 1
    <2>1. PICK d \in Nat : e = d + 1
      BY <1>1
    <2>2. e * M = d * M + M /\ d * M \in Nat
      BY <2>1
    <2> QED
      BY <2>2
  <1>2. CASE e <= -1
    <2>1. PICK d \in Nat : e = -d - 1
      BY <1>2
    <2>2. e * M = -(d * M) - M /\ d * M \in Nat
      BY <2>1
    <2> QED
      BY <2>2
  <1> QED
    BY <1>1, <1>2

LEMMA FoldedType ==
    ASSUME NEW s \in Nat
    PROVE  Folded(s) \in 0 .. Modulus /\ (Folded(s) = 0 <=> s = 0)
  <1>1. Word = 0 .. Modulus
    BY DEF Word, Modulus
  <1> QED
    BY <1>1, FoldedFacts DEF FoldsInto

LEMMA FoldsDiffer ==
    ASSUME NEW s \in Nat, NEW t \in Nat, s # t, s - t < Modulus, t - s < Modulus
    PROVE  Folded(s) # Folded(t)
  <1> SUFFICES ASSUME Folded(s) = Folded(t) PROVE FALSE
    OBVIOUS
  <1>1. PICK w \in Nat : w = Folded(s) /\ w = Folded(t)
    BY FoldedFacts, ModulusType DEF FoldsInto, Word
  <1>2. PICK k \in Nat : s = w + k * Modulus
    BY <1>1, FoldedFacts DEF FoldsInto
  <1>3. PICK l \in Nat : t = w + l * Modulus
    BY <1>1, FoldedFacts DEF FoldsInto
  <1>4. (k - l) * Modulus = k * Modulus - l * Modulus
    BY ModulusType, Distributes
  <1>5. PICK a \in Nat, b \in Nat : a = k * Modulus /\ b = l * Modulus
    BY ModulusType, Products, Zenon
  <1>6. s - t = (k - l) * Modulus
    BY <1>2, <1>3, <1>4, <1>5
  <1>7. (k - l) * Modulus < Modulus /\ -Modulus < (k - l) * Modulus
    BY <1>6, ModulusType
  <1>8. k - l = 0
    BY <1>7, ModulusType, NoMultiple
  <1>9. k = l
    BY <1>8
  <1> QED
    BY <1>2, <1>3, <1>9

LEMMA ChecksumType ==
    ASSUME NEW x \in Seq(Nat)
    PROVE  /\ Checksum(x) \in Word
           /\ Checksum(x) = Modulus - Folded(Sum(x)) /\ Folded(Sum(x)) \in 0 .. Modulus
  <1>1. PICK w \in Nat : w = Folded(Sum(x)) /\ w <= Modulus
    BY SumIsNatural, FoldedType, ModulusType
  <1>2. Checksum(x) = Modulus - w
    BY <1>1 DEF Checksum, Modulus
  <1> QED
    BY <1>1, <1>2, ModulusType DEF Word

\* A message verifies when its sum is a multiple of Modulus, and not nothing.
LEMMA Verifying ==
    ASSUME NEW x \in Seq(Nat), NEW k \in Nat \ {0}, Sum(x) = k * Modulus
    PROVE  Checksum(x) = 0
  <1>1. Sum(x) \in Nat /\ Sum(x) # 0
    <2>1. k * Modulus # 0
      BY ModulusType
    <2> QED
      BY <2>1, SumIsNatural
  <1>2. PICK w \in 1 .. Modulus : w = Folded(Sum(x))
    BY <1>1, FoldedType, ModulusType
  <1>3. PICK l \in Nat : Sum(x) = w + l * Modulus
    BY <1>1, <1>2, FoldedFacts DEF FoldsInto
  <1>4. ((k - l) - 1) * Modulus = (k * Modulus - l * Modulus) - 1 * Modulus
    BY ModulusType, Distributes
  <1>5. PICK a \in Nat, b \in Nat : a = k * Modulus /\ b = l * Modulus
    BY ModulusType, Products, Zenon
  <1>6. ((k - l) - 1) * Modulus = w - Modulus
    BY <1>2, <1>3, <1>4, <1>5, ModulusType
  <1>7. CASE w < Modulus
    <2>1. (k - l) - 1 = 0
      BY <1>2, <1>6, ModulusType, NoMultiple
    <2>2. ((k - l) - 1) * Modulus = 0
      BY <2>1, ModulusType
    <2> QED
      BY <1>2, <1>6, <1>7, <2>2, ModulusType
  <1>8. CASE w = Modulus
    BY <1>2, <1>8, ChecksumType, ModulusType
  <1> QED
    BY <1>2, <1>7, <1>8, ModulusType

LEMMA Differences ==
    ASSUME NEW n \in Nat, NEW a \in 0 .. n - 1, NEW b \in 0 .. n - 1, a # b
    PROVE  b - a \in Int /\ b - a # 0 /\ -n < b - a /\ b - a < n
  OBVIOUS

LEMMA ChecksumsDiffer ==
    ASSUME NEW x \in Seq(Nat), NEW y \in Seq(Nat), Sum(x) # Sum(y),
           Sum(x) - Sum(y) < Modulus, Sum(y) - Sum(x) < Modulus
    PROVE  Checksum(x) # Checksum(y)
  <1>1. PICK a \in Nat, b \in Nat : a = Folded(Sum(x)) /\ b = Folded(Sum(y))
    BY ChecksumType, ModulusType
  <1>2. a # b
    BY <1>1, SumIsNatural, FoldsDiffer
  <1>3. Checksum(x) = Modulus - a /\ Checksum(y) = Modulus - b
    BY <1>1, ChecksumType
  <1> QED
    BY <1>1, <1>2, <1>3, ModulusType

LEMMA Scaled ==
    ASSUME NEW b \in Nat, NEW d \in Int, d < b, -b < d
    PROVE  d * b <= (b - 1) * b /\ -((b - 1) * b) <= d * b
  <1>1. /\ (b - 1 - d) * b = (b - 1) * b - d * b
        /\ (b - 1 - (-d)) * b = (b - 1) * b - (-d) * b
    BY Distributes
  <1>2. (-d) * b = -(d * b)
    OBVIOUS
  <1>3. (b - 1 - d) * b \in Nat /\ (b - 1 - (-d)) * b \in Nat
    BY Products
  <1>4. PICK p \in Int, q \in Int : p = d * b /\ q = (b - 1) * b
    OBVIOUS
  <1> QED
    BY <1>1, <1>2, <1>3, <1>4

\* A change of one byte changes the sum, and by less than Modulus.
LEMMA DamageOfSum ==
    ASSUME NEW x \in Seq(Nat), NEW y \in Seq(Nat), NEW j, Differ(x, y, j),
           x[j] \in Byte, y[j] \in Byte, x[j] # y[j]
    PROVE  Checksum(x) # Checksum(y)
  <1> USE BytesAssumption
  <1>1. PICK s \in Nat, t \in Nat : s = Sum(x) /\ t = Sum(y)
    BY SumIsNatural, Zenon
  <1>2. PICK d \in Int : d = y[j] - x[j] /\ d # 0 /\ -Base < d /\ d < Base
    <2>1. x[j] \in 0 .. Base - 1 /\ y[j] \in 0 .. Base - 1 /\ Base \in Nat
      BY DEF Byte
    <2> QED
      BY <2>1, Differences, Zenon
  <1>3. t = s + d * Weight(j)
    BY <1>1, <1>2, SumOfDamaged
  <1>4. CASE j % 2 = 1
    <2>1. t = s + d * Base
      BY <1>3, <1>4 DEF Weight
    <2>2. d * Base # 0
      BY <1>2
    <2>3. d * Base <= (Base - 1) * Base /\ -((Base - 1) * Base) <= d * Base
      BY <1>2, Scaled
    <2>4. (Base - 1) * Base < Modulus
      <3>1. (Base - 1) * Base = Base * Base - 1 * Base
        BY Distributes
      <3> QED
        BY <3>1, ModulusType
    <2>5. PICK p \in Int, q \in Int : p = d * Base /\ q = (Base - 1) * Base
      OBVIOUS
    <2>6. PICK M \in Nat : M = Modulus
      BY ModulusType
    <2>7. p # 0 /\ p <= q /\ -q <= p /\ q < M /\ t = s + p
      BY <2>1, <2>2, <2>3, <2>4, <2>5, <2>6
    <2>8. s # t /\ s - t < M /\ t - s < M
      BY <2>7
    <2> QED
      BY <1>1, <2>6, <2>8, ChecksumsDiffer
  <1>5. CASE j % 2 # 1
    <2>1. t = s + d
      BY <1>2, <1>3, <1>5 DEF Weight
    <2>2. PICK M \in Nat : M = Modulus /\ Base \in Nat /\ Base < M
      BY ModulusType
    <2>3. d # 0 /\ -M < d /\ d < M
      BY <1>2, <2>2
    <2>4. s # t /\ s - t < M /\ t - s < M
      BY <2>1, <2>2, <2>3
    <2> QED
      BY <1>1, <2>2, <2>4, ChecksumsDiffer
  <1> QED
    BY <1>4, <1>5

-------------------------------------------------------------------------------
(* What a checksum covers.                                                   *)

Covered(source, target, m) ==
    IF v6 THEN PseudoHeader(source, target, Len(m)) \o m ELSE m

\* The place there of a message's byte at j.
At(j) == IF v6 THEN 12 + j ELSE j

LEMMA Joined ==
    ASSUME NEW x \in Seq(Nat), NEW y \in Seq(Nat)
    PROVE  /\ x \o y \in Seq(Nat) /\ Len(x \o y) = Len(x) + Len(y)
           /\ \A i \in 1 .. Len(x) : (x \o y)[i] = x[i]
           /\ \A i \in 1 .. Len(y) : (x \o y)[Len(x) + i] = y[i]
  OBVIOUS

LEMMA PseudoHeaderType ==
    ASSUME NEW source \in Nat, NEW target \in Nat, NEW n \in Nat
    PROVE  PseudoHeader(source, target, n) \in Seq(Nat)
           /\ Len(PseudoHeader(source, target, n)) = 12
  <1>1. ASSUME NEW a \in Nat PROVE Big(a) \in Seq(Nat) /\ Len(Big(a)) = 2
    <2>1. a \div Base \in Nat /\ a % Base \in Nat
      BY BytesAssumption
    <2> QED
      BY <2>1 DEF Big
  <1>2. /\ Big(source) \in Seq(Nat) /\ Len(Big(source)) = 2
        /\ Big(target) \in Seq(Nat) /\ Len(Big(target)) = 2
        /\ Big(n) \in Seq(Nat) /\ Len(Big(n)) = 2
    BY <1>1, Zenon
  <1>3. <<0, 0>> \in Seq(Nat) /\ Len(<<0, 0>>) = 2
    OBVIOUS
  <1>4. Big(source) \o Big(target) \in Seq(Nat) /\ Len(Big(source) \o Big(target)) = 4
    <2>1. /\ Big(source) \o Big(target) \in Seq(Nat)
          /\ Len(Big(source) \o Big(target)) = Len(Big(source)) + Len(Big(target))
      BY <1>2, Joined, Zenon
    <2> QED
      BY <1>2, <2>1
  <1>5. /\ Big(source) \o Big(target) \o <<0, 0>> \in Seq(Nat)
        /\ Len(Big(source) \o Big(target) \o <<0, 0>>) = 6
    BY <1>3, <1>4, Joined
  <1>a. /\ Big(source) \o Big(target) \o <<0, 0>> \o Big(n) \in Seq(Nat)
        /\ Len(Big(source) \o Big(target) \o <<0, 0>> \o Big(n)) = 8
    BY <1>2, <1>5, Joined
  <1>6. 58 % Base \in Nat
    BY BytesAssumption
  <1>7. <<0, 0, 0, 58 % Base>> \in Seq(Nat) /\ Len(<<0, 0, 0, 58 % Base>>) = 4
    BY <1>6
  <1> QED
    BY <1>a, <1>7, Joined DEF PseudoHeader

\* x and y differ at k, as m and n do at j.
Places(x, y, k, m, n, j) ==
    Differ(x, y, k) /\ Weight(k) = Weight(j) /\ x[k] = m[j] /\ y[k] = n[j]

\* A byte is worth the same behind a header of whole words.
LEMMA DamagedBehind ==
    ASSUME NEW h \in Seq(Nat), Len(h) = 12,
           NEW m \in Seq(Nat), NEW n \in Seq(Nat), NEW j, Differ(m, n, j)
    PROVE  Places(h \o m, h \o n, 12 + j, m, n, j)
  <1>0. PICK c \in Nat : c = Len(h) /\ c = 12 /\ c % 2 = 0
    OBVIOUS
  <1>1. /\ Len(n) = Len(m) /\ j \in 1 .. Len(m)
        /\ \A i \in 1 .. Len(m) : i # j => n[i] = m[i]
    BY DEF Differ
  <1>2. PICK e \in Nat : e = Len(m)
    OBVIOUS
  <1>3. /\ h \o m \in Seq(Nat) /\ Len(h \o m) = c + e
        /\ \A i \in 1 .. c : (h \o m)[i] = h[i]
        /\ \A i \in 1 .. e : (h \o m)[c + i] = m[i]
    <2>1. /\ h \o m \in Seq(Nat) /\ Len(h \o m) = Len(h) + Len(m)
          /\ \A i \in 1 .. Len(h) : (h \o m)[i] = h[i]
          /\ \A i \in 1 .. Len(m) : (h \o m)[Len(h) + i] = m[i]
      BY Joined, Zenon
    <2> QED
      BY <1>0, <1>2, <2>1, Zenon
  <1>4. /\ h \o n \in Seq(Nat) /\ Len(h \o n) = c + e
        /\ \A i \in 1 .. c : (h \o n)[i] = h[i]
        /\ \A i \in 1 .. e : (h \o n)[c + i] = n[i]
    <2>1. Len(n) = e
      BY <1>1, <1>2
    <2>2. /\ h \o n \in Seq(Nat) /\ Len(h \o n) = Len(h) + Len(n)
          /\ \A i \in 1 .. Len(h) : (h \o n)[i] = h[i]
          /\ \A i \in 1 .. Len(n) : (h \o n)[Len(h) + i] = n[i]
      BY Joined, Zenon
    <2> QED
      BY <1>0, <2>1, <2>2, Zenon
  <1>5. Weight(c + j) = Weight(j)
    <2>1. j \in Nat
      BY <1>1
    <2>2. (c + j) % 2 = j % 2
      BY <1>0, <2>1
    <2> QED
      BY <2>2 DEF Weight
  <1>6. (h \o m)[c + j] = m[j] /\ (h \o n)[c + j] = n[j] /\ c + j \in 1 .. c + e
    <2>1. j \in 1 .. e
      BY <1>1, <1>2
    <2>2. c + j \in 1 .. c + e
      BY <2>1
    <2> QED
      BY <1>3, <1>4, <2>1, <2>2, Zenon
  <1>7. ASSUME NEW i \in 1 .. c + e, i # c + j PROVE (h \o n)[i] = (h \o m)[i]
    <2>1. CASE i <= c
      <3>1. i \in 1 .. c
        BY <2>1
      <3> QED
        BY <1>3, <1>4, <3>1
    <2>2. CASE ~(i <= c)
      <3>1. PICK l \in 1 .. e : i = c + l
        <4>1. i - c \in 1 .. e /\ i = c + (i - c)
          BY <2>2
        <4> QED
          BY <4>1, Zenon
      <3>2. l # j
        BY <1>7, <3>1
      <3>3. n[l] = m[l]
        BY <1>1, <1>2, <3>2
      <3>4. (h \o m)[i] = m[l] /\ (h \o n)[i] = n[l]
        BY <1>3, <1>4, <3>1
      <3> QED
        BY <3>3, <3>4
    <2> QED
      BY <2>1, <2>2
  <1> QED
    <2>1. Differ(h \o m, h \o n, c + j)
      BY <1>3, <1>4, <1>6, <1>7, Zenon DEF Differ
    <2>2. Places(h \o m, h \o n, c + j, m, n, j)
      BY <1>5, <1>6, <2>1, Zenon DEF Places
    <2> QED
      BY <1>0, <2>2, Zenon

LEMMA CoveredType ==
    ASSUME NEW source \in Nat, NEW target \in Nat, NEW m \in Seq(Nat)
    PROVE  Covered(source, target, m) \in Seq(Nat)
  <1>1. Len(m) \in Nat
    OBVIOUS
  <1>2. PICK h \in Seq(Nat) : h = PseudoHeader(source, target, Len(m))
    BY <1>1, PseudoHeaderType, Zenon
  <1> QED
    BY <1>2, Joined DEF Covered

\* What is covered of a message, and of one that differs from it in a byte.
LEMMA CoveredDamaged ==
    ASSUME NEW source \in Nat, NEW target \in Nat,
           NEW m \in Seq(Nat), NEW n \in Seq(Nat), NEW j, Differ(m, n, j)
    PROVE  Places(Covered(source, target, m), Covered(source, target, n), At(j), m, n, j)
  <1>1. CASE ~v6
    <2>1. m = Covered(source, target, m) /\ n = Covered(source, target, n) /\ At(j) = j
      BY <1>1 DEF Covered, At
    <2> QED
      BY <2>1, Zenon DEF Places
  <1>2. CASE v6
    <2>1. Len(m) \in Nat /\ Len(n) = Len(m)
      BY DEF Differ
    <2>2. PICK h \in Seq(Nat) : h = PseudoHeader(source, target, Len(m)) /\ Len(h) = 12
      BY <2>1, PseudoHeaderType, Zenon
    <2>3. h \o m = Covered(source, target, m) /\ h \o n = Covered(source, target, n)
      BY <1>2, <2>1, <2>2 DEF Covered
    <2>4. At(j) = 12 + j
      BY <1>2 DEF At
    <2>5. Places(h \o m, h \o n, 12 + j, m, n, j)
      BY <2>2, DamagedBehind, Zenon
    <2> QED
      BY <2>3, <2>4, <2>5, Zenon
  <1> QED
    BY <1>1, <1>2

LEMMA ChecksumOfCovered ==
    ASSUME NEW source, NEW target, NEW m
    PROVE  ChecksumBetween(source, target, m) = Checksum(Covered(source, target, m))
  BY DEF ChecksumBetween, ChecksumV6, Covered

\* A change of one byte of a message changes its checksum.
LEMMA DamageChangesChecksum ==
    ASSUME NEW source \in Nat, NEW target \in Nat,
           NEW m \in Seq(Nat), NEW n \in Seq(Nat), NEW j, Differ(m, n, j),
           m[j] \in Byte, n[j] \in Byte, m[j] # n[j]
    PROVE  ChecksumBetween(source, target, m) # ChecksumBetween(source, target, n)
  <1>1. PICK x \in Seq(Nat) : x = Covered(source, target, m)
    BY CoveredType, Zenon
  <1>2. PICK y \in Seq(Nat) : y = Covered(source, target, n)
    BY CoveredType, Zenon
  <1>3. Places(x, y, At(j), m, n, j)
    BY <1>1, <1>2, CoveredDamaged, Zenon
  <1>4. Checksum(x) # Checksum(y)
    BY <1>3, DamageOfSum, Zenon DEF Places
  <1> QED
    BY <1>1, <1>2, <1>4, ChecksumOfCovered, Zenon

\* The sum of what a checksum covers, when one byte of the message changes.
LEMMA DamageOfCovered ==
    ASSUME NEW source \in Nat, NEW target \in Nat,
           NEW m \in Seq(Nat), NEW n \in Seq(Nat), NEW j, Differ(m, n, j)
    PROVE  Sum(Covered(source, target, n))
                = Sum(Covered(source, target, m)) + (n[j] - m[j]) * Weight(j)
  <1>1. PICK x \in Seq(Nat) : x = Covered(source, target, m)
    BY CoveredType, Zenon
  <1>2. PICK y \in Seq(Nat) : y = Covered(source, target, n)
    BY CoveredType, Zenon
  <1>3. Places(x, y, At(j), m, n, j)
    BY <1>1, <1>2, CoveredDamaged, Zenon
  <1>4. Sum(y) = Sum(x) + (y[At(j)] - x[At(j)]) * Weight(At(j))
    BY <1>3, SumOfDamaged, Zenon DEF Places
  <1> QED
    BY <1>1, <1>2, <1>3, <1>4, Zenon DEF Places

-------------------------------------------------------------------------------
(* The bytes of a message.                                                   *)

\* m is a message of this type, with this checksum, identifier, sequence number
\* and payload.
Layout(m, type, sum, i, s, data) ==
    /\ m \in Seq(Nat) /\ Len(m) = 8 + Len(data)
    /\ m[1] = type /\ m[2] = 0
    /\ m[3] = sum[1] /\ m[4] = sum[2]
    /\ m[5] = i[1] /\ m[6] = i[2]
    /\ m[7] = s[1] /\ m[8] = s[2]
    /\ \A k \in 1 .. Len(data) : m[8 + k] = data[k]

LEMMA PairBehind ==
    ASSUME NEW x \in Seq(Nat), NEW y \in Seq(Nat), Len(y) = 2
    PROVE  (x \o y)[Len(x) + 1] = y[1] /\ (x \o y)[Len(x) + 2] = y[2]
  <1>1. 1 \in 1 .. Len(y) /\ 2 \in 1 .. Len(y)
    OBVIOUS
  <1> QED
    BY <1>1, Joined, Zenon

LEMMA JoinedLayout ==
    ASSUME NEW type \in Nat, NEW i \in Seq(Nat), Len(i) = 2, NEW s \in Seq(Nat), Len(s) = 2,
           NEW data \in Seq(Nat)
    PROVE  Layout(<<type, 0, 0, 0>> \o i \o s \o data, type, <<0, 0>>, i, s, data)
  <1>1. PICK h \in Seq(Nat) : /\ h = <<type, 0, 0, 0>> /\ Len(h) = 4
                              /\ h[1] = type /\ h[2] = 0 /\ h[3] = 0 /\ h[4] = 0
    <2> DEFINE g == <<type, 0, 0, 0>>
    <2>1. g \in Seq(Nat) /\ Len(g) = 4 /\ g[1] = type /\ g[2] = 0 /\ g[3] = 0 /\ g[4] = 0
      OBVIOUS
    <2> QED
      BY <2>1, Zenon
  <1>2. PICK u : u = h \o i
    OBVIOUS
  <1>3. /\ u \in Seq(Nat) /\ Len(u) = 6
        /\ u[1] = type /\ u[2] = 0 /\ u[3] = 0 /\ u[4] = 0
        /\ u[5] = i[1] /\ u[6] = i[2]
    <2>1. u \in Seq(Nat) /\ Len(u) = Len(h) + Len(i)
      BY <1>2, Joined, Zenon
    <2>2. \A k \in {1, 2, 3, 4} : u[k] = h[k]
      <3>1. \A k \in {1, 2, 3, 4} : k \in 1 .. Len(h)
        BY <1>1
      <3> QED
        BY <1>2, <3>1, Joined, Zenon
    <2>3. u[Len(h) + 1] = i[1] /\ u[Len(h) + 2] = i[2]
      BY <1>2, PairBehind, Zenon
    <2>4. Len(h) + Len(i) = 6 /\ Len(h) + 1 = 5 /\ Len(h) + 2 = 6
      BY <1>1
    <2> QED
      BY <1>1, <2>1, <2>2, <2>3, <2>4, Zenon
  <1>4. PICK v : v = u \o s
    OBVIOUS
  <1>5. /\ v \in Seq(Nat) /\ Len(v) = 8
        /\ v[1] = type /\ v[2] = 0 /\ v[3] = 0 /\ v[4] = 0
        /\ v[5] = i[1] /\ v[6] = i[2] /\ v[7] = s[1] /\ v[8] = s[2]
    <2>1. v \in Seq(Nat) /\ Len(v) = Len(u) + Len(s)
      BY <1>3, <1>4, Joined, Zenon
    <2>2. \A k \in {1, 2, 3, 4, 5, 6} : v[k] = u[k]
      <3>1. \A k \in {1, 2, 3, 4, 5, 6} : k \in 1 .. Len(u)
        BY <1>3
      <3> QED
        BY <1>3, <1>4, <3>1, Joined, Zenon
    <2>3. v[Len(u) + 1] = s[1] /\ v[Len(u) + 2] = s[2]
      BY <1>3, <1>4, PairBehind, Zenon
    <2>4. Len(u) + Len(s) = 8 /\ Len(u) + 1 = 7 /\ Len(u) + 2 = 8
      BY <1>3
    <2> QED
      BY <1>3, <2>1, <2>2, <2>3, <2>4, Zenon
  <1>6. PICK m : m = v \o data
    OBVIOUS
  <1>7. /\ m \in Seq(Nat) /\ Len(m) = 8 + Len(data)
        /\ m[1] = type /\ m[2] = 0 /\ m[3] = 0 /\ m[4] = 0
        /\ m[5] = i[1] /\ m[6] = i[2] /\ m[7] = s[1] /\ m[8] = s[2]
    <2>1. m \in Seq(Nat) /\ Len(m) = Len(v) + Len(data)
      BY <1>5, <1>6, Joined, Zenon
    <2>2. \A k \in {1, 2, 3, 4, 5, 6, 7, 8} : m[k] = v[k]
      <3>1. \A k \in {1, 2, 3, 4, 5, 6, 7, 8} : k \in 1 .. Len(v)
        BY <1>5
      <3> QED
        BY <1>5, <1>6, <3>1, Joined, Zenon
    <2>3. m[1] = v[1] /\ m[2] = v[2] /\ m[3] = v[3] /\ m[4] = v[4]
      BY <2>2, Zenon
    <2>4. m[5] = v[5] /\ m[6] = v[6] /\ m[7] = v[7] /\ m[8] = v[8]
      BY <2>2, Zenon
    <2> QED
      BY <1>5, <2>1, <2>3, <2>4, Zenon
  <1>8. \A k \in 1 .. Len(data) : m[8 + k] = data[k]
    <2>1. \A k \in 1 .. Len(data) : (v \o data)[Len(v) + k] = data[k]
      BY <1>5, Joined
    <2> QED
      BY <1>5, <1>6, <2>1, Zenon
  <1>9. <<0, 0>>[1] = 0 /\ <<0, 0>>[2] = 0
    OBVIOUS
  <1>10. Layout(m, type, <<0, 0>>, i, s, data)
    BY <1>7, <1>8, <1>9, Zenon DEF Layout
  <1> QED
    BY <1>1, <1>2, <1>4, <1>6, <1>10, Zenon

LEMMA PutAt ==
    ASSUME NEW m \in Seq(Nat), NEW j \in 1 .. Len(m), NEW b \in Nat
    PROVE  /\ [m EXCEPT ![j] = b] \in Seq(Nat) /\ Differ(m, [m EXCEPT ![j] = b], j)
           /\ [m EXCEPT ![j] = b][j] = b
  BY DEF Differ

\* Filling in a checksum, its second byte after its first.
LEMMA SumFilledIn ==
    ASSUME NEW m, NEW type, NEW i, NEW s, NEW data \in Seq(Nat),
           Layout(m, type, <<0, 0>>, i, s, data), NEW a \in Nat, NEW b \in Nat
    PROVE  \E n \in Seq(Nat), p \in Seq(Nat) :
             /\ Differ(m, n, 3) /\ n[3] = a /\ n[4] = 0
             /\ Differ(n, p, 4) /\ p[4] = b
             /\ p = [m EXCEPT ![3] = a, ![4] = b]
             /\ Layout(p, type, <<a, b>>, i, s, data)
  <1>1. /\ m \in Seq(Nat) /\ Len(m) = 8 + Len(data) /\ Len(data) \in Nat
        /\ 3 \in 1 .. Len(m) /\ 4 \in 1 .. Len(m) /\ m[4] = 0
    BY DEF Layout
  <1>2. PICK n : n = [m EXCEPT ![3] = a]
    OBVIOUS
  <1>a. n \in Seq(Nat) /\ Differ(m, n, 3) /\ n[3] = a
    <2>1. PICK j \in 1 .. Len(m) : j = 3
      BY <1>1
    <2>2. n = [m EXCEPT ![j] = a]
      BY <1>2, <2>1
    <2>3. n \in Seq(Nat) /\ Differ(m, n, j) /\ n[j] = a
      <3>1. m \in Seq(Nat)
        BY <1>1
      <3> QED
        BY <2>2, <3>1, PutAt, Zenon
    <2> QED
      BY <2>1, <2>3, Zenon
  <1>b. Len(n) = Len(m) /\ \A k \in 1 .. Len(m) : k # 3 => n[k] = m[k]
    BY <1>a DEF Differ
  <1>3. PICK p : p = [n EXCEPT ![4] = b]
    OBVIOUS
  <1>c. p \in Seq(Nat) /\ Differ(n, p, 4) /\ p[4] = b
    <2>1. PICK j \in 1 .. Len(n) : j = 4
      BY <1>1, <1>b
    <2>2. p = [n EXCEPT ![j] = b]
      BY <1>3, <2>1
    <2>3. p \in Seq(Nat) /\ Differ(n, p, j) /\ p[j] = b
      <3>1. n \in Seq(Nat)
        BY <1>a, Zenon
      <3> QED
        BY <2>2, <3>1, PutAt, Zenon
    <2> QED
      BY <2>1, <2>3, Zenon
  <1>d. Len(p) = Len(m) /\ \A k \in 1 .. Len(m) : k # 4 => p[k] = n[k]
    BY <1>b, <1>c DEF Differ
  <1>4. p = [m EXCEPT ![3] = a, ![4] = b]
    BY <1>2, <1>3
  <1>6. n[4] = 0
    BY <1>1, <1>b
  <1>7. \A k \in 1 .. Len(m) : k # 3 /\ k # 4 => p[k] = m[k]
    BY <1>b, <1>d
  <1>8. p[3] = a
    BY <1>1, <1>a, <1>d
  <1>9. <<a, b>>[1] = a /\ <<a, b>>[2] = b
    OBVIOUS
  <1>10. \A k \in 1 .. Len(data) : p[8 + k] = data[k]
    <2> SUFFICES ASSUME NEW k \in 1 .. Len(data) PROVE p[8 + k] = data[k]
      OBVIOUS
    <2>1. 8 + k \in 1 .. Len(m) /\ 8 + k # 3 /\ 8 + k # 4
      BY <1>1
    <2>2. m[8 + k] = data[k]
      BY DEF Layout
    <2> QED
      BY <1>7, <2>1, <2>2
  <1>11. /\ p[1] = m[1] /\ p[2] = m[2] /\ p[5] = m[5] /\ p[6] = m[6]
         /\ p[7] = m[7] /\ p[8] = m[8]
    <2>1. \A k \in {1, 2, 5, 6, 7, 8} : p[k] = m[k]
      BY <1>1, <1>7
    <2> QED
      BY <2>1, Zenon
  <1>12. Layout(p, type, <<a, b>>, i, s, data)
    BY <1>1, <1>c, <1>d, <1>8, <1>9, <1>10, <1>11, Zenon DEF Layout
  <1> QED
    BY <1>a, <1>c, <1>4, <1>6, <1>12, Zenon

-------------------------------------------------------------------------------
(* Messages with their checksum.                                             *)

Bare(type, data) == <<type, 0, 0, 0>> \o Big(id) \o Big(seq) \o data

\* The checksum of a message.
Mark(source, target, type, data) == ChecksumBetween(source, target, Bare(type, data))

LEMMA BigFacts ==
    ASSUME NEW x \in Word
    PROVE  \E q \in Byte, r \in Byte :
              /\ Big(x) = <<q, r>> /\ x = q * Base + r
              /\ <<q, r>>[1] = q /\ <<q, r>>[2] = r
  <1>1. Base \in Nat \ {0} /\ x \in Nat
    BY BytesAssumption DEF Word
  <1>2. PICK q \in Nat, r \in 0 .. Base - 1 : x \div Base = q /\ x % Base = r /\ q * Base + r = x
    BY <1>1, DivisionOf, Zenon
  <1>3. q < Base
    <2> SUFFICES ASSUME q >= Base PROVE FALSE
      BY <1>1
    <2>1. q * Base >= Base * Base
      BY <1>1
    <2>2. x < Base * Base
      BY BytesAssumption DEF Word
    <2> QED
      BY <1>1, <1>2, <2>1, <2>2
  <1>4. q \in Byte /\ r \in Byte
    BY <1>1, <1>3 DEF Byte
  <1>5. Big(x) = <<q, r>>
    BY <1>2 DEF Big
  <1>6. <<q, r>>[1] = q /\ <<q, r>>[2] = r
    OBVIOUS
  <1> QED
    BY <1>2, <1>4, <1>5, <1>6, Zenon

LEMMA BigPair ==
    ASSUME NEW x \in Word
    PROVE  Big(x) \in Seq(Nat) /\ Len(Big(x)) = 2 /\ Big(x)[1] \in Byte /\ Big(x)[2] \in Byte
  <1>1. PICK q \in Byte, r \in Byte : Big(x) = <<q, r>>
    BY BigFacts, Zenon
  <1>2. q \in Nat /\ r \in Nat
    BY BytesAssumption DEF Byte
  <1> QED
    BY <1>1, <1>2

LEMMA MarkType ==
    ASSUME id \in Word, seq \in Word, NEW source \in Word, NEW target \in Word,
           NEW type \in Byte, NEW data \in Seq(Nat)
    PROVE  /\ Layout(Bare(type, data), type, <<0, 0>>, Big(id), Big(seq), data)
           /\ Covered(source, target, Bare(type, data)) \in Seq(Nat)
           /\ Mark(source, target, type, data)
                = Modulus - Folded(Sum(Covered(source, target, Bare(type, data))))
           /\ Mark(source, target, type, data) \in Word
  <1>1. source \in Nat /\ target \in Nat /\ type \in Nat
    BY BytesAssumption DEF Word, Byte
  <1>2. Layout(Bare(type, data), type, <<0, 0>>, Big(id), Big(seq), data)
    BY <1>1, BigPair, JoinedLayout, Zenon DEF Bare
  <1>3. Bare(type, data) \in Seq(Nat)
    BY <1>2, Zenon DEF Layout
  <1>4. Covered(source, target, Bare(type, data)) \in Seq(Nat)
    BY <1>1, <1>3, CoveredType, Zenon
  <1> QED
    BY <1>2, <1>4, ChecksumType, ChecksumOfCovered, Zenon DEF Mark

\* A message with its checksum is laid out as it should, and verifies.
LEMMA SignedFacts ==
    ASSUME id \in Word, seq \in Word, NEW source \in Word, NEW target \in Word,
           NEW type \in Byte, NEW data \in Seq(Nat)
    PROVE  /\ Layout(Signed(source, target, type, data), type,
                     Big(Mark(source, target, type, data)), Big(id), Big(seq), data)
           /\ ChecksumBetween(source, target, Signed(source, target, type, data)) = 0
  <1>1. source \in Nat /\ target \in Nat
    BY BytesAssumption DEF Word
  <1>2. PICK c \in Word : c = Mark(source, target, type, data)
    BY MarkType, Zenon
  <1>3. PICK a \in Byte, b \in Byte : /\ Big(c) = <<a, b>> /\ c = a * Base + b
                                      /\ <<a, b>>[1] = a /\ <<a, b>>[2] = b
    BY BigFacts, Zenon
  <1>4. PICK m : m = Bare(type, data)
    OBVIOUS
  <1>5. Layout(m, type, <<0, 0>>, Big(id), Big(seq), data)
    BY <1>4, MarkType, Zenon
  <1>6. a \in Nat /\ b \in Nat
    BY BytesAssumption DEF Byte
  <1>7. PICK n \in Seq(Nat), p \in Seq(Nat) :
             /\ Differ(m, n, 3) /\ n[3] = a /\ n[4] = 0
             /\ Differ(n, p, 4) /\ p[4] = b
             /\ p = [m EXCEPT ![3] = a, ![4] = b]
             /\ Layout(p, type, <<a, b>>, Big(id), Big(seq), data)
    BY <1>5, <1>6, SumFilledIn, Zenon
  <1>8. p = Signed(source, target, type, data)
    BY <1>2, <1>3, <1>4, <1>7, Zenon DEF Signed, Mark, Bare
  <1>9. m \in Seq(Nat) /\ m[3] = 0
    BY <1>5 DEF Layout
  <1>10. PICK s \in Nat : s = Sum(Covered(source, target, m))
    BY <1>1, <1>9, CoveredType, SumIsNatural, Zenon
  <1>11. PICK t \in Nat : t = Sum(Covered(source, target, n))
    BY <1>1, CoveredType, SumIsNatural, Zenon
  <1>12. t = s + a * Base
    <2>1. t = s + (n[3] - m[3]) * Weight(3)
      <3>1. PICK j : j = 3
        OBVIOUS
      <3>2. Differ(m, n, j) /\ m \in Seq(Nat) /\ n \in Seq(Nat)
        BY <1>7, <1>9, <3>1, Zenon
      <3>3. Sum(Covered(source, target, n))
                = Sum(Covered(source, target, m)) + (n[j] - m[j]) * Weight(j)
        BY <1>1, <3>2, DamageOfCovered
      <3> QED
        BY <1>10, <1>11, <3>1, <3>3
    <2>2. Weight(3) = Base /\ n[3] - m[3] = a
      BY <1>6, <1>7, <1>9 DEF Weight
    <2> QED
      BY <2>1, <2>2, Zenon
  <1>13. Sum(Covered(source, target, p)) = t + b
    <2>1. Sum(Covered(source, target, p)) = t + (p[4] - n[4]) * Weight(4)
      <3>1. PICK j : j = 4
        OBVIOUS
      <3>2. Differ(n, p, j) /\ n \in Seq(Nat) /\ p \in Seq(Nat)
        BY <1>7, <3>1, Zenon
      <3>3. Sum(Covered(source, target, p))
                = Sum(Covered(source, target, n)) + (p[j] - n[j]) * Weight(j)
        BY <1>1, <3>2, DamageOfCovered
      <3> QED
        BY <1>11, <3>1, <3>3
    <2>2. Weight(4) = 1 /\ b * 1 = b /\ b - 0 = b
      BY <1>6 DEF Weight
    <2> QED
      BY <1>7, <2>1, <2>2, Zenon
  <1>14. PICK w \in 0 .. Modulus, k \in Nat : w = Folded(s) /\ s = w + k * Modulus
    BY <1>10, FoldedType, FoldedFacts, Zenon DEF FoldsInto
  <1>15. c = Modulus - w
    <2>1. Mark(source, target, type, data)
              = Modulus - Folded(Sum(Covered(source, target, Bare(type, data))))
      BY MarkType
    <2> QED
      BY <1>2, <1>4, <1>10, <1>14, <2>1, Zenon
  <1>16. t + b = (k + 1) * Modulus
    <2>1. (k + 1) * Modulus = k * Modulus + Modulus
      BY ModulusType
    <2>2. PICK x \in Nat, y \in Nat : x = k * Modulus /\ y = a * Base
      BY <1>6, ModulusType, BytesAssumption
    <2> QED
      <3>1. PICK M \in Nat : M = Modulus
        BY ModulusType
      <3>2. y + b = M - w /\ t = s + y /\ s = w + x
        BY <1>3, <1>12, <1>14, <1>15, <2>2, <3>1, Zenon
      <3>3. (k + 1) * Modulus = x + M
        BY <2>1, <2>2, <3>1, Zenon
      <3>4. w \in Nat
        BY <3>1
      <3>5. t + b = x + M
        BY <1>6, <3>2, <3>4
      <3> QED
        BY <3>3, <3>5, Zenon
  <1>17. k + 1 \in Nat \ {0}
    OBVIOUS
  <1>18. Checksum(Covered(source, target, p)) = 0
    BY <1>1, <1>13, <1>16, <1>17, CoveredType, Verifying, Zenon
  <1> QED
    BY <1>2, <1>3, <1>7, <1>8, <1>18, ChecksumOfCovered, Zenon

-------------------------------------------------------------------------------
(* The parts of a message, and of the start of one.                          *)

LEMMA Extensional ==
    ASSUME NEW x \in Seq(Nat), NEW y \in Seq(Nat), Len(x) = Len(y),
           \A k \in 1 .. Len(x) : x[k] = y[k]
    PROVE  x = y
  OBVIOUS

LEMMA PartOf ==
    ASSUME NEW m \in Seq(Nat), NEW j \in Nat, NEW k \in Nat, j >= 1, k <= Len(m), k >= j - 1
    PROVE  /\ SubSeq(m, j, k) \in Seq(Nat) /\ Len(SubSeq(m, j, k)) = k - j + 1
           /\ \A l \in 1 .. k - j + 1 : SubSeq(m, j, k)[l] = m[j + l - 1]
  OBVIOUS

LEMMA PairOf ==
    ASSUME NEW m \in Seq(Nat), NEW j \in Nat, NEW k \in Nat, j >= 1, k = j + 1, k <= Len(m),
           NEW p \in Seq(Nat), Len(p) = 2, m[j] = p[1], m[k] = p[2]
    PROVE  SubSeq(m, j, k) = p
  <1>1. PICK x : x = SubSeq(m, j, k)
    OBVIOUS
  <1>2. /\ x \in Seq(Nat) /\ Len(x) = k - j + 1
        /\ \A l \in 1 .. k - j + 1 : x[l] = m[j + l - 1]
    <2>1. k >= j - 1
      OBVIOUS
    <2> QED
      BY <1>1, <2>1, PartOf, Zenon
  <1>3. Len(x) = 2 /\ k - j + 1 = 2 /\ j + 1 - 1 = j /\ j + 2 - 1 = k
    BY <1>2
  <1>4. \A l \in 1 .. 2 : x[l] = m[j + l - 1]
    BY <1>2, <1>3, Zenon
  <1>5. 1 \in 1 .. 2 /\ 2 \in 1 .. 2 /\ \A l \in 1 .. 2 : l = 1 \/ l = 2
    OBVIOUS
  <1>6. x[1] = p[1] /\ x[2] = p[2]
    BY <1>3, <1>4, <1>5, Zenon
  <1>7. \A l \in 1 .. Len(x) : x[l] = p[l]
    BY <1>3, <1>5, <1>6, Zenon
  <1> QED
    BY <1>1, <1>2, <1>3, <1>7, Extensional, Zenon

\* q is the first k bytes of a message.
Start(q, k, type, sum, i, s, data) ==
    /\ q \in Seq(Nat) /\ Len(q) = k
    /\ q[1] = type /\ q[2] = 0
    /\ SubSeq(q, 3, 4) = sum /\ SubSeq(q, 5, 6) = i /\ SubSeq(q, 7, 8) = s
    /\ Len(Rest(q)) = k - 8 /\ Rest(q) = SubSeq(data, 1, k - 8)

\* What stands in the first k bytes of a message, which are all of it or, in the
\* quote of an error, fewer.
LEMMA StartOf ==
    ASSUME NEW m, NEW type, NEW sum \in Seq(Nat), Len(sum) = 2,
           NEW i \in Seq(Nat), Len(i) = 2, NEW s \in Seq(Nat), Len(s) = 2,
           NEW data \in Seq(Nat), Layout(m, type, sum, i, s, data),
           NEW k \in 8 .. Len(m), NEW q, q = SubSeq(m, 1, k)
    PROVE  Start(q, k, type, sum, i, s, data)
  <1>1. /\ m \in Seq(Nat) /\ Len(m) = 8 + Len(data) /\ Len(data) \in Nat
        /\ k \in Nat /\ k >= 8 /\ k <= Len(m)
    BY DEF Layout
  <1>2. /\ q \in Seq(Nat) /\ Len(q) = k
        /\ \A l \in 1 .. k : q[l] = m[l]
    <2>1. /\ q \in Seq(Nat) /\ Len(q) = k - 1 + 1
          /\ \A l \in 1 .. k - 1 + 1 : q[l] = m[1 + l - 1]
      BY <1>1, PartOf
    <2>2. k - 1 + 1 = k /\ \A l \in 1 .. k : 1 + l - 1 = l
      BY <1>1
    <2> QED
      BY <2>1, <2>2, Zenon
  <1>3. \A l \in {1, 2, 3, 4, 5, 6, 7, 8} : q[l] = m[l]
    BY <1>1, <1>2
  <1>4. q[1] = type /\ q[2] = 0
    BY <1>3, Zenon DEF Layout
  <1>5. SubSeq(q, 3, 4) = sum
    <2>1. q[3] = sum[1] /\ q[4] = sum[2]
      BY <1>3, Zenon DEF Layout
    <2>2. PICK j \in Nat, l \in Nat :
              j = 3 /\ l = 4 /\ j >= 1 /\ l = j + 1 /\ l <= Len(q)
      BY <1>1, <1>2
    <2>3. q[j] = sum[1] /\ q[l] = sum[2]
      BY <2>1, <2>2
    <2>4. SubSeq(q, j, l) = sum
      BY <1>2, <2>2, <2>3, PairOf
    <2> QED
      BY <2>2, <2>4, Zenon
  <1>6. SubSeq(q, 5, 6) = i
    <2>1. q[5] = i[1] /\ q[6] = i[2]
      BY <1>3, Zenon DEF Layout
    <2>2. PICK j \in Nat, l \in Nat :
              j = 5 /\ l = 6 /\ j >= 1 /\ l = j + 1 /\ l <= Len(q)
      BY <1>1, <1>2
    <2>3. q[j] = i[1] /\ q[l] = i[2]
      BY <2>1, <2>2
    <2>4. SubSeq(q, j, l) = i
      BY <1>2, <2>2, <2>3, PairOf
    <2> QED
      BY <2>2, <2>4, Zenon
  <1>7. SubSeq(q, 7, 8) = s
    <2>1. q[7] = s[1] /\ q[8] = s[2]
      BY <1>3, Zenon DEF Layout
    <2>2. PICK j \in Nat, l \in Nat :
              j = 7 /\ l = 8 /\ j >= 1 /\ l = j + 1 /\ l <= Len(q)
      BY <1>1, <1>2
    <2>3. q[j] = s[1] /\ q[l] = s[2]
      BY <2>1, <2>2
    <2>4. SubSeq(q, j, l) = s
      BY <1>2, <2>2, <2>3, PairOf
    <2> QED
      BY <2>2, <2>4, Zenon
  <1>8. PICK n \in Nat : n = k - 8 /\ n <= Len(data)
    BY <1>1
  <1>9. PICK x : x = Rest(q)
    OBVIOUS
  <1>10. /\ x \in Seq(Nat) /\ Len(x) = n
         /\ \A l \in 1 .. n : x[l] = data[l]
    <2>1. PICK e \in Nat : e = 9 /\ e >= 1 /\ k <= Len(q) /\ k >= e - 1 /\ k - e + 1 = n
      BY <1>1, <1>2, <1>8
    <2>2. x = SubSeq(q, e, k)
      BY <1>2, <1>9, <2>1 DEF Rest
    <2>3. /\ x \in Seq(Nat) /\ Len(x) = n
          /\ \A l \in 1 .. n : x[l] = q[e + l - 1]
      BY <1>1, <1>2, <2>1, <2>2, PartOf
    <2>4. ASSUME NEW l \in 1 .. n PROVE x[l] = data[l]
      <3>1. x[l] = q[e + l - 1]
        BY <2>3
      <3>2. e + l - 1 = 8 + l /\ 8 + l \in 1 .. k /\ l \in 1 .. Len(data)
        BY <1>1, <1>8, <2>1
      <3>3. q[8 + l] = m[8 + l]
        BY <1>2, <3>2, Zenon
      <3>4. m[8 + l] = data[l]
        BY <3>2, Zenon DEF Layout
      <3> QED
        BY <3>1, <3>2, <3>3, <3>4, Zenon
    <2> QED
      BY <2>3, <2>4
  <1>11. PICK y : y = SubSeq(data, 1, n)
    OBVIOUS
  <1>12. /\ y \in Seq(Nat) /\ Len(y) = n
         /\ \A l \in 1 .. n : y[l] = data[l]
    <2>1. /\ y \in Seq(Nat) /\ Len(y) = n - 1 + 1
          /\ \A l \in 1 .. n - 1 + 1 : y[l] = data[1 + l - 1]
      BY <1>8, <1>11, PartOf
    <2>2. n - 1 + 1 = n /\ \A l \in 1 .. n : 1 + l - 1 = l
      OBVIOUS
    <2> QED
      BY <2>1, <2>2, Zenon
  <1>13. x = y
    <2>1. Len(x) = Len(y) /\ \A l \in 1 .. Len(x) : x[l] = y[l]
      BY <1>10, <1>12, Zenon
    <2> QED
      BY <1>10, <1>12, <2>1, Extensional, Zenon
  <1> QED
    BY <1>2, <1>4, <1>5, <1>6, <1>7, <1>8, <1>9, <1>10, <1>11, <1>13, Zenon DEF Start

LEMMA SignedLength ==
    ASSUME id \in Word, seq \in Word, NEW source \in Word, NEW target \in Word,
           NEW type \in Byte, NEW data \in Seq(Nat)
    PROVE  /\ Signed(source, target, type, data) \in Seq(Nat)
           /\ Len(Signed(source, target, type, data)) = 8 + Len(data)
  BY SignedFacts, Zenon DEF Layout

\* The same of a message with its checksum.
LEMMA StartOfSigned ==
    ASSUME id \in Word, seq \in Word, NEW source \in Word, NEW target \in Word,
           NEW type \in Byte, NEW data \in Seq(Nat), NEW sum,
           sum = Big(Mark(source, target, type, data)),
           NEW m, m = Signed(source, target, type, data)
    PROVE  /\ m \in Seq(Nat) /\ Len(m) = 8 + Len(data)
           /\ \A k \in 8 .. Len(m) :
                 Start(SubSeq(m, 1, k), k, type, sum, Big(id), Big(seq), data)
           /\ Start(m, Len(m), type, sum, Big(id), Big(seq), data)
  <1>1. /\ Big(id) \in Seq(Nat) /\ Len(Big(id)) = 2
        /\ Big(seq) \in Seq(Nat) /\ Len(Big(seq)) = 2
    BY BigPair, Zenon
  <1>2. Layout(m, type, sum, Big(id), Big(seq), data)
    BY SignedFacts, Zenon
  <1>3. sum \in Seq(Nat) /\ Len(sum) = 2
    BY MarkType, BigPair, Zenon
  <1>4. m \in Seq(Nat) /\ Len(m) = 8 + Len(data)
    BY <1>2, Zenon DEF Layout
  <1>5. ASSUME NEW k \in 8 .. Len(m)
        PROVE  Start(SubSeq(m, 1, k), k, type, sum, Big(id), Big(seq), data)
    BY <1>1, <1>2, <1>3, StartOf, Zenon
  <1>6. PICK k \in 8 .. Len(m) : k = Len(m)
    BY <1>4
  <1>7. SubSeq(m, 1, k) = m
    BY <1>4, <1>6, SubSeqFull, Zenon
  <1> QED
    BY <1>4, <1>5, <1>6, <1>7, Zenon

-------------------------------------------------------------------------------
(* The theorems.                                                             *)

CodecType ==
    /\ v6 \in BOOLEAN /\ id \in Ids /\ seq \in Seqs
    /\ payload \in Seq(Nat) /\ \A k \in 1 .. Len(payload) : payload[k] \in Byte

\* The probe that is looked at has an identifier and a sequence number of 16 bits,
\* and a payload of bytes.
THEOREM CodecTyped == Spec => []CodecType
  <1>1. Init => CodecType
    BY DEF Init, CodecType
  <1>2. ASSUME CodecType, [Next]_vars PROVE CodecType'
    <2>1. CASE Extend
      <3>1. PICK b \in Byte : payload' = Append(payload, b)
        BY <2>1 DEF Extend
      <3>2. b \in Nat /\ payload \in Seq(Nat)
        BY <1>2, BytesAssumption DEF CodecType, Byte
      <3>3. payload' \in Seq(Nat) /\ Len(payload') = Len(payload) + 1
        BY <3>1, <3>2
      <3>4. \A k \in 1 .. Len(payload') : payload'[k] \in Byte
        BY <1>2, <3>1, <3>2 DEF CodecType
      <3> QED
        BY <1>2, <2>1, <3>3, <3>4 DEF CodecType, Extend
    <2>2. CASE UNCHANGED vars
      BY <1>2, <2>2 DEF CodecType, vars
    <2> QED
      BY <1>2, <2>1, <2>2 DEF Next
  <1> QED
    BY <1>1, <1>2, PTL DEF Spec

LEMMA Fields ==
    ASSUME CodecType
    PROVE  /\ id \in Word /\ seq \in Word /\ Local \in Word /\ Target \in Word
           /\ payload \in Seq(Nat)
           /\ (IF v6 THEN ReplyV6 ELSE ReplyV4) \in Byte
           /\ (IF v6 THEN RequestV6 ELSE RequestV4) \in Byte
  BY CodecAssumption DEF CodecType

\* A message is made of bytes.
LEMMA SignedBytes ==
    ASSUME CodecType, NEW source \in Word, NEW target \in Word, NEW type \in Byte,
           NEW m, m = Signed(source, target, type, payload)
    PROVE  m \in Seq(Nat) /\ \A k \in 1 .. Len(m) : m[k] \in Byte
  <1>1. PICK c \in Word : c = Mark(source, target, type, payload)
    BY Fields, MarkType, Zenon
  <1>2. Layout(m, type, Big(c), Big(id), Big(seq), payload)
    BY <1>1, Fields, SignedFacts, Zenon
  <1>3. /\ Big(c)[1] \in Byte /\ Big(c)[2] \in Byte
        /\ Big(id)[1] \in Byte /\ Big(id)[2] \in Byte
        /\ Big(seq)[1] \in Byte /\ Big(seq)[2] \in Byte
    BY Fields, BigPair, Zenon
  <1>4. 0 \in Byte
    BY BytesAssumption DEF Byte
  <1>5. m \in Seq(Nat) /\ Len(m) = 8 + Len(payload) /\ Len(payload) \in Nat
    BY <1>2, Fields DEF Layout
  <1>6. /\ m[1] \in Byte /\ m[2] \in Byte /\ m[3] \in Byte /\ m[4] \in Byte
        /\ m[5] \in Byte /\ m[6] \in Byte /\ m[7] \in Byte /\ m[8] \in Byte
    BY <1>2, <1>3, <1>4, Zenon DEF Layout
  <1>7. ASSUME NEW k \in 1 .. Len(m) PROVE m[k] \in Byte
    <2>1. CASE k \in {1, 2, 3, 4, 5, 6, 7, 8}
      BY <1>6, <2>1, Zenon
    <2>2. CASE k \notin {1, 2, 3, 4, 5, 6, 7, 8}
      <3>1. PICK l \in 1 .. Len(payload) : k = 8 + l
        <4>1. k - 8 \in 1 .. Len(payload) /\ k = 8 + (k - 8)
          BY <1>5, <2>2
        <4> QED
          BY <4>1, Zenon
      <3>2. m[8 + l] = payload[l]
        BY <1>2, Zenon DEF Layout
      <3> QED
        BY <3>1, <3>2, Zenon DEF CodecType
    <2> QED
      BY <2>1, <2>2
  <1> QED
    BY <1>5, <1>7

LEMMA BigIsInjective ==
    ASSUME NEW c \in Word, NEW e \in Word, c # e
    PROVE  Big(c) # Big(e)
  <1>1. PICK q \in Byte, r \in Byte : /\ Big(c) = <<q, r>> /\ c = q * Base + r
                                      /\ <<q, r>>[1] = q /\ <<q, r>>[2] = r
    BY BigFacts, Zenon
  <1>2. PICK s \in Byte, t \in Byte : /\ Big(e) = <<s, t>> /\ e = s * Base + t
                                      /\ <<s, t>>[1] = s /\ <<s, t>>[2] = t
    BY BigFacts, Zenon
  <1> QED
    BY <1>1, <1>2, Zenon

\* Requests that differ in a byte of their payload have different checksums.
LEMMA MarksDiffer ==
    ASSUME CodecType, NEW source \in Word, NEW target \in Word, NEW type \in Byte,
           NEW other \in Seq(Nat), NEW j, Differ(payload, other, j),
           payload[j] \in Byte, other[j] \in Byte, payload[j] # other[j]
    PROVE  Mark(source, target, type, payload) # Mark(source, target, type, other)
  <1>1. PICK m : m = Bare(type, payload)
    OBVIOUS
  <1>2. PICK n : n = Bare(type, other)
    OBVIOUS
  <1>3. Layout(m, type, <<0, 0>>, Big(id), Big(seq), payload)
    BY <1>1, Fields, MarkType, Zenon
  <1>4. Layout(n, type, <<0, 0>>, Big(id), Big(seq), other)
    BY <1>2, Fields, MarkType, Zenon
  <1>5. /\ Len(other) = Len(payload) /\ j \in 1 .. Len(payload) /\ Len(payload) \in Nat
        /\ \A l \in 1 .. Len(payload) : l # j => other[l] = payload[l]
    BY Fields DEF Differ
  <1>6. /\ m \in Seq(Nat) /\ n \in Seq(Nat)
        /\ Len(m) = 8 + Len(payload) /\ Len(n) = 8 + Len(payload)
    BY <1>3, <1>4, <1>5, Zenon DEF Layout
  <1>7. PICK k \in 1 .. Len(m) : k = 8 + j
    <2>1. PICK e \in Nat : e = Len(payload) /\ Len(m) = 8 + e /\ j \in 1 .. e
      BY <1>5, <1>6, Zenon
    <2>2. 8 + j \in 1 .. Len(m)
      BY <2>1
    <2> QED
      BY <2>2, Zenon
  <1>8. m[k] = payload[j] /\ n[k] = other[j]
    BY <1>3, <1>4, <1>5, <1>7, Zenon DEF Layout
  <1>9. ASSUME NEW i \in 1 .. Len(m), i # k PROVE n[i] = m[i]
    <2>1. CASE i \in {1, 2, 3, 4, 5, 6, 7, 8}
      BY <1>3, <1>4, <2>1, Zenon DEF Layout
    <2>2. CASE i \notin {1, 2, 3, 4, 5, 6, 7, 8}
      <3>1. PICK l \in 1 .. Len(payload) : i = 8 + l
        <4>1. i \in Nat /\ i > 8 /\ i <= 8 + Len(payload)
          BY <1>5, <1>6, <2>2
        <4>2. i - 8 \in 1 .. Len(payload) /\ i = 8 + (i - 8)
          BY <1>5, <4>1
        <4> QED
          BY <4>2, Zenon
      <3>2. m[8 + l] = payload[l] /\ n[8 + l] = other[l]
        BY <1>3, <1>4, <1>5, Zenon DEF Layout
      <3>3. l # j
        BY <1>7, <1>9, <3>1
      <3> QED
        BY <1>5, <3>1, <3>2, <3>3, Zenon
    <2> QED
      BY <2>1, <2>2
  <1>10. Differ(m, n, k)
    BY <1>6, <1>7, <1>9, Zenon DEF Differ
  <1>11. source \in Nat /\ target \in Nat
    BY BytesAssumption DEF Word
  <1>12. ChecksumBetween(source, target, m) # ChecksumBetween(source, target, n)
    BY <1>6, <1>8, <1>10, <1>11, DamageChangesChecksum, Zenon
  <1> QED
    BY <1>1, <1>2, <1>12, Zenon DEF Mark

\* The reply of the target and every quote of the request are accepted, whatever
\* the width of a byte and the length of the payload.
THEOREM OwnAnswersTheorem == Spec => []OwnAnswersAccepted
  <1>1. CodecType => OwnAnswersAccepted
    <2> SUFFICES ASSUME CodecType PROVE OwnAnswersAccepted
      OBVIOUS
    <2>1. AcceptsReply(Target, Reply)
      <3>1. PICK type \in Byte : type = IF v6 THEN ReplyV6 ELSE ReplyV4
        BY Fields, Zenon
      <3>2. PICK m : m = Signed(Target, Local, type, payload) /\ m = Reply
        BY <3>1, Zenon DEF Reply
      <3>3. PICK sum : sum = Big(Mark(Target, Local, type, payload))
        OBVIOUS
      <3>4. /\ m \in Seq(Nat) /\ Len(m) = 8 + Len(payload)
            /\ Start(m, Len(m), type, sum, Big(id), Big(seq), payload)
        <4>1. m = Signed(Target, Local, type, payload)
          BY <3>2, Zenon
        <4>2. m \in Seq(Nat) /\ Len(m) = 8 + Len(payload)
          <5>1. /\ Signed(Target, Local, type, payload) \in Seq(Nat)
                /\ Len(Signed(Target, Local, type, payload)) = 8 + Len(payload)
            BY Fields, SignedLength, Zenon
          <5> QED
            BY <4>1, <5>1, Zenon
        <4>3. Start(m, Len(m), type, sum, Big(id), Big(seq), payload)
          BY <3>3, <4>1, Fields, StartOfSigned, Zenon
        <4> QED
          BY <4>2, <4>3
      <3>5. ChecksumBetween(Target, Local, m) = 0
        <4>1. ChecksumBetween(Target, Local, Signed(Target, Local, type, payload)) = 0
          BY Fields, SignedFacts, Zenon
        <4> QED
          BY <3>2, <4>1, Zenon
      <3>6. Len(m) >= 8 /\ Len(m) - 8 = Len(payload)
        BY <3>4, Fields
      <3>7. Rest(m) = payload
        <4>1. SubSeq(payload, 1, Len(payload)) = payload
          BY Fields, SubSeqFull, Zenon
        <4> QED
          BY <3>4, <3>6, <4>1, Zenon DEF Start
      <3> QED
        BY <3>1, <3>2, <3>4, <3>5, <3>6, <3>7, Zenon DEF AcceptsReply, Verifies, Matches, Start
    <2>2. ASSUME NEW q \in Quotes(Echo(payload)) PROVE AcceptsQuote(q)
      <3>1. PICK type \in Byte : type = IF v6 THEN RequestV6 ELSE RequestV4
        BY Fields, Zenon
      <3>2. PICK m : m = Signed(Local, Target, type, payload) /\ m = Echo(payload)
        BY <3>1, Zenon DEF Echo
      <3>3. PICK sum : sum = Big(Mark(Local, Target, type, payload))
        OBVIOUS
      <3>4. /\ m \in Seq(Nat) /\ Len(m) = 8 + Len(payload)
            /\ Start(m, Len(m), type, sum, Big(id), Big(seq), payload)
        <4>1. m = Signed(Local, Target, type, payload)
          BY <3>2, Zenon
        <4>2. m \in Seq(Nat) /\ Len(m) = 8 + Len(payload)
          <5>1. /\ Signed(Local, Target, type, payload) \in Seq(Nat)
                /\ Len(Signed(Local, Target, type, payload)) = 8 + Len(payload)
            BY Fields, SignedLength, Zenon
          <5> QED
            BY <4>1, <5>1, Zenon
        <4>3. Start(m, Len(m), type, sum, Big(id), Big(seq), payload)
          BY <3>3, <4>1, Fields, StartOfSigned, Zenon
        <4> QED
          BY <4>2, <4>3
      <3>5. PICK k \in 8 .. Len(m) : q = SubSeq(m, 1, k)
        BY <2>2, <3>2, Zenon DEF Quotes
      <3>6. Start(q, k, type, sum, Big(id), Big(seq), payload)
        <4>1. \A l \in 8 .. Len(m) :
                  Start(SubSeq(m, 1, l), l, type, sum, Big(id), Big(seq), payload)
          BY <3>2, <3>3, Fields, StartOfSigned, Zenon
        <4> QED
          BY <3>5, <4>1, Zenon
      <3>7. Len(q) >= 8 /\ Len(Rest(q)) <= Len(payload)
        <4>1. Len(q) = k /\ Len(Rest(q)) = k - 8
          BY <3>6, Zenon DEF Start
        <4>2. Len(payload) \in Nat /\ k \in 8 .. 8 + Len(payload)
          BY <3>4, <3>5, Fields
        <4> QED
          BY <4>1, <4>2
      <3>8. SameChecksum(q)
        BY <3>2, <3>4, <3>6, Zenon DEF SameChecksum, Start
      <3>9. Rest(q) = SubSeq(payload, 1, Len(Rest(q)))
        BY <3>6, Zenon DEF Start
      <3> QED
        BY <3>1, <3>6, <3>7, <3>8, <3>9, Zenon DEF AcceptsQuote, Matches, Start
    <2> QED
      BY <2>1, <2>2, Zenon DEF OwnAnswersAccepted
  <1> QED
    BY <1>1, CodecTyped, PTL

\* A reply damaged in one byte, whichever it is, is not accepted.
THEOREM DamageTheorem == Spec => []DamageIsSeen
  <1>1. CodecType => DamageIsSeen
    <2> SUFFICES ASSUME CodecType, NEW j \in 1 .. Len(Reply), NEW b \in Byte \ {Reply[j]}
                 PROVE  ~AcceptsReply(Target, [Reply EXCEPT ![j] = b])
      BY Zenon DEF DamageIsSeen
    <2>1. PICK type \in Byte : type = IF v6 THEN ReplyV6 ELSE ReplyV4
      BY Fields, Zenon
    <2>2. PICK m : m = Signed(Target, Local, type, payload) /\ m = Reply
      BY <2>1, Zenon DEF Reply
    <2>3. m \in Seq(Nat) /\ \A k \in 1 .. Len(m) : m[k] \in Byte
      BY <2>2, Fields, SignedBytes, Zenon DEF CodecType
    <2>4. ChecksumBetween(Target, Local, m) = 0
      <3>1. ChecksumBetween(Target, Local, Signed(Target, Local, type, payload)) = 0
        BY Fields, SignedFacts, Zenon
      <3> QED
        BY <2>2, <3>1, Zenon
    <2>5. j \in 1 .. Len(m) /\ b \in Byte /\ b # m[j] /\ m[j] \in Byte /\ b \in Nat
      BY <2>2, <2>3, BytesAssumption DEF Byte
    <2>6. PICK n : n = [m EXCEPT ![j] = b]
      OBVIOUS
    <2>7. n \in Seq(Nat) /\ Differ(m, n, j) /\ n[j] = b
      <3>1. m \in Seq(Nat) /\ j \in 1 .. Len(m) /\ b \in Nat
        BY <2>3, <2>5, Zenon
      <3> QED
        BY <2>6, <3>1, PutAt, Zenon
    <2>8. Local \in Nat /\ Target \in Nat
      BY Fields, BytesAssumption DEF Word
    <2>9. ChecksumBetween(Target, Local, m) # ChecksumBetween(Target, Local, n)
      BY <2>3, <2>5, <2>7, <2>8, DamageChangesChecksum, Zenon
    <2>10. ChecksumBetween(Target, Local, n) # 0
      BY <2>4, <2>9, Zenon
    <2> QED
      BY <2>2, <2>6, <2>10, Zenon DEF AcceptsReply, Verifies
  <1> QED
    BY <1>1, CodecTyped, PTL

\* The quotes of a request that differs in one payload byte are refused.
THEOREM ToldApartTheorem == Spec => []QuotesAreToldApart
  <1>1. CodecType => QuotesAreToldApart
    <2> SUFFICES ASSUME CodecType,
                        NEW j \in 1 .. Len(payload), NEW b \in Byte \ {payload[j]},
                        NEW q \in Quotes(Echo([payload EXCEPT ![j] = b]))
                 PROVE  ~AcceptsQuote(q)
      BY Zenon DEF QuotesAreToldApart
    <2>1. PICK type \in Byte : type = IF v6 THEN RequestV6 ELSE RequestV4
      BY Fields, Zenon
    <2>2. PICK other : other = [payload EXCEPT ![j] = b]
      OBVIOUS
    <2>3. b \in Nat /\ b \in Byte /\ b # payload[j] /\ payload[j] \in Byte
      BY BytesAssumption DEF Byte, CodecType
    <2>4. other \in Seq(Nat) /\ Differ(payload, other, j) /\ other[j] = b
      BY <2>2, <2>3, Fields, PutAt, Zenon
    <2>5. PICK m : m = Signed(Local, Target, type, payload) /\ m = Echo(payload)
      BY <2>1, Zenon DEF Echo
    <2>6. PICK n : n = Signed(Local, Target, type, other) /\ n = Echo(other)
      BY <2>1, Zenon DEF Echo
    <2>7. PICK c \in Word, e \in Word : /\ c = Mark(Local, Target, type, payload)
                                        /\ e = Mark(Local, Target, type, other)
      BY <2>4, Fields, MarkType, Zenon
    <2>8. SubSeq(m, 3, 4) = Big(c)
      <3>1. Start(m, Len(m), type, Big(c), Big(id), Big(seq), payload)
        BY <2>5, <2>7, Fields, StartOfSigned, Zenon
      <3> QED
        BY <3>1, Zenon DEF Start
    <2>9. SubSeq(q, 3, 4) = Big(e)
      <3>1. \A k \in 8 .. Len(n) :
                Start(SubSeq(n, 1, k), k, type, Big(e), Big(id), Big(seq), other)
        BY <2>4, <2>6, <2>7, Fields, StartOfSigned, Zenon
      <3>2. PICK k \in 8 .. Len(n) : q = SubSeq(n, 1, k)
        BY <2>2, <2>6, Zenon DEF Quotes
      <3> QED
        BY <3>1, <3>2, Zenon DEF Start
    <2>10. c # e
      BY <2>3, <2>4, <2>7, Fields, MarksDiffer, Zenon
    <2>11. Big(c) # Big(e)
      BY <2>10, BigIsInjective, Zenon
    <2> QED
      BY <2>5, <2>8, <2>9, <2>11, Zenon DEF AcceptsQuote, SameChecksum
  <1> QED
    BY <1>1, CodecTyped, PTL

\* The sum of u32 in checksum does not overflow, whatever message of 16-bit length is
\* sent or received: the pseudo-header and the message have too few words for that.
THEOREM SumFits ==
    ASSUME Base >= 4, NEW source \in Word, NEW target \in Word,
           NEW m \in Seq(Byte), Len(m) \in Word
    PROVE  Sum(Covered(source, target, m)) < (Base * Base) * (Base * Base)
  <1> USE BytesAssumption
  <1>1. ASSUME NEW a \in Word PROVE Big(a) \in Seq(Byte)
    <2>1. PICK q \in Byte, r \in Byte : Big(a) = <<q, r>>
      BY BigFacts, Zenon
    <2> QED
      BY <2>1
  <1>2. PICK h : h = PseudoHeader(source, target, Len(m))
    OBVIOUS
  <1>3. h \in Seq(Byte) /\ Len(h) = 12
    <2>1. Len(h) = 12
      BY <1>2, PseudoHeaderType DEF Word
    <2>2. Big(source) \in Seq(Byte) /\ Big(target) \in Seq(Byte) /\ Big(Len(m)) \in Seq(Byte)
      BY <1>1
    <2>3. <<0, 0>> \in Seq(Byte) /\ <<0, 0, 0, 58 % Base>> \in Seq(Byte)
      BY DEF Byte
    <2>4. Big(source) \o Big(target) \in Seq(Byte)
      BY <2>2
    <2>5. Big(source) \o Big(target) \o <<0, 0>> \in Seq(Byte)
      BY <2>3, <2>4
    <2>6. Big(source) \o Big(target) \o <<0, 0>> \o Big(Len(m)) \in Seq(Byte)
      BY <2>2, <2>5
    <2>7. h \in Seq(Byte)
      BY <1>2, <2>3, <2>6 DEF PseudoHeader
    <2> QED
      BY <2>1, <2>7
  <1>4. PICK x \in Seq(Byte) : x = Covered(source, target, m) /\ Len(x) <= 12 + Len(m)
    <2>1. h \o m \in Seq(Byte)
      BY <1>3, ConcatProperties, Zenon
    <2>2. Len(h \o m) = Len(h) + Len(m)
      BY <1>3, ConcatProperties, Zenon
    <2>3. CASE v6
      <3>1. Covered(source, target, m) = h \o m
        BY <1>2, <2>3, Zenon DEF Covered
      <3>2. PICK x \in Seq(Byte) : x = h \o m /\ Len(x) = Len(h) + Len(m)
        BY <2>1, <2>2, Zenon
      <3>3. Len(x) <= 12 + Len(m)
        BY <1>3, <3>2
      <3> QED
        BY <3>1, <3>2, <3>3, Zenon
    <2>4. CASE ~v6
      BY <2>4 DEF Covered
    <2> QED
      BY <2>3, <2>4
  <1>5. PICK b \in Nat : b = Base * Base /\ b >= 16
    <2>1. Base * Base \in Nat /\ Base * Base >= 4 * Base
      OBVIOUS
    <2> QED
      BY <2>1
  <1>6. Words(x) \in Nat /\ Words(x) <= b
    <2>1. Len(m) <= b - 1
      BY <1>5 DEF Word
    <2>2. Words(x) = (Len(x) + 1) \div 2 /\ Len(x) \in Nat
      BY DEF Words
    <2> QED
      BY <1>4, <1>5, <2>1, <2>2
  <1>7. Words(x) * (b - 1) < b * b
    <2>1. Words(x) * (b - 1) <= b * (b - 1)
      BY <1>5, <1>6
    <2> QED
      BY <1>5, <1>6, <2>1
  <1>8. Sum(x) \in Nat /\ Sum(x) <= Words(x) * (b - 1)
    BY <1>5, SumBound DEF Modulus
  <1> QED
    BY <1>4, <1>5, <1>6, <1>7, <1>8

-------------------------------------------------------------------------------
(* IPv4 headers on macOS.                                                    *)

\* Reading a field undoes writing it, in either order of its bytes.
LEMMA ReadBack ==
    ASSUME NEW x \in Nat
    PROVE  FromBig(Big(x)) = x /\ FromNative(Native(x)) = x
  <1>1. PICK q \in Nat, r \in 0 .. Base - 1 :
            x \div Base = q /\ x % Base = r /\ q * Base + r = x
    BY BytesAssumption, DivisionOf
  <1>2. FromBig(Big(x)) = q * Base + r /\ FromNative(Native(x)) = r + q * Base
    BY <1>1 DEF FromBig, Big, FromNative, Native
  <1> QED
    BY <1>1, <1>2, BytesAssumption

\* A field of two bytes.
Field(f) == \E q \in Nat, r \in 0 .. Base - 1 : f = <<q, r>>

LEMMA FieldsSwapBack ==
    ASSUME NEW f, Field(f)
    PROVE  FromBig(f) \in Nat /\ Big(FromBig(f)) = f /\ Swapped(Native(FromBig(f))) = f
  <1>1. PICK q \in Nat, r \in 0 .. Base - 1 : f = <<q, r>>
    BY DEF Field
  <1>2. FromBig(f) = q * Base + r /\ q * Base + r \in Nat
    BY <1>1, BytesAssumption DEF FromBig
  <1>3. Big(FromBig(f)) = f
    BY <1>1, <1>2, BytesAssumption, DivisionIsUnique DEF Big
  <1> QED
    BY <1>2, <1>3, ReadBack DEF Swapped

LEMMA LengthsAreFields == ASSUME NEW x \in Nat PROVE Field(Big(x))
  BY BytesAssumption, DivisionOf DEF Field, Big

LEMMA FragmentsAreFields == ASSUME NEW f \in Fragments PROVE Field(f)
  <1>1. Base \div 4 \in Nat /\ Base \div 8 \in Nat /\ Base \in Nat /\ Base > 1
    BY BytesAssumption
  <1>2. 0 \in 0 .. Base - 1 /\ 1 \in 0 .. Base - 1
    BY <1>1
  <1> QED
    BY <1>1, <1>2 DEF Fragments, Field

\* What a packet is made of.
LEMMA SentFacts ==
    ASSUME NEW p \in Sent
    PROVE  /\ p \in [size : Sizes, header : Delivered, type : Types, quote : Header(Lengths)]
           /\ p.size \in 0 .. Base * Base - 1
           /\ p.header.version = 4 /\ p.header.words \in {5, 6}
           /\ HeaderSize(p.header) \in {20, 24} /\ p.size >= HeaderSize(p.header)
           /\ FromBig(p.header.total) = p.size
           /\ Field(p.header.total) /\ Field(p.header.fragment) /\ Field(p.quote.total)
  <1>1. PICK size \in Sizes, header \in Delivered, type \in Types, quote \in Header(Lengths) :
            p = [size |-> size, header |-> header, type |-> type, quote |-> quote]
    BY Zenon DEF Sent
  <1>2. ASSUME NEW lengths \in SUBSET (0 .. Base * Base - 1), NEW h \in Header(lengths)
        PROVE  h.words \in {4, 5, 6} /\ Field(h.total) /\ Field(h.fragment)
    <2>1. PICK total \in {Big(l) : l \in lengths}, fragment \in Fragments :
               h.total = total /\ h.fragment = fragment /\ h.words \in {4, 5, 6}
      BY <1>2 DEF Header
    <2>2. PICK l \in lengths : total = Big(l)
      BY <2>1
    <2>3. l \in Nat
      BY <2>2, BytesAssumption
    <2> QED
      BY <2>1, <2>2, <2>3, LengthsAreFields, FragmentsAreFields
  <1>3. Sizes \in SUBSET (0 .. Base * Base - 1) /\ Lengths \in SUBSET (0 .. Base * Base - 1)
    BY MacosAssumption DEF Word
  <1>4. FromBig(p.header.total) = p.size /\ p.size >= 4 * p.header.words
    BY DEF Sent
  <1>5. header \in Header(Sizes) /\ header.version = 4 /\ header.words >= 5
    BY DEF Delivered
  <1>6. header.words \in {5, 6}
    BY <1>2, <1>3, <1>5
  <1> QED
    BY <1>1, <1>2, <1>3, <1>4, <1>5, <1>6 DEF HeaderSize, Sent

\* What the kernel may convert the quotes of.
Conversions == {Converted, Converted \cup {4, 5}}

\* WithFields changes these fields, whatever the headers are.
LEMMA FieldsOf ==
    ASSUME NEW size, NEW type, NEW h, NEW k, NEW t, NEW f, NEW r
    PROVE  WithFields([size |-> size, type |-> type, header |-> h, quote |-> k], t, f, r) =
               [size |-> size, type |-> type, header |-> HeaderWith(h, t, f),
                quote |-> [k EXCEPT !.total = r]]
  <1> DEFINE p == [size |-> size, type |-> type, header |-> h, quote |-> k]
  <1>1. WithFields(p, t, f, r) =
            [[p EXCEPT !.header = HeaderWith(@, t, f)] EXCEPT !.quote = [@ EXCEPT !.total = r]]
    BY DEF WithFields
  <1> QED
    BY <1>1

\* A packet with eight bytes behind its header is restored, and so is a quoted IPv4
\* header in an error that could decide.
LEMMA Restored ==
    ASSUME NEW p \in Sent, NEW types \in Conversions, p.size >= HeaderSize(p.header) + 8
    PROVE  LET n == NormalForm(Darwin(p, types))
           IN  /\ n.header = p.header /\ n.size = p.size /\ n.type = p.type
               /\ n.quote.version = p.quote.version
               /\ p.type \in Faults /\ HasQuote(p) /\ p.quote.version = 4 => n.quote = p.quote
  <1> DEFINE d == Darwin(p, types)
             n == NormalForm(d)
             first == HeaderSize(p.header)
  <1>1. /\ first \in {20, 24} /\ p.size \in Nat /\ p.size < Base * Base /\ Base * Base \in Nat
        /\ FromBig(p.header.total) = p.size
    BY SentFacts, BytesAssumption
  <1>2. PICK size \in Sizes, header \in Delivered, type \in Types, quote \in Header(Lengths) :
            p = [size |-> size, header |-> header, type |-> type, quote |-> quote]
    BY Zenon DEF Sent
  <1>h. header \in Header(Sizes)
    BY DEF Delivered
  <1>3. PICK t, f, q :
            /\ d = WithFields(p, t, f, q)
            /\ t = Native(size - first) /\ f = Native(FromBig(header.fragment))
            /\ q = IF type \in types THEN Native(FromBig(quote.total)) ELSE quote.total
    BY <1>1, <1>2 DEF Darwin
  <1> DEFINE h == HeaderWith(header, t, f)
             k == [quote EXCEPT !.total = q]
  <1>4. d = [size |-> size, type |-> type, header |-> h, quote |-> k]
    BY <1>2, <1>3, FieldsOf
  <1>5. /\ h.total = t /\ h.fragment = f /\ h.version = header.version /\ h.words = header.words
        /\ HeaderWith(h, header.total, header.fragment) = header
    BY <1>h DEF Header, HeaderWith
  <1>6. /\ k.total = q /\ k.version = quote.version /\ [k EXCEPT !.total = quote.total] = quote
        /\ \A r : [k EXCEPT !.total = r].version = quote.version
    BY DEF Header
  <1> HIDE DEF h, k
  <1>7. /\ d.header = h /\ d.quote = k /\ d.size = size /\ d.type = type
        /\ HeaderSize(h) = first
        /\ QuotesIpv4(d) <=> QuotesIpv4(p)
    BY <1>2, <1>4, <1>5, <1>6 DEF HeaderSize, QuotesIpv4, HasQuote
  <1>8. FromNative(h.total) = size - first /\ size - first \in Nat
    BY <1>1, <1>2, <1>3, <1>5, SentFacts, ReadBack
  <1>9. Recognized(d)
    BY <1>1, <1>2, <1>5, <1>7, <1>8, SentFacts DEF Recognized
  <1>10. Big(FromNative(h.total) + HeaderSize(h)) = header.total
    <2>1. FromNative(h.total) + HeaderSize(h) = FromBig(header.total)
      BY <1>1, <1>2, <1>7, <1>8
    <2> QED
      BY <1>2, <2>1, SentFacts, FieldsSwapBack
  <1>11. Swapped(h.fragment) = header.fragment
    BY <1>2, <1>3, <1>5, SentFacts, FieldsSwapBack
  <1>12. PICK r : /\ r = IF QuotesIpv4(d) THEN Swapped(k.total) ELSE k.total
                  /\ n = WithFields(d, header.total, header.fragment, r)
    BY <1>7, <1>9, <1>10, <1>11, Zenon DEF NormalForm
  <1>13. n = [size |-> size, type |-> type,
              header |-> HeaderWith(h, header.total, header.fragment),
              quote |-> [k EXCEPT !.total = r]]
    BY <1>4, <1>12, FieldsOf
  <1>14. n = [size |-> size, type |-> type, header |-> header,
              quote |-> [k EXCEPT !.total = r]]
    BY <1>5, <1>13, Zenon
  <1>15. ASSUME type \in Faults, HasQuote(p), quote.version = 4 PROVE r = quote.total
    <2>1. type \in types /\ type \in Errors
      BY <1>15 DEF Conversions, Converted, Faults, Errors
    <2>2. r = Swapped(Native(FromBig(quote.total)))
      BY <1>2, <1>3, <1>6, <1>7, <1>12, <1>15, <2>1 DEF QuotesIpv4
    <2> QED
      BY <1>2, <2>2, SentFacts, FieldsSwapBack
  <1> QED
    <2>1. n.header = p.header /\ n.size = p.size /\ n.type = p.type
      BY <1>2, <1>14
    <2>2. n.quote = [k EXCEPT !.total = r] /\ p.quote = quote /\ p.type = type
      BY <1>2, <1>14
    <2>3. n.quote.version = p.quote.version
      BY <1>6, <2>2, Zenon
    <2>4. p.type \in Faults /\ HasQuote(p) /\ p.quote.version = 4 => n.quote = p.quote
      BY <1>6, <1>15, <2>2, Zenon
    <2> QED
      BY <2>1, <2>3, <2>4

\* A shorter one is refused, whatever its length field has become.
LEMMA TooShort ==
    ASSUME NEW p \in Sent, NEW types \in Conversions, p.size < HeaderSize(p.header) + 8
    PROVE  Message(p) = Nothing /\ Message(NormalForm(Darwin(p, types))) = Nothing
  <1> DEFINE d == Darwin(p, types)
             first == HeaderSize(p.header)
  <1>1. first \in {20, 24} /\ p.size \in Nat /\ FromBig(p.header.total) = p.size
    BY SentFacts
  <1>2. Message(p) = Nothing
    BY <1>1 DEF Message, Ipv4
  <1>3. /\ d.size = p.size /\ HeaderSize(d.header) = first
        /\ d.header.total = Native(p.size - first)
    <2>1. PICK size \in Sizes, header \in Delivered, type \in Types, quote \in Header(Lengths) :
              p = [size |-> size, header |-> header, type |-> type, quote |-> quote]
      BY Zenon DEF Sent
    <2>2. PICK f, q : d = WithFields(p, Native(p.size - first), f, q)
      BY <1>1 DEF Darwin
    <2>3. /\ d.size = size
          /\ d.header = HeaderWith(header, Native(p.size - first), f)
      <3>1. d = [size |-> size, type |-> type,
                 header |-> HeaderWith(header, Native(p.size - first), f),
                 quote |-> [quote EXCEPT !.total = q]]
        BY <2>1, <2>2, FieldsOf
      <3> QED
        BY <3>1
    <2>4. d.header.total = Native(p.size - first) /\ d.header.words = header.words
      BY <2>3 DEF Delivered, Header, HeaderWith
    <2> QED
      BY <2>1, <2>3, <2>4 DEF HeaderSize
  <1>4. NormalForm(d) = d
    BY <1>1, <1>3 DEF NormalForm, Recognized
  <1>5. FromBig(d.header.total) \in Int
    <2>1. p.size - first \in Nat
      BY <1>1, SentFacts
    <2>2. (p.size - first) \div Base \in Nat /\ (p.size - first) % Base \in Nat
      BY <2>1, BytesAssumption, DivisionOf
    <2> QED
      BY <1>3, <2>2, BytesAssumption DEF FromBig, Native
  <1>6. Message(d) = Nothing
    BY <1>1, <1>3, <1>5 DEF Message, Ipv4
  <1> QED
    BY <1>2, <1>4, <1>6

\* A quote that is too short for a header, or not of IPv4, holds no message.
LEMMA UnreadQuote ==
    ASSUME NEW p \in Sent, NEW q, Message(p) # Nothing,
           ~HasQuote(p) \/ q.version # 4
    PROVE  Ipv4(q, Message(p)[2] - Message(p)[1] - 8, TRUE) = Nothing
  <1> DEFINE first == HeaderSize(p.header)
             room == Message(p)[2] - Message(p)[1] - 8
  <1>1. first \in {20, 24} /\ p.size \in Nat /\ FromBig(p.header.total) = p.size
    BY SentFacts
  <1>2. Message(p) = <<first, p.size>>
    BY <1>1 DEF Message, Ipv4
  <1>3. room = p.size - first - 8
    BY <1>2
  <1>4. room < 20 \/ q.version # 4
    BY <1>1, <1>3 DEF HasQuote
  <1> QED
    BY <1>4 DEF Ipv4

\* Where the packet is in its buffer, and what it looks like there.
HeaderInv ==
    /\ wire \in Sent
    /\ stage \in {"sent", "received", "normalized"}
    /\ stage = "received" => \E types \in Conversions : bytes = Darwin(wire, types)
    /\ stage = "normalized" =>
          \E types \in Conversions : bytes = NormalForm(Darwin(wire, types))

\* HeaderInv holds in every reachable state.
THEOREM HeaderInductive == MacosSpec => []HeaderInv
  <1>1. MacosInit => HeaderInv
    BY DEF MacosInit, HeaderInv
  <1>2. ASSUME HeaderInv, [MacosNext]_macosVars PROVE HeaderInv'
    <2>1. CASE Receive
      BY <1>2, <2>1 DEF HeaderInv, Receive, Conversions
    <2>2. CASE Normalize
      BY <1>2, <2>2 DEF HeaderInv, Normalize
    <2>3. CASE UNCHANGED macosVars
      BY <1>2, <2>3 DEF HeaderInv, macosVars
    <2> QED
      BY <1>2, <2>1, <2>2, <2>3 DEF MacosNext
  <1> QED
    BY <1>1, <1>2, PTL DEF MacosSpec

\* Every packet is read on macOS as it was sent, and so is the quote of every error
\* that could decide a probe, whichever quotes the kernel converts.
THEOREM ReadTheorem == MacosSpec => []ReadAsSent
  <1>1. HeaderInv => ReadAsSent
    <2>1. SUFFICES ASSUME HeaderInv, stage = "normalized"
                   PROVE  Message(bytes) = Message(wire) /\ QuotedMessage(bytes) = QuotedMessage(wire)
      BY DEF ReadAsSent
    <2>2. wire \in Sent
      BY <2>1 DEF HeaderInv
    <2>3. PICK types \in Conversions : bytes = NormalForm(Darwin(wire, types))
      BY <2>1 DEF HeaderInv
    <2>4. CASE wire.size >= HeaderSize(wire.header) + 8
      <3>1. /\ bytes.header = wire.header /\ bytes.size = wire.size /\ bytes.type = wire.type
            /\ bytes.quote.version = wire.quote.version
            /\ wire.type \in Faults /\ HasQuote(wire) /\ wire.quote.version = 4 =>
                  bytes.quote = wire.quote
        BY <2>2, <2>3, <2>4, Restored
      <3>2. Message(bytes) = Message(wire)
        BY <3>1 DEF Message
      <3>3. CASE wire.type \in Faults /\ HasQuote(wire) /\ wire.quote.version = 4
        BY <3>1, <3>2, <3>3 DEF QuotedMessage
      <3>4. CASE wire.type \notin Faults \/ Message(wire) = Nothing
        BY <3>1, <3>2, <3>4 DEF QuotedMessage
      <3>5. CASE Message(wire) # Nothing /\ (~HasQuote(wire) \/ wire.quote.version # 4)
        <4>1. Ipv4(wire.quote, Message(wire)[2] - Message(wire)[1] - 8, TRUE) = Nothing
          BY <2>2, <3>5, UnreadQuote
        <4>2. Ipv4(bytes.quote, Message(wire)[2] - Message(wire)[1] - 8, TRUE) = Nothing
          BY <2>2, <3>1, <3>5, UnreadQuote
        <4> QED
          BY <3>1, <3>2, <4>1, <4>2, Zenon DEF QuotedMessage
      <3> QED
        BY <3>2, <3>3, <3>4, <3>5
    <2>5. CASE wire.size < HeaderSize(wire.header) + 8
      BY <2>2, <2>3, <2>5, TooShort DEF QuotedMessage
    <2>6. wire.size \in Nat /\ HeaderSize(wire.header) \in Nat
      BY <2>2, SentFacts
    <2> QED
      BY <2>4, <2>5, <2>6
  <1> QED
    BY <1>1, HeaderInductive, PTL
===============================================================================
