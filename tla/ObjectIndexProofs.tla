-------------------------- MODULE ObjectIndexProofs --------------------------
(***************************************************************************)
(* Proofs about ObjectIndex.                                               *)
(***************************************************************************)
EXTENDS ObjectIndexInductive, SequenceTheorems, WellFoundedInduction, TLAPS

-----------------------------------------------------------------------------
(* Sequences of sequences.                                                  *)

\* Induction, for a set of numbers: one that has 0 and with n also n + 1 has all.
LEMMA AllNumbers ==
  ASSUME NEW D, 0 \in D, \A n \in Nat : n \in D => n + 1 \in D
  PROVE  Nat \subseteq D
<1> DEFINE R == OpToRel(<, Nat)
           T == Nat \ D
<1>1. SUFFICES ASSUME T # {} PROVE FALSE
  OBVIOUS
<1>2. IsWellFoundedOn(R, Nat)
  BY NatLessThanWellFounded
<1>3. PICK x \in T : \A y \in T : <<y, x>> \notin R
  <2> HIDE DEF R, T
  <2>1. T \subseteq Nat
    BY DEF T
  <2>2. QED
    BY <1>1, <1>2, <2>1, WFMin
<1>4. x \in Nat /\ x # 0 /\ x - 1 \in Nat /\ x - 1 \notin D
  OBVIOUS
<1>5. x - 1 \in T /\ <<x - 1, x>> \in R
  BY <1>4 DEF OpToRel
<1>6. QED
  BY <1>3, <1>5

\* FlattenSeq joins the sequences one after the other.
Joins(f, ss) ==
  \A i \in 1 .. Len(ss) : f[i] = IF i = 1 THEN ss[i] ELSE f[i - 1] \o ss[i]

\* The recursive function of FlattenSeq has values.
LEMMA FlattenFacts ==
  ASSUME NEW S, NEW ss \in Seq(Seq(S)), ss # <<>>
  PROVE  \E f \in [1 .. Len(ss) -> Seq(S)] :
           Joins(f, ss) /\ FlattenSeq(ss) = f[Len(ss)]
<1> DEFINE n == Len(ss)
           Def(f) == f = [i \in 1 .. n |-> IF i = 1 THEN ss[i] ELSE f[i - 1] \o ss[i]]
           Upto(f, m) == \A i \in 1 .. m : f[i] = IF i = 1 THEN ss[i] ELSE f[i - 1] \o ss[i]
           Has(m) == \E f \in [1 .. m -> Seq(S)] : Upto(f, m)
           D == {m \in Nat : m <= n => Has(m)}
           g == CHOOSE f : Def(f)
           E == {m \in Nat : m \in 1 .. n => g[m] \in Seq(S)}
<1>1. n \in Nat \ {0} /\ \A i \in 1 .. n : ss[i] \in Seq(S)
  BY EmptySeq, LenProperties, ElementOfSeq
<1> HIDE DEF n
<1>2. 0 \in D
  <2>1. [i \in 1 .. 0 |-> <<>>] \in [1 .. 0 -> Seq(S)] /\ Upto([i \in 1 .. 0 |-> <<>>], 0)
    OBVIOUS
  <2>2. QED
    BY <2>1
<1>3. ASSUME NEW m \in Nat, m \in D PROVE m + 1 \in D
  <2> SUFFICES ASSUME m + 1 <= n PROVE Has(m + 1)
    <3> HIDE DEF Has
    <3>1. QED
      BY <1>3
  <2>0. m \in 0 .. n - 1 /\ Has(m)
    <3> HIDE DEF Has
    <3>1. QED
      BY <1>1, <1>3
  <2>1. PICK f \in [1 .. m -> Seq(S)] : Upto(f, m)
    BY <2>0
  <2> DEFINE v == IF m = 0 THEN ss[1] ELSE f[m] \o ss[m + 1]
             h == [i \in 1 .. m + 1 |-> IF i = m + 1 THEN v ELSE f[i]]
  <2>2. v \in Seq(S)
    <3>1. CASE m = 0
      BY <3>1, <1>1
    <3>2. CASE m # 0
      <4>1. f[m] \in Seq(S) /\ ss[m + 1] \in Seq(S)
        BY <3>2, <1>1
      <4>2. QED
        BY <3>2, <4>1, ConcatProperties
    <3>3. QED
      BY <3>1, <3>2
  <2>3. h \in [1 .. m + 1 -> Seq(S)]
    BY <2>2
  <2>4. ASSUME NEW i \in 1 .. m + 1
        PROVE  h[i] = IF i = 1 THEN ss[i] ELSE h[i - 1] \o ss[i]
    <3>1. CASE i = m + 1
      <4>1. CASE m = 0
        BY <3>1, <4>1
      <4>2. CASE m # 0
        <5>1. v = f[m] \o ss[i]
          <6>1. v = f[m] \o ss[m + 1]
            BY <4>2
          <6>2. QED
            BY <3>1, <6>1
        <5>5. i # 1 /\ i - 1 = m
          BY <3>1, <4>2
        <5>4. h[i] = v
          BY <3>1
        <5>2. h[m] = f[m]
          BY <4>2
        <5>3. QED
          BY <5>1, <5>2, <5>4, <5>5
      <4>3. QED
        BY <4>1, <4>2
    <3>2. CASE i # m + 1
      <4>1. i \in 1 .. m
        BY <3>2
      <4>2. h[i] = f[i]
        <5> HIDE DEF v
        <5>1. QED
          BY <3>2
      <4>3. i # 1 => i - 1 \in 1 .. m /\ h[i - 1] = f[i - 1]
        BY <4>1
      <4>4. QED
        BY <2>1, <4>1, <4>2, <4>3
    <3>3. QED
      BY <3>1, <3>2
  <2>5. QED
    BY <2>3, <2>4
<1>4. n \in D
  <2> HIDE DEF D
  <2>1. QED
    BY <1>1, <1>2, <1>3, AllNumbers
<1>5. \E f : Def(f)
  <2>0. Has(n)
    <3> HIDE DEF Has
    <3>1. QED
      BY <1>1, <1>4
  <2>1. PICK f \in [1 .. n -> Seq(S)] : Upto(f, n)
    BY <2>0
  <2>2. f = [i \in 1 .. n |-> f[i]]
    OBVIOUS
  <2>3. Def(f)
    BY <2>1, <2>2
  <2>4. QED
    BY <2>3
<1>6. Def(g)
  BY <1>5
<1> HIDE DEF g
<1>7. \A i \in 1 .. n : g[i] = IF i = 1 THEN ss[i] ELSE g[i - 1] \o ss[i]
  BY <1>6
<1>8. 0 \in E
  OBVIOUS
<1>9. ASSUME NEW m \in Nat, m \in E PROVE m + 1 \in E
  <2>0. SUFFICES m + 1 \in 1 .. n => g[m + 1] \in Seq(S)
    OBVIOUS
  <2>1. CASE m = 0
    BY <1>1, <1>7, <2>1
  <2>2. CASE m \in 1 .. n - 1
    <3>1. g[m] \in Seq(S) /\ m + 1 \in 1 .. n /\ m + 1 # 1 /\ (m + 1) - 1 = m
      BY <1>1, <1>9, <2>2
    <3>2. g[m + 1] = g[m] \o ss[m + 1] /\ ss[m + 1] \in Seq(S)
      BY <1>1, <1>7, <3>1
    <3>3. g[m] \o ss[m + 1] \in Seq(S)
      BY <3>1, <3>2, ConcatProperties
    <3>4. QED
      BY <3>2, <3>3
  <2>3. CASE m \notin 0 .. n - 1
    BY <1>1, <2>3
  <2>4. m = 0 \/ m \in 1 .. n - 1 \/ m \notin 0 .. n - 1
    BY <1>1
  <2>5. QED
    BY <2>1, <2>2, <2>3, <2>4
<1>10. \A i \in 1 .. n : g[i] \in Seq(S)
  <2> HIDE DEF E
  <2>1. Nat \subseteq E
    BY <1>8, <1>9, AllNumbers
  <2>2. QED
    BY <1>1, <2>1 DEF E
<1>11. g \in [1 .. n -> Seq(S)]
  BY <1>6, <1>10
<1>12. FlattenSeq(ss) = g[n]
  BY <1>1 DEF FlattenSeq, g, n
<1>13. QED
  BY <1>7, <1>11, <1>12 DEF Joins, n

\* What is in the sequences is in the sequence they are joined to.
LEMMA FlattenRange ==
  ASSUME NEW S, NEW ss \in Seq(Seq(S))
  PROVE  /\ FlattenSeq(ss) \in Seq(S)
         /\ Range(FlattenSeq(ss)) = UNION {Range(ss[i]) : i \in 1 .. Len(ss)}
<1>1. CASE ss = <<>>
  <2>1. Len(ss) = 0 /\ FlattenSeq(ss) = <<>>
    BY <1>1 DEF FlattenSeq
  <2>2. FlattenSeq(ss) \in Seq(S) /\ Range(FlattenSeq(ss)) = {}
    BY <2>1 DEF Range
  <2>3. QED
    BY <2>1, <2>2
<1>2. CASE ss # <<>>
  <2>1. PICK f \in [1 .. Len(ss) -> Seq(S)] : Joins(f, ss) /\ FlattenSeq(ss) = f[Len(ss)]
    BY <1>2, FlattenFacts
  <2>2. Len(ss) \in Nat \ {0} /\ \A i \in 1 .. Len(ss) : ss[i] \in Seq(S)
    BY <1>2, EmptySeq, LenProperties, ElementOfSeq
  <2> DEFINE n == Len(ss)
             Holds(m) == Range(f[m]) = UNION {Range(ss[i]) : i \in 1 .. m}
             D == {m \in Nat : m \in 1 .. n => Holds(m)}
  <2>3. 0 \in D
    OBVIOUS
  <2>4. ASSUME NEW m \in Nat, m \in D PROVE m + 1 \in D
    <3> SUFFICES ASSUME m + 1 \in 1 .. n PROVE Holds(m + 1)
      <4> HIDE DEF Holds
      <4>1. QED
        OBVIOUS
    <3>1. CASE m = 0
      <4>1. f[1] = ss[1]
        <5>1. 1 \in 1 .. Len(ss)
          BY <2>2
        <5>2. f[1] = IF 1 = 1 THEN ss[1] ELSE f[1 - 1] \o ss[1]
          BY <2>1, <5>1, Zenon DEF Joins
        <5>3. QED
          BY <5>2
      <4>2. 1 .. m + 1 = {1} /\ m + 1 = 1
        BY <3>1
      <4>3. QED
        BY <4>1, <4>2
    <3>2. CASE m # 0
      <4>1. m \in 1 .. n
        BY <3>2, <2>2
      <4>2. Holds(m)
        <5> HIDE DEF Holds
        <5>1. QED
          BY <4>1, <2>4
      <4>3. f[m + 1] = f[m] \o ss[m + 1] /\ f[m] \in Seq(S) /\ ss[m + 1] \in Seq(S)
        <5>1. m + 1 # 1 /\ (m + 1) - 1 = m
          BY <3>2
        <5>2. QED
          BY <2>1, <2>2, <4>1, <5>1 DEF Joins
      <4>4. Range(f[m + 1]) = Range(f[m]) \cup Range(ss[m + 1])
        BY <4>3, RangeConcatenation
      <4>5. 1 .. m + 1 = (1 .. m) \cup {m + 1}
        OBVIOUS
      <4>6. QED
        BY <4>2, <4>4, <4>5
    <3>3. QED
      BY <3>1, <3>2
  <2>5. n \in D
    <3> HIDE DEF D
    <3>1. QED
      BY <2>2, <2>3, <2>4, AllNumbers
  <2>6. Holds(n)
    <3> HIDE DEF Holds
    <3>1. QED
      BY <2>2, <2>5
  <2>7. f[n] \in Seq(S)
    BY <2>2
  <2>8. QED
    BY <2>1, <2>6, <2>7
<1>3. QED
  BY <1>1, <1>2

-----------------------------------------------------------------------------
(* Groups.                                                                  *)

\* Multiplication, for the provers.
LEMMA Times ==
  ASSUME NEW n \in Nat \ {0}, NEW i \in Int, NEW k \in Int
  PROVE  /\ i <= k => i * n <= k * n
         /\ i < k => i * n < k * n
         /\ i * n < k * n => i < k
         /\ i * n \in Int /\ k * n \in Int /\ (i - 1) * n = i * n - n
  OBVIOUS

\* gs are slices of n, the last one of what is left.
Enough(s, n, gs) == Len(gs) * n >= Len(s) /\ (Len(gs) - 1) * n < Len(s)

Slice(s, n, i) == SubSeq(s, (i - 1) * n + 1, IF i * n < Len(s) THEN i * n ELSE Len(s))

Sliced(s, n, gs, i) ==
  /\ (i - 1) * n < Len(s) /\ (i < Len(gs) => i * n < Len(s))
  /\ Len(gs[i]) = (IF i * n < Len(s) THEN i * n ELSE Len(s)) - (i - 1) * n
  /\ Len(gs[i]) \in 1 .. n
  /\ \A j \in 1 .. Len(gs[i]) :
       (i - 1) * n + j \in 1 .. Len(s) /\ gs[i][j] = s[(i - 1) * n + j]

\* What Groups consists of.
LEMMA GroupsFacts ==
  ASSUME NEW S, NEW s \in Seq(S), NEW n \in Nat \ {0}
  PROVE  LET gs == Groups(s, n)
         IN  /\ gs \in Seq(Seq(S)) /\ Len(gs) \in Nat /\ DOMAIN gs = 1 .. Len(gs)
             /\ Enough(s, n, gs)
             /\ \A i \in 1 .. Len(gs) :
                  gs[i] \in Seq(S) /\ gs[i] = Slice(s, n, i) /\ Sliced(s, n, gs, i)
<1> DEFINE gs == Groups(s, n)
           k == (Len(s) + n - 1) \div n
           lo(i) == (i - 1) * n + 1
           hi(i) == IF i * n < Len(s) THEN i * n ELSE Len(s)
<1>1. Len(s) \in Nat /\ \A i \in 1 .. Len(s) : s[i] \in S
  BY LenProperties, ElementOfSeq
<1>2. k \in Nat /\ k * n <= Len(s) + n - 1 /\ Len(s) + n - 1 < (k + 1) * n
  BY <1>1
<1>3. (k + 1) * n = k * n + n /\ (k - 1) * n = k * n - n
  <2> HIDE DEF k
  <2>1. QED
    BY <1>2
<1>4. k * n >= Len(s) /\ (k - 1) * n < Len(s)
  <2> HIDE DEF k
  <2>1. QED
    BY <1>1, <1>2, <1>3
<1>5. gs = [i \in 1 .. k |-> SubSeq(s, lo(i), hi(i))]
  BY DEF Groups
<1> HIDE DEF k, gs
<1>6. ASSUME NEW i \in 1 .. k
      PROVE  /\ (i - 1) * n \in Nat /\ i * n = (i - 1) * n + n /\ (i - 1) * n < Len(s)
             /\ i < k => i * n < Len(s)
             /\ lo(i) \in 1 .. Len(s) /\ hi(i) \in lo(i) .. Len(s)
  <2>1. /\ i * n <= k * n /\ i * n \in Int /\ (i - 1) * n = i * n - n
        /\ (i - 1) * n <= (k - 1) * n /\ 0 * n <= (i - 1) * n
        /\ i <= k - 1 => i * n <= (k - 1) * n
    BY <1>2, Times
  <2>2. QED
    BY <1>1, <1>2, <1>4, <2>1
<1>7. ASSUME NEW i \in 1 .. k
      PROVE  /\ gs[i] \in Seq(S) /\ gs[i] = SubSeq(s, lo(i), hi(i))
             /\ Len(gs[i]) = hi(i) - (i - 1) * n
             /\ Len(gs[i]) \in 1 .. n
             /\ \A j \in 1 .. Len(gs[i]) :
                  (i - 1) * n + j \in 1 .. Len(s) /\ gs[i][j] = s[(i - 1) * n + j]
  <2> DEFINE a == lo(i)
             b == hi(i)
  <2>1. gs[i] = SubSeq(s, a, b)
    BY <1>5
  <2>2. /\ a \in Int /\ b \in Int /\ a <= b /\ a = (i - 1) * n + 1 /\ (i - 1) * n \in Nat
        /\ b <= (i - 1) * n + n /\ b <= Len(s) /\ \A j \in a .. b : j \in 1 .. Len(s)
    BY <1>1, <1>6
  <2> HIDE DEF a, b
  <2>3. /\ SubSeq(s, a, b) \in Seq(S) /\ Len(SubSeq(s, a, b)) = b - a + 1
        /\ \A j \in 1 .. b - a + 1 : SubSeq(s, a, b)[j] = s[a + j - 1]
    BY <1>1, <2>2, SubSeqProperties
  <2>4. Len(gs[i]) = b - (i - 1) * n /\ Len(gs[i]) \in 1 .. n
    BY <2>1, <2>2, <2>3
  <2>5. ASSUME NEW j \in 1 .. Len(gs[i])
        PROVE  (i - 1) * n + j \in 1 .. Len(s) /\ gs[i][j] = s[(i - 1) * n + j]
    <3>1. j \in 1 .. b - a + 1 /\ a + j - 1 = (i - 1) * n + j /\ a + j - 1 \in a .. b
      BY <1>1, <2>2, <2>4
    <3>2. QED
      BY <2>1, <2>2, <2>3, <3>1
  <2>6. QED
    BY <2>1, <2>3, <2>4, <2>5 DEF a, b
<1>8. gs \in Seq(Seq(S)) /\ Len(gs) = k /\ DOMAIN gs = 1 .. k
  BY <1>2, <1>5, <1>7
<1>9. Enough(s, n, gs)
  BY <1>4, <1>8 DEF Enough
<1>10. ASSUME NEW i \in 1 .. k
       PROVE  gs[i] \in Seq(S) /\ gs[i] = Slice(s, n, i) /\ Sliced(s, n, gs, i)
  BY <1>6, <1>7, <1>8 DEF Slice, Sliced
<1>11. QED
  BY <1>2, <1>8, <1>9, <1>10 DEF gs

\* How many groups there are.
LEMMA GroupsLen ==
  ASSUME NEW S, NEW s \in Seq(S), NEW n \in Nat \ {0}
  PROVE  /\ s # <<>> => Len(Groups(s, n)) > 0
         /\ s = <<>> => Groups(s, n) = <<>>
         /\ \A m \in Nat : Len(s) <= m * n => Len(Groups(s, n)) <= m
<1> DEFINE gs == Groups(s, n)
           k == Len(gs)
<1>1. gs \in Seq(Seq(S)) /\ k \in Nat /\ Enough(s, n, gs)
  BY GroupsFacts
<1>2. Len(s) \in Nat /\ (s = <<>> <=> Len(s) = 0)
  BY LenProperties, EmptySeq
<1> HIDE DEF gs
<1>3. k * n >= Len(s) /\ (k - 1) * n < Len(s) /\ k * n \in Int /\ (k - 1) * n \in Int
  <2>1. k \in Int /\ k - 1 \in Int
    BY <1>1
  <2>2. QED
    BY <1>1, <2>1, Times DEF Enough
<1>4. s # <<>> => k > 0
  <2>1. k = 0 => k * n = 0
    BY <1>1
  <2>2. QED
    BY <1>1, <1>2, <1>3, <2>1
<1>5. s = <<>> => gs = <<>>
  <2> SUFFICES ASSUME s = <<>> PROVE k = 0
    BY <1>1, EmptySeq
  <2>1. (k - 1) * n < 0 * n
    BY <1>2, <1>3
  <2>2. k - 1 < 0
    BY <1>1, <2>1, Times
  <2>3. QED
    BY <1>1, <2>2
<1>6. ASSUME NEW m \in Nat, Len(s) <= m * n PROVE k <= m
  <2>1. m * n \in Int
    BY Times
  <2>2. (k - 1) * n < m * n
    BY <1>2, <1>3, <1>6, <2>1
  <2>3. k - 1 < m
    BY <1>1, <2>2, Times
  <2>4. QED
    BY <1>1, <2>3
<1>7. QED
  BY <1>4, <1>5, <1>6 DEF gs

\* The groups of a sequence joined again are the sequence.
LEMMA GroupsJoin ==
  ASSUME NEW S, NEW s \in Seq(S), NEW n \in Nat \ {0}
  PROVE  FlattenSeq(Groups(s, n)) = s
<1> DEFINE gs == Groups(s, n)
           k == Len(gs)
           hi(m) == IF m * n < Len(s) THEN m * n ELSE Len(s)
<1>1. /\ gs \in Seq(Seq(S)) /\ k \in Nat /\ Enough(s, n, gs)
      /\ \A i \in 1 .. k : gs[i] = Slice(s, n, i) /\ Sliced(s, n, gs, i)
  BY GroupsFacts
<1>0. Len(s) \in Nat /\ \A i \in 1 .. Len(s) : s[i] \in S
  BY LenProperties, ElementOfSeq
<1> HIDE DEF gs
<1>2. CASE s = <<>>
  <2>1. gs = <<>>
    BY <1>2, GroupsLen DEF gs
  <2>2. QED
    BY <1>2, <2>1 DEF FlattenSeq, gs
<1>3. CASE s # <<>>
  <2>1. gs # <<>> /\ k \in Nat \ {0}
    BY <1>1, <1>3, GroupsLen, EmptySeq DEF gs
  <2>2. PICK f \in [1 .. k -> Seq(S)] : Joins(f, gs) /\ FlattenSeq(gs) = f[k]
    BY <1>1, <2>1, FlattenFacts
  <2> DEFINE Holds(m) == f[m] = SubSeq(s, 1, hi(m))
             D == {m \in Nat : m \in 1 .. k => Holds(m)}
  <2>3. 0 \in D
    OBVIOUS
  <2>4. ASSUME NEW m \in Nat, m \in D PROVE m + 1 \in D
    <3> SUFFICES ASSUME m + 1 \in 1 .. k PROVE Holds(m + 1)
      <4> HIDE DEF Holds
      <4>1. QED
        OBVIOUS
    <3>0. gs[m + 1] = SubSeq(s, m * n + 1, hi(m + 1))
      <4>1. ((m + 1) - 1) * n = m * n
        OBVIOUS
      <4>2. gs[m + 1] = Slice(s, n, m + 1)
        BY <1>1
      <4>3. Slice(s, n, m + 1) = SubSeq(s, ((m + 1) - 1) * n + 1, hi(m + 1))
        BY Zenon DEF Slice
      <4> HIDE DEF hi
      <4>4. QED
        BY <4>1, <4>2, <4>3
    <3>1. CASE m = 0
      <4>1. f[1] = IF 1 = 1 THEN gs[1] ELSE f[1 - 1] \o gs[1]
        <5>1. 1 \in 1 .. Len(gs)
          BY <2>1
        <5>2. QED
          BY <2>2, <5>1, Zenon DEF Joins
      <4>2. m * n + 1 = 1 /\ m + 1 = 1
        BY <3>1
      <4> HIDE DEF hi
      <4>3. QED
        BY <3>0, <4>1, <4>2
    <3>2. CASE m # 0
      <4>1. m \in 1 .. k /\ m < k
        BY <3>2, <1>1
      <4>2. Holds(m)
        <5> HIDE DEF Holds
        <5>1. QED
          BY <4>1, <2>4
      <4>3. m * n < Len(s)
        <5>1. Sliced(s, n, gs, m)
          BY <1>1, <4>1
        <5>2. QED
          BY <4>1, <5>1 DEF Sliced
      <4>4. m * n \in Nat /\ (m + 1) * n = m * n + n
        OBVIOUS
      <4>5. f[m] = SubSeq(s, 1, m * n)
        BY <4>2, <4>3
      <4>6. f[m + 1] = f[m] \o gs[m + 1]
        <5>1. m + 1 # 1 /\ (m + 1) - 1 = m
          BY <3>2
        <5>2. QED
          BY <2>2, <5>1 DEF Joins
      <4>7. hi(m + 1) \in m * n .. Len(s)
        BY <1>0, <4>3, <4>4
      <4> DEFINE x == m * n
                 y == hi(m + 1)
      <4>8. 1 \in 1 .. Len(s) + 1 /\ x \in 1 - 1 .. Len(s) /\ y \in x .. Len(s)
        BY <1>0, <4>3, <4>4, <4>7
      <4> HIDE DEF x, y
      <4>9. SubSeq(s, 1, x) \o SubSeq(s, x + 1, y) = SubSeq(s, 1, y)
        BY <4>8, ConcatAdjacentSubSeq
      <4>10. f[m + 1] = SubSeq(s, 1, x) \o SubSeq(s, x + 1, y)
        BY <3>0, <4>5, <4>6 DEF x, y
      <4>11. QED
        BY <4>9, <4>10 DEF y
    <3>3. QED
      BY <3>1, <3>2
  <2>5. k \in D
    <3> HIDE DEF D
    <3>1. QED
      BY <2>1, <2>3, <2>4, AllNumbers
  <2>6. Holds(k)
    <3> HIDE DEF Holds
    <3>1. QED
      BY <2>1, <2>5
  <2>7. hi(k) = Len(s)
    BY <1>0, <1>1 DEF Enough
  <2>8. f[k] = s
    BY <2>6, <2>7, SubSeqFull
  <2>9. QED
    BY <2>2, <2>8 DEF gs
<1>4. QED
  BY <1>2, <1>3

\* So are its items, each in a sequence of its own.
LEMMA SinglesJoin ==
  ASSUME NEW S, NEW s \in Seq(S)
  PROVE  FlattenSeq([i \in DOMAIN s |-> <<s[i]>>]) = s
<1>0. PICK n \in Nat \ {0} : n = 1
  OBVIOUS
<1> DEFINE gs == Groups(s, n)
<1>1. /\ gs \in Seq(Seq(S)) /\ Len(gs) \in Nat /\ DOMAIN gs = 1 .. Len(gs)
      /\ Enough(s, n, gs) /\ \A i \in 1 .. Len(gs) : gs[i] \in Seq(S) /\ Sliced(s, n, gs, i)
  BY GroupsFacts
<1>2. Len(s) \in Nat /\ DOMAIN s = 1 .. Len(s) /\ \A i \in 1 .. Len(s) : s[i] \in S
  BY LenProperties, ElementOfSeq
<1> HIDE DEF gs
<1>3. Len(gs) = Len(s)
  <2> DEFINE k == Len(gs)
  <2>1. k \in Int /\ k - 1 \in Int /\ k * n >= Len(s) /\ (k - 1) * n < Len(s)
    BY <1>1 DEF Enough
  <2> HIDE DEF k
  <2>2. \A m \in Int : m * n = m
    BY <1>0
  <2>3. k * n = k /\ (k - 1) * n = k - 1
    BY <2>1, <2>2
  <2>4. k >= Len(s) /\ k - 1 < Len(s)
    BY <2>1, <2>3, Zenon
  <2>0. Len(s) \in Nat
    BY LenProperties
  <2>6. k = Len(s)
    BY <2>0, <2>1, <2>4
  <2>5. QED
    BY <2>6 DEF k
<1>4. ASSUME NEW i \in 1 .. Len(s) PROVE gs[i] = <<s[i]>>
  <2>1. Sliced(s, n, gs, i) /\ gs[i] \in Seq(S)
    BY <1>1, <1>3
  <2>2. Len(gs[i]) = 1 /\ gs[i][1] = s[i]
    <3>1. Len(gs[i]) = 1 /\ gs[i][1] = s[(i - 1) * n + 1]
      BY <1>0, <2>1 DEF Sliced
    <3>2. (i - 1) * n + 1 = i
      BY <1>0
    <3>3. QED
      BY <3>1, <3>2
  <2>3. <<s[i]>> \in Seq(S) /\ Len(<<s[i]>>) = 1 /\ <<s[i]>>[1] = s[i]
    BY <1>2
  <2>4. \A j \in 1 .. 1 : gs[i][j] = <<s[i]>>[j]
    BY <2>2, <2>3
  <2>5. QED
    BY <2>1, <2>2, <2>3, <2>4, SeqEqual
<1>5. gs = [i \in DOMAIN s |-> <<s[i]>>]
  <2>1. DOMAIN gs = DOMAIN s /\ gs = [i \in DOMAIN gs |-> gs[i]]
    BY <1>1, <1>2, <1>3
  <2>2. QED
    BY <1>2, <1>4, <2>1
<1>6. FlattenSeq(gs) = s
  BY GroupsJoin DEF gs
<1>7. QED
  BY <1>5, <1>6

\* Groups of different items are different.
LEMMA GroupsDiffer ==
  ASSUME NEW S, NEW s \in Seq(S), NEW n \in Nat \ {0}, IsInjective(s)
  PROVE  IsInjective(Groups(s, n))
<1> DEFINE gs == Groups(s, n)
<1>1. /\ Len(gs) \in Nat /\ DOMAIN gs = 1 .. Len(gs)
      /\ \A i \in 1 .. Len(gs) : Sliced(s, n, gs, i)
  BY GroupsFacts
<1>2. DOMAIN s = 1 .. Len(s)
  BY LenProperties
<1> HIDE DEF gs
<1>3. ASSUME NEW a \in DOMAIN gs, NEW b \in DOMAIN gs, gs[a] = gs[b] PROVE a = b
  <2> DEFINE x == (a - 1) * n
             y == (b - 1) * n
  <2>1. /\ x + 1 \in 1 .. Len(s) /\ gs[a][1] = s[x + 1]
        /\ y + 1 \in 1 .. Len(s) /\ gs[b][1] = s[y + 1]
    <3>1. ASSUME NEW c \in DOMAIN gs
          PROVE  (c - 1) * n + 1 \in 1 .. Len(s) /\ gs[c][1] = s[(c - 1) * n + 1]
      <4>1. Sliced(s, n, gs, c)
        BY <1>1
      <4>2. 1 \in 1 .. Len(gs[c])
        BY <4>1 DEF Sliced
      <4>3. QED
        BY <4>1, <4>2 DEF Sliced
    <3>2. QED
      BY <3>1
  <2>2. x + 1 = y + 1
    <3> HIDE DEF x, y
    <3>1. QED
      BY <1>2, <1>3, <2>1 DEF IsInjective
  <2>3. a \in Int /\ b \in Int /\ a - 1 \in Int /\ b - 1 \in Int
    BY <1>1
  <2>4. x \in Int /\ y \in Int /\ (a - 1 < b - 1 => x < y) /\ (b - 1 < a - 1 => y < x)
    BY <2>3, Times
  <2> HIDE DEF x, y
  <2>5. QED
    BY <2>2, <2>3, <2>4
<1>4. QED
  BY <1>3 DEF IsInjective, gs

\* A full group depends on its items only.
LEMMA GroupsAgree ==
  ASSUME NEW S, NEW s \in Seq(S), NEW t \in Seq(S), NEW n \in Nat \ {0},
         NEW i \in 1 .. Len(Groups(s, n)), i < Len(Groups(s, n)), i * n <= Len(t),
         \A j \in 1 .. i * n : s[j] = t[j]
  PROVE  i \in 1 .. Len(Groups(t, n)) /\ Groups(t, n)[i] = Groups(s, n)[i]
<1> DEFINE gs == Groups(s, n)
           gt == Groups(t, n)
<1>1. Len(gs) \in Nat /\ gs[i] \in Seq(S) /\ Sliced(s, n, gs, i)
  BY GroupsFacts
<1>2. Len(gt) \in Nat /\ Enough(t, n, gt)
  BY GroupsFacts
<1>3. \A j \in 1 .. Len(gt) : gt[j] \in Seq(S) /\ Sliced(t, n, gt, j)
  BY GroupsFacts
<1>4. Len(s) \in Nat /\ Len(t) \in Nat
  BY LenProperties
<1>5. i \in 1 .. Len(gs) /\ i < Len(gs)
  OBVIOUS
<1> DEFINE x == (i - 1) * n
           y == i * n
<1>6. i \in Nat /\ y \in Int /\ x = y - n /\ y >= n
  <2>1. i \in Nat /\ i >= 1
    BY <1>1
  <2>2. 1 * n <= i * n
    BY <2>1, Times
  <2>3. QED
    BY <2>1, <2>2, Times
<1> HIDE DEF gt, gs
<1>7. i \in 1 .. Len(gt)
  <2>1. Len(gt) * n >= y
    <3>1. Len(gt) * n \in Int
      BY <1>2, Times
    <3>2. QED
      BY <1>2, <1>4, <1>6, <3>1 DEF Enough
  <2>2. Len(gt) < i => Len(gt) * n < y
    <3>1. Len(gt) \in Int /\ i \in Int
      BY <1>2, <1>6
    <3>2. QED
      BY <3>1, Times
  <2>3. Len(gt) * n \in Int
    BY <1>2, Times
  <2>4. i <= Len(gt)
    BY <1>2, <1>6, <2>1, <2>2, <2>3
  <2>5. QED
    BY <1>2, <1>5, <1>6, <2>4
<1>8. Sliced(t, n, gt, i) /\ gt[i] \in Seq(S)
  BY <1>3, <1>7
<1>9. /\ Len(gs[i]) = n /\ \A j \in 1 .. n : gs[i][j] = s[x + j]
      /\ Len(gt[i]) = n /\ \A j \in 1 .. n : gt[i][j] = t[x + j]
  <2>1. y < Len(s) /\ y <= Len(t)
    BY <1>1, <1>5 DEF Sliced
  <2>2. Len(gs[i]) = y - x /\ \A j \in 1 .. Len(gs[i]) : gs[i][j] = s[x + j]
    BY <1>1, <2>1 DEF Sliced
  <2>3. Len(gt[i]) = y - x /\ \A j \in 1 .. Len(gt[i]) : gt[i][j] = t[x + j]
    <3>1. (IF y < Len(t) THEN y ELSE Len(t)) = y
      BY <1>4, <1>6, <2>1
    <3>2. QED
      BY <1>8, <3>1 DEF Sliced
  <2> HIDE DEF x, y
  <2>4. y - x = n
    BY <1>6
  <2>5. QED
    BY <2>2, <2>3, <2>4
<1>10. ASSUME NEW j \in 1 .. n PROVE gt[i][j] = gs[i][j]
  <2>1. x + j \in 1 .. y
    <3> HIDE DEF x, y
    <3>1. QED
      BY <1>6
  <2>2. QED
    BY <1>9, <2>1
<1>11. gt[i] = gs[i]
  BY <1>1, <1>8, <1>9, <1>10, SeqEqual
<1>12. QED
  BY <1>7, <1>11 DEF gt, gs

-----------------------------------------------------------------------------
(* The layers of a tree.                                                    *)

LEMMA Constants ==
  /\ Leaf \in Nat \ {0} /\ Fan \in Nat \ {0} /\ MaxDepth \in Nat
  /\ MaxDepth = 1 \/ MaxDepth = 2 \/ MaxDepth = 3
  BY TreeAssumption

\* What a tree of each number of levels holds.
LEMMA CapacityFacts ==
  /\ Capacity[1] = Leaf
  /\ MaxDepth >= 2 => Capacity[2] = Fan * Leaf
  /\ MaxDepth >= 3 => Capacity[3] = Fan * (Fan * Leaf)
<1> DEFINE Def(f) == f = [l \in 1 .. MaxDepth |-> IF l = 1 THEN Leaf ELSE Fan * f[l - 1]]
           w == [l \in 1 .. MaxDepth |-> IF l = 1 THEN Leaf
                                        ELSE IF l = 2 THEN Fan * Leaf ELSE Fan * (Fan * Leaf)]
           g == CHOOSE f : Def(f)
<1>1. Def(w)
  <2>1. ASSUME NEW l \in 1 .. MaxDepth PROVE w[l] = IF l = 1 THEN Leaf ELSE Fan * w[l - 1]
    <3>1. l = 1 \/ l = 2 \/ l = 3
      BY Constants
    <3>2. l = 2 => w[l - 1] = Leaf
      BY Constants
    <3>3. l = 3 => w[l - 1] = Fan * Leaf
      BY Constants
    <3>4. QED
      BY <3>1, <3>2, <3>3
  <2>2. QED
    BY <2>1
<1>2. Def(g)
  <2> HIDE DEF w
  <2>1. QED
    BY <1>1
<1>3. Capacity = g
  BY DEF Capacity
<1> HIDE DEF g
<1>4. \A l \in 1 .. MaxDepth : g[l] = IF l = 1 THEN Leaf ELSE Fan * g[l - 1]
  BY <1>2
<1>5. g[1] = Leaf
  BY <1>4, Constants
<1>6. MaxDepth >= 2 => g[2] = Fan * Leaf
  BY <1>4, <1>5, Constants
<1>7. MaxDepth >= 3 => g[3] = Fan * (Fan * Leaf)
  BY <1>4, <1>6, Constants
<1>8. QED
  BY <1>3, <1>5, <1>6, <1>7

\* The number of levels is the smallest that suffices.
LEMMA LevelsFacts ==
  ASSUME NEW S, NEW es \in Seq(S), Fits(es)
  PROVE  /\ Levels(es) \in 1 .. MaxDepth /\ Len(es) <= Capacity[Levels(es)]
         /\ \A k \in 1 .. Levels(es) - 1 : Len(es) > Capacity[k]
<1> DEFINE Good(l) == /\ Len(es) <= Capacity[l]
                      /\ \A k \in 1 .. l - 1 : Len(es) > Capacity[k]
<1>1. Len(es) \in Nat /\ \A l \in 1 .. MaxDepth : Capacity[l] \in Int
  BY LenProperties, CapacityFacts, Constants
<1>2. \E l \in 1 .. MaxDepth : Good(l)
  <2>1. CASE Len(es) <= Capacity[1]
    BY <2>1, Constants
  <2>2. CASE ~(Len(es) <= Capacity[1]) /\ MaxDepth >= 2 /\ Len(es) <= Capacity[2]
    <3>1. Good(2)
      BY <2>2, <1>1, Constants
    <3>2. QED
      BY <2>2, <3>1
  <2>3. CASE ~(Len(es) <= Capacity[1]) /\ MaxDepth >= 2 /\ ~(Len(es) <= Capacity[2])
    <3>1. MaxDepth = 3 /\ Len(es) <= Capacity[3]
      BY <2>3, Constants DEF Fits
    <3>2. \A k \in 1 .. 3 - 1 : k = 1 \/ k = 2
      OBVIOUS
    <3>3. Len(es) > Capacity[1] /\ Len(es) > Capacity[2]
      BY <2>3, <1>1, Constants
    <3>4. Good(3)
      BY <3>1, <3>2, <3>3
    <3>5. QED
      BY <3>1, <3>4
  <2>4. QED
    BY <2>1, <2>2, <2>3, Constants DEF Fits
<1>3. Levels(es) = CHOOSE l \in 1 .. MaxDepth : Good(l)
  BY DEF Levels
<1>4. QED
  BY <1>2, <1>3

\* Each layer is made of the one below.
LEMMA LayersFacts ==
  ASSUME NEW S, NEW es \in Seq(S), Fits(es)
  PROVE  LET L == Layers(es)
             T == Levels(es)
         IN  /\ DOMAIN L = 1 .. T /\ L = [l \in 1 .. T |-> L[l]] /\ L[1] = LeafLayer(es)
             /\ \A l \in 1 .. T : l # 1 => L[l] = BranchLayer(T - l + 1, L[l - 1])
<1> DEFINE T == Levels(es)
           Def(f) == f = [l \in 1 .. T |-> IF l = 1 THEN LeafLayer(es)
                                          ELSE BranchLayer(T - l + 1, f[l - 1])]
           a == LeafLayer(es)
           b == BranchLayer(T - 1, a)
           c == BranchLayer(T - 2, b)
           w == [l \in 1 .. T |-> IF l = 1 THEN a ELSE IF l = 2 THEN b ELSE c]
           g == CHOOSE f : Def(f)
<1>1. T \in Nat /\ (T = 1 \/ T = 2 \/ T = 3)
  BY LevelsFacts, Constants
<1>2. Layers(es) = g
  BY DEF Layers
<1> HIDE DEF T
<1>3. Def(w)
  <2>1. ASSUME NEW l \in 1 .. T
        PROVE  w[l] = IF l = 1 THEN LeafLayer(es) ELSE BranchLayer(T - l + 1, w[l - 1])
    <3>1. CASE l = 1
      BY <3>1
    <3>2. CASE l = 2
      <4>1. w[l] = b /\ T - l + 1 = T - 1 /\ l - 1 = 1 /\ w[1] = a
        <5> HIDE DEF a, b, c
        <5>1. QED
          BY <3>2, <1>1
      <4> HIDE DEF w
      <4>2. BranchLayer(T - l + 1, w[l - 1]) = BranchLayer(T - 1, a)
        BY <4>1
      <4>3. QED
        BY <3>2, <4>1, <4>2
    <3>3. CASE l = 3
      <4>1. w[l] = c /\ T - l + 1 = T - 2 /\ l - 1 = 2 /\ w[2] = b
        <5> HIDE DEF a, b, c
        <5>1. QED
          BY <3>3, <1>1
      <4> HIDE DEF w, b
      <4>2. BranchLayer(T - l + 1, w[l - 1]) = BranchLayer(T - 2, b)
        BY <4>1
      <4>3. QED
        BY <3>3, <4>1, <4>2
    <3>4. QED
      BY <3>1, <3>2, <3>3, <1>1
  <2> HIDE DEF a, b, c
  <2>2. w = [l \in 1 .. T |-> w[l]]
    OBVIOUS
  <2> HIDE DEF w
  <2>3. QED
    BY <2>1, <2>2
<1>4. Def(g)
  <2> HIDE DEF w
  <2>1. QED
    BY <1>3
<1> HIDE DEF g
<1>5. /\ DOMAIN g = 1 .. T /\ g[1] = LeafLayer(es)
      /\ \A l \in 1 .. T : l # 1 => g[l] = BranchLayer(T - l + 1, g[l - 1])
  BY <1>1, <1>4
<1>6. g = [l \in 1 .. T |-> g[l]]
  BY <1>4
<1>7. QED
  BY <1>2, <1>5, <1>6 DEF T

\* What counts of one and more add up to.
LEMMA TotalFacts ==
  ASSUME NEW n \in Nat \ {0}, NEW cs, Len(cs) = n,
         \A i \in 1 .. n : cs[i].count \in Nat \ {0}
  PROVE  Total(cs) \in Nat \ {0}
<1> DEFINE Def(f) == f = [i \in 0 .. n |-> IF i = 0 THEN 0 ELSE f[i - 1] + cs[i].count]
           Adds(f, m) == \A i \in 0 .. m : f[i] = IF i = 0 THEN 0 ELSE f[i - 1] + cs[i].count
           Has(m) == \E f \in [0 .. m -> Nat] : Adds(f, m)
           D == {m \in Nat : m <= n => Has(m)}
           g == CHOOSE f : Def(f)
           E == {m \in Nat : m <= n => g[m] \in Nat /\ g[m] >= m}
<1>1. 0 \in D
  <2>1. Has(0)
    <3>1. [i \in 0 .. 0 |-> 0] \in [0 .. 0 -> Nat] /\ Adds([i \in 0 .. 0 |-> 0], 0)
      OBVIOUS
    <3>2. QED
      BY <3>1
  <2> HIDE DEF Has
  <2>2. QED
    BY <2>1
<1>2. ASSUME NEW m \in Nat, m \in D PROVE m + 1 \in D
  <2> SUFFICES ASSUME m + 1 <= n PROVE Has(m + 1)
    <3> HIDE DEF Has
    <3>1. QED
      BY <1>2
  <2>1. Has(m)
    <3> HIDE DEF Has
    <3>1. QED
      BY <1>2
  <2>2. PICK f \in [0 .. m -> Nat] : Adds(f, m)
    BY <2>1
  <2> DEFINE v == f[m] + cs[m + 1].count
             h == [i \in 0 .. m + 1 |-> IF i = m + 1 THEN v ELSE f[i]]
  <2>3. v \in Nat
    BY <2>2
  <2>4. ASSUME NEW i \in 0 .. m + 1
        PROVE  h[i] = IF i = 0 THEN 0 ELSE h[i - 1] + cs[i].count
    <3>1. CASE i = m + 1
      <4>1. h[i] = v /\ i # 0
        <5> HIDE DEF v
        <5>1. QED
          BY <3>1
      <4>2. i - 1 = m /\ m \in 0 .. m + 1 /\ m # m + 1
        BY <3>1
      <4>3. h[i - 1] = f[m]
        BY <4>2
      <4> HIDE DEF h
      <4>4. QED
        BY <3>1, <4>1, <4>3
    <3>2. CASE i # m + 1
      <4>1. i \in 0 .. m /\ (i # 0 => i - 1 \in 0 .. m)
        BY <3>2
      <4>2. h[i] = f[i] /\ (i # 0 => h[i - 1] = f[i - 1])
        <5> HIDE DEF v
        <5>1. QED
          BY <3>2, <4>1
      <4> HIDE DEF h
      <4>3. QED
        BY <2>2, <4>1, <4>2
    <3>3. QED
      BY <3>1, <3>2
  <2>5. h \in [0 .. m + 1 -> Nat]
    BY <2>3
  <2>6. QED
    BY <2>4, <2>5
<1>3. Has(n)
  <2> HIDE DEF D
  <2>1. n \in D
    BY <1>1, <1>2, AllNumbers
  <2> HIDE DEF Has
  <2>2. QED
    BY <2>1 DEF D
<1>4. \E f : Def(f)
  <2>1. PICK f \in [0 .. n -> Nat] : Adds(f, n)
    BY <1>3
  <2>2. f = [i \in 0 .. n |-> f[i]]
    OBVIOUS
  <2>3. Def(f)
    BY <2>1, <2>2
  <2>4. QED
    BY <2>3
<1>5. Def(g)
  BY <1>4
<1> HIDE DEF g
<1>6. g[0] = 0 /\ \A i \in 1 .. n : g[i] = g[i - 1] + cs[i].count
  BY <1>5
<1>7. 0 \in E
  BY <1>6
<1>8. ASSUME NEW m \in Nat, m \in E PROVE m + 1 \in E
  <2> SUFFICES ASSUME m + 1 <= n PROVE g[m + 1] \in Nat /\ g[m + 1] >= m + 1
    OBVIOUS
  <2>1. m + 1 \in 1 .. n /\ (m + 1) - 1 = m /\ g[m] \in Nat /\ g[m] >= m
    BY <1>8
  <2>2. g[m + 1] = g[m] + cs[m + 1].count /\ cs[m + 1].count \in Nat \ {0}
    BY <1>6, <2>1
  <2>3. QED
    BY <2>1, <2>2
<1>9. n \in E
  <2> HIDE DEF E
  <2>1. QED
    BY <1>7, <1>8, AllNumbers
<1>10. Total(cs) = g[n]
  BY DEF Total, g
<1>11. QED
  BY <1>9, <1>10

\* The leaves hold the entries, each in one place.
LEMMA LeafLayerFacts ==
  ASSUME NEW es \in Seq(1 .. MaxMade), IsInjective(es)
  PROVE  LET a == LeafLayer(es)
             gs == Groups(es, Leaf)
         IN  /\ a \in Seq(LeafNodes) /\ IsInjective(a)
             /\ Len(a) = Len(gs) /\ DOMAIN a = DOMAIN gs
             /\ \A i \in DOMAIN a : a[i] = LeafNode(gs[i])
<1> DEFINE gs == Groups(es, Leaf)
           a == LeafLayer(es)
<1>1. /\ gs \in Seq(Seq(1 .. MaxMade)) /\ Len(gs) \in Nat /\ DOMAIN gs = 1 .. Len(gs)
      /\ \A i \in 1 .. Len(gs) : gs[i] \in Seq(1 .. MaxMade) /\ Sliced(es, Leaf, gs, i)
  BY GroupsFacts, Constants
<1>2. IsInjective(gs)
  BY GroupsDiffer, Constants
<1>3. a = [i \in DOMAIN gs |-> LeafNode(gs[i])]
  BY DEF LeafLayer
<1> HIDE DEF gs, a
<1>4. ASSUME NEW i \in DOMAIN gs PROVE LeafNode(gs[i]) \in LeafNodes
  <2>1. gs[i] \in Seq(1 .. MaxMade) /\ Len(gs[i]) \in 1 .. Leaf
    BY <1>1 DEF Sliced
  <2>2. QED
    BY <2>1 DEF LeafNode, LeafNodes
<1>5. a \in Seq(LeafNodes) /\ Len(a) = Len(gs) /\ DOMAIN a = DOMAIN gs
  BY <1>1, <1>3, <1>4
<1>6. IsInjective(a)
  <2>1. ASSUME NEW i \in DOMAIN gs, NEW j \in DOMAIN gs, LeafNode(gs[i]) = LeafNode(gs[j])
        PROVE  i = j
    <3>1. gs[i] = gs[j]
      BY <2>1 DEF LeafNode
    <3>2. QED
      BY <1>2, <3>1 DEF IsInjective
  <2>2. QED
    BY <1>3, <2>1 DEF IsInjective
<1>7. QED
  BY <1>3, <1>5, <1>6 DEF a, gs

\* Branches hold the nodes of the layer below, each in one place.
LEMMA BranchLayerFacts ==
  ASSUME NEW B, \A x \in B : x.count \in Nat \ {0}, NEW s \in Seq(B), IsInjective(s),
         NEW d \in 1 .. MaxDepth - 1
  PROVE  LET b == BranchLayer(d, s)
             gs == Groups(s, Fan)
         IN  /\ b \in Seq(BranchNodes(B)) /\ IsInjective(b)
             /\ Len(b) = Len(gs) /\ DOMAIN b = DOMAIN gs
             /\ \A i \in DOMAIN b : b[i] = BranchNode(d, gs[i])
<1> DEFINE gs == Groups(s, Fan)
           b == BranchLayer(d, s)
<1>1. /\ gs \in Seq(Seq(B)) /\ Len(gs) \in Nat /\ DOMAIN gs = 1 .. Len(gs)
      /\ \A i \in 1 .. Len(gs) : gs[i] \in Seq(B) /\ Sliced(s, Fan, gs, i)
  BY GroupsFacts, Constants
<1>2. IsInjective(gs)
  BY GroupsDiffer, Constants
<1>3. b = [i \in DOMAIN gs |-> BranchNode(d, gs[i])]
  BY DEF BranchLayer
<1> HIDE DEF gs, b
<1>4. ASSUME NEW i \in DOMAIN gs PROVE BranchNode(d, gs[i]) \in BranchNodes(B)
  <2>1. gs[i] \in Seq(B) /\ Len(gs[i]) \in 1 .. Fan
    BY <1>1 DEF Sliced
  <2>2. \A j \in 1 .. Len(gs[i]) : gs[i][j].count \in Nat \ {0}
    BY <2>1, ElementOfSeq
  <2>3. Len(gs[i]) \in Nat \ {0}
    BY <2>1, Constants
  <2>4. Total(gs[i]) \in Nat \ {0}
    BY <2>2, <2>3, TotalFacts
  <2>5. QED
    BY <2>1, <2>4 DEF BranchNode, BranchNodes
<1>5. b \in Seq(BranchNodes(B)) /\ Len(b) = Len(gs) /\ DOMAIN b = DOMAIN gs
  BY <1>1, <1>3, <1>4
<1>6. IsInjective(b)
  <2>1. ASSUME NEW i \in DOMAIN gs, NEW j \in DOMAIN gs,
               BranchNode(d, gs[i]) = BranchNode(d, gs[j])
        PROVE  i = j
    <3>1. gs[i] = gs[j]
      BY <2>1 DEF BranchNode
    <3>2. QED
      BY <1>2, <3>1 DEF IsInjective
  <2>2. QED
    BY <1>3, <2>1 DEF IsInjective
<1>7. QED
  BY <1>3, <1>5, <1>6 DEF b, gs

\* Opening the branches of a layer leads to the layer below.
LEMMA OpenBranches ==
  ASSUME NEW B, \A x \in B : x.count \in Nat \ {0}, NEW s \in Seq(B), IsInjective(s),
         NEW d \in 1 .. MaxDepth - 1
  PROVE  LET b == BranchLayer(d, s)
         IN  FlattenSeq([i \in DOMAIN b |-> Opened(b[i])]) = s
<1> DEFINE b == BranchLayer(d, s)
           gs == Groups(s, Fan)
<1>1. DOMAIN b = DOMAIN gs /\ \A i \in DOMAIN b : b[i] = BranchNode(d, gs[i])
  BY BranchLayerFacts
<1>2. gs \in Seq(Seq(B)) /\ FlattenSeq(gs) = s
  BY GroupsFacts, GroupsJoin, Constants
<1> HIDE DEF b, gs
<1>3. \A i \in DOMAIN b : Opened(b[i]) = gs[i]
  BY <1>1 DEF Opened, BranchNode
<1>4. [i \in DOMAIN b |-> Opened(b[i])] = [i \in DOMAIN gs |-> gs[i]]
  BY <1>1, <1>3
<1>5. gs = [i \in DOMAIN gs |-> gs[i]]
  BY <1>2
<1>6. QED
  BY <1>2, <1>4, <1>5 DEF b

\* Leaves stay in place.
LEMMA OpenLeaves ==
  ASSUME NEW a \in Seq(LeafNodes)
  PROVE  FlattenSeq([i \in DOMAIN a |-> Opened(a[i])]) = a
<1>1. ASSUME NEW i \in DOMAIN a PROVE Opened(a[i]) = <<a[i]>>
  <2>1. a[i] \in LeafNodes
    BY ElementOfSeq, LenProperties
  <2>2. QED
    BY <2>1 DEF Opened, LeafNodes
<1>2. [i \in DOMAIN a |-> Opened(a[i])] = [i \in DOMAIN a |-> <<a[i]>>]
  BY <1>1
<1>3. QED
  BY <1>2, SinglesJoin

\* The nodes of each height.
Height(l) ==
  IF l = 1 THEN LeafNodes
  ELSE IF l = 2 THEN BranchNodes(LeafNodes) ELSE BranchNodes(BranchNodes(LeafNodes))

LEMMA HeightFacts ==
  ASSUME NEW l \in Nat
  PROVE  Height(l) \subseteq Nodes /\ \A x \in Height(l) : x.count \in Nat \ {0}
  BY Constants DEF Height, Nodes, LeafNodes, BranchNodes

\* An index: the entries it is made for, and its layers.
Index(es) == es \in Seq(1 .. MaxMade) /\ IsInjective(es) /\ Fits(es) /\ es # <<>>

\* Each layer has nodes of its height, each once.
LEMMA LayerTypes ==
  ASSUME NEW es, Index(es)
  PROVE  LET L == Layers(es)
             T == Levels(es)
         IN  \A l \in 1 .. T : L[l] \in Seq(Height(l)) /\ IsInjective(L[l])
<1> DEFINE L == Layers(es)
           T == Levels(es)
<1>1. T \in 1 .. MaxDepth /\ (T = 1 \/ T = 2 \/ T = 3) /\ T \in Nat
  BY LevelsFacts, Constants DEF Index
<1>2. /\ L[1] = LeafLayer(es)
      /\ \A l \in 1 .. T : l # 1 => L[l] = BranchLayer(T - l + 1, L[l - 1])
  BY LayersFacts DEF Index
<1> HIDE DEF L, T
<1>3. L[1] \in Seq(Height(1)) /\ IsInjective(L[1])
  BY <1>2, LeafLayerFacts DEF Index, Height
<1>4. ASSUME T >= 2 PROVE L[2] \in Seq(Height(2)) /\ IsInjective(L[2])
  <2>1. T - 1 \in 1 .. MaxDepth - 1 /\ 2 \in 1 .. T /\ T - 2 + 1 = T - 1 /\ 2 - 1 = 1
    BY <1>1, <1>4, Constants
  <2>2. L[2] = BranchLayer(T - 1, L[1])
    BY <1>2, <2>1
  <2>3. L[1] \in Seq(LeafNodes) /\ \A x \in LeafNodes : x.count \in Nat \ {0}
    BY <1>3, HeightFacts DEF Height
  <2>4. QED
    BY <1>3, <2>1, <2>2, <2>3, BranchLayerFacts DEF Height
<1>5. ASSUME T >= 3 PROVE L[3] \in Seq(Height(3)) /\ IsInjective(L[3])
  <2>1. T - 2 \in 1 .. MaxDepth - 1 /\ 3 \in 1 .. T /\ T - 3 + 1 = T - 2 /\ 3 - 1 = 2 /\ T >= 2
    BY <1>1, <1>5, Constants
  <2>2. L[3] = BranchLayer(T - 2, L[2])
    BY <1>2, <2>1
  <2>3. L[2] \in Seq(Height(2)) /\ \A x \in Height(2) : x.count \in Nat \ {0}
    BY <1>4, <2>1, HeightFacts
  <2>4. Height(3) = BranchNodes(Height(2))
    BY DEF Height
  <2>5. QED
    BY <1>4, <2>1, <2>2, <2>3, <2>4, BranchLayerFacts
<1>6. QED
  BY <1>1, <1>3, <1>4, <1>5 DEF L, T

LEMMA One ==
  ASSUME NEW k \in Nat, k > 0, k <= 1
  PROVE  k = 1
  OBVIOUS

\* The top layer is one node, the root.
LEMMA OneRoot ==
  ASSUME NEW es, Index(es)
  PROVE  Len(Layers(es)[Levels(es)]) = 1
<1> DEFINE L == Layers(es)
           T == Levels(es)
<1>1. T \in 1 .. MaxDepth /\ (T = 1 \/ T = 2 \/ T = 3) /\ Len(es) <= Capacity[T]
  BY LevelsFacts, Constants DEF Index
<1>2. /\ L[1] = LeafLayer(es)
      /\ \A l \in 1 .. T : l # 1 => L[l] = BranchLayer(T - l + 1, L[l - 1])
  BY LayersFacts DEF Index
<1>3. \A l \in 1 .. T : L[l] \in Seq(Height(l)) /\ IsInjective(L[l]) /\ Len(L[l]) \in Nat
  <2>1. \A l \in 1 .. T : L[l] \in Seq(Height(l)) /\ IsInjective(L[l])
    BY LayerTypes
  <2> HIDE DEF L, T
  <2>2. QED
    BY <2>1, LenProperties
<1>4. /\ es \in Seq(1 .. MaxMade) /\ es # <<>> /\ Len(L[1]) = Len(Groups(es, Leaf))
  BY <1>2, LeafLayerFacts DEF Index
<1> HIDE DEF L, T
<1>5. Len(L[1]) > 0 /\ \A m \in Nat : Len(es) <= m * Leaf => Len(L[1]) <= m
  BY <1>4, GroupsLen, Constants
<1>6. ASSUME NEW l \in 1 .. T, l # 1, Len(L[l - 1]) > 0
      PROVE  Len(L[l]) > 0 /\ \A m \in Nat : Len(L[l - 1]) <= m * Fan => Len(L[l]) <= m
  <2> DEFINE s == L[l - 1]
  <2>1. l \in Nat /\ l - 1 \in 1 .. T /\ l - 1 \in Nat /\ T - l + 1 \in 1 .. MaxDepth - 1
    BY <1>1, <1>6, Constants
  <2>2. s \in Seq(Height(l - 1)) /\ IsInjective(s) /\ L[l] = BranchLayer(T - l + 1, s)
    BY <1>2, <1>3, <1>6, <2>1
  <2>3. \A x \in Height(l - 1) : x.count \in Nat \ {0}
    BY <2>1, HeightFacts
  <2>4. s # <<>>
    BY <1>6
  <2> HIDE DEF s
  <2>5. Len(L[l]) = Len(Groups(s, Fan))
    BY <2>1, <2>2, <2>3, BranchLayerFacts
  <2>6. QED
    BY <2>2, <2>4, <2>5, GroupsLen, Constants DEF s
<1>7. CASE T = 1
  <2>1. Len(es) <= 1 * Leaf
    BY <1>1, <1>7, CapacityFacts, Constants
  <2>2. Len(L[1]) <= 1
    BY <1>5, <2>1
  <2>3. Len(L[1]) > 0
    BY <1>5
  <2>4. Len(L[1]) \in Nat
    BY <1>3, <1>7
  <2>5. Len(L[1]) = 1
    BY <2>2, <2>3, <2>4, One, Zenon
  <2>6. QED
    BY <1>7, <2>5 DEF L, T
<1>8. CASE T = 2
  <2>1. Len(es) <= Fan * Leaf /\ Len(L[1]) \in Nat
    BY <1>1, <1>3, <1>8, CapacityFacts, Constants
  <2>2. Len(L[1]) <= Fan
    BY <1>5, <2>1, Constants
  <2>3. Len(L[1]) <= 1 * Fan
    BY <2>1, <2>2, Constants
  <2>4. Len(L[2]) > 0 /\ \A m \in Nat : Len(L[1]) <= m * Fan => Len(L[2]) <= m
    <3>1. 2 \in 1 .. T /\ 2 - 1 = 1
      BY <1>8
    <3>2. QED
      BY <1>5, <1>6, <3>1
  <2>5. Len(L[2]) <= 1 /\ Len(L[2]) \in Nat
    BY <1>3, <1>8, <2>3, <2>4
  <2>6. Len(L[2]) > 0
    BY <2>4
  <2>7. Len(L[2]) = 1
    BY <2>5, <2>6, One, Zenon
  <2>8. QED
    BY <1>8, <2>7 DEF L, T
<1>9. CASE T = 3
  <2>0. Len(L[1]) \in Nat /\ Len(L[2]) \in Nat /\ Len(L[3]) \in Nat
    BY <1>3, <1>9
  <2>1. Len(es) <= (Fan * Fan) * Leaf /\ Fan * Fan \in Nat
    BY <1>1, <1>9, CapacityFacts, Constants
  <2>2. Len(L[1]) <= Fan * Fan
    BY <1>5, <2>1
  <2>3. Len(L[2]) > 0 /\ \A m \in Nat : Len(L[1]) <= m * Fan => Len(L[2]) <= m
    <3>1. 2 \in 1 .. T /\ 2 - 1 = 1
      BY <1>9
    <3>2. QED
      BY <1>5, <1>6, <3>1
  <2>4. Len(L[2]) <= Fan
    BY <2>2, <2>3, Constants
  <2>5. Len(L[2]) <= 1 * Fan
    BY <2>0, <2>4, Constants
  <2>6. Len(L[3]) > 0 /\ \A m \in Nat : Len(L[2]) <= m * Fan => Len(L[3]) <= m
    <3>1. 3 \in 1 .. T /\ 3 - 1 = 2
      BY <1>9
    <3>2. QED
      BY <2>3, <1>6, <3>1
  <2>7. Len(L[3]) <= 1
    BY <2>5, <2>6
  <2>8. Len(L[3]) > 0 /\ Len(L[3]) \in Nat
    BY <2>0, <2>6
  <2>9. Len(L[3]) = 1
    BY <2>7, <2>8, One, Zenon
  <2>10. QED
    BY <1>9, <2>9 DEF L, T
<1>10. QED
  BY <1>1, <1>7, <1>8, <1>9

-----------------------------------------------------------------------------
(* The walk meets the layers from the root down.                            *)

\* Each front is what is below the one before.
LEMMA FrontsFacts ==
  ASSUME NEW root
  PROVE  LET F == Fronts(root)
         IN  /\ DOMAIN F = 1 .. MaxDepth /\ F[1] = <<root>>
             /\ \A d \in 1 .. MaxDepth : d # 1 => F[d] = Below(F[d - 1])
<1> DEFINE Def(f) == f = [d \in 1 .. MaxDepth |-> IF d = 1 THEN <<root>> ELSE Below(f[d - 1])]
           a == <<root>>
           b == Below(a)
           c == Below(b)
           w == [d \in 1 .. MaxDepth |-> IF d = 1 THEN a ELSE IF d = 2 THEN b ELSE c]
           g == CHOOSE f : Def(f)
<1>1. Def(w)
  <2>1. ASSUME NEW d \in 1 .. MaxDepth
        PROVE  w[d] = IF d = 1 THEN <<root>> ELSE Below(w[d - 1])
    <3>0. d = 1 \/ d = 2 \/ d = 3
      BY Constants
    <3>1. CASE d = 1
      BY <3>1
    <3>2. CASE d = 2
      <4>1. w[d] = b /\ d - 1 = 1 /\ w[1] = a
        <5> HIDE DEF a, b, c
        <5>1. QED
          BY <3>2, Constants
      <4> HIDE DEF w
      <4>2. QED
        BY <3>2, <4>1
    <3>3. CASE d = 3
      <4>1. w[d] = c /\ d - 1 = 2 /\ w[2] = b
        <5> HIDE DEF a, b, c
        <5>1. QED
          BY <3>3, Constants
      <4> HIDE DEF w, b
      <4>2. QED
        BY <3>3, <4>1
    <3>4. QED
      BY <3>0, <3>1, <3>2, <3>3
  <2> HIDE DEF a, b, c
  <2>2. w = [d \in 1 .. MaxDepth |-> w[d]]
    OBVIOUS
  <2> HIDE DEF w
  <2>3. QED
    BY <2>1, <2>2
<1>2. Def(g)
  <2> HIDE DEF w
  <2>1. QED
    BY <1>1
<1>3. Fronts(root) = g
  BY DEF Fronts
<1> HIDE DEF g
<1>4. /\ DOMAIN g = 1 .. MaxDepth /\ g[1] = <<root>>
      /\ \A d \in 1 .. MaxDepth : d # 1 => g[d] = Below(g[d - 1])
  BY <1>2, Constants
<1>5. QED
  BY <1>3, <1>4

\* The front at each depth is the layer at that depth, and the leaves below.
LEMMA FrontsAreLayers ==
  ASSUME NEW es, Index(es), NEW d \in 1 .. MaxDepth
  PROVE  LET L == Layers(es)
             T == Levels(es)
         IN  Fronts(Root(es))[d] = IF d <= T THEN L[T - d + 1] ELSE L[1]
<1> DEFINE L == Layers(es)
           T == Levels(es)
           F == Fronts(Root(es))
           At(e) == IF e <= T THEN L[T - e + 1] ELSE L[1]
<1>1. T \in 1 .. MaxDepth
  BY LevelsFacts DEF Index
<1>2. \A l \in 1 .. T : l # 1 => L[l] = BranchLayer(T - l + 1, L[l - 1])
  BY LayersFacts DEF Index
<1>3. \A l \in 1 .. T : L[l] \in Seq(Height(l)) /\ IsInjective(L[l])
  BY LayerTypes
<1>4. /\ F[1] = <<Root(es)>>
      /\ \A e \in 1 .. MaxDepth : e # 1 => F[e] = Below(F[e - 1])
  BY FrontsFacts
<1>5. Len(L[T]) = 1 /\ Root(es) = L[T][1]
  BY OneRoot DEF Root, Index
<1> HIDE DEF L, T, F
<1>6. F[1] = At(1)
  <2>1. L[T] \in Seq(Height(T))
    BY <1>1, <1>3
  <2>2. L[T] = <<L[T][1]>>
    <3> DEFINE s == L[T]
    <3>1. s \in Seq(Height(T)) /\ Len(s) = 1
      BY <1>5, <2>1
    <3> HIDE DEF s
    <3>2. s = <<s[1]>>
      BY <3>1
    <3>3. QED
      BY <3>2 DEF s
  <2>3. T - 1 + 1 = T /\ 1 <= T
    BY <1>1, Constants
  <2>4. QED
    BY <1>4, <1>5, <2>2, <2>3
<1>7. ASSUME NEW e \in 1 .. MaxDepth - 1, F[e] = At(e) PROVE F[e + 1] = At(e + 1)
  <2>0. e \in Nat /\ e + 1 \in 1 .. MaxDepth /\ e + 1 # 1 /\ (e + 1) - 1 = e
    BY <1>7, Constants
  <2>1. F[e + 1] = Below(At(e))
    BY <1>4, <1>7, <2>0
  <2>2. CASE e < T
    <3> DEFINE s == L[T - e]
    <3>1. /\ T - e + 1 \in 1 .. T /\ T - e + 1 # 1 /\ T - e \in 1 .. T /\ T - e \in Nat
          /\ T - (T - e + 1) + 1 = e /\ (T - e + 1) - 1 = T - e /\ T - (e + 1) + 1 = T - e
          /\ e <= T /\ e + 1 <= T
      BY <1>1, <2>0, <2>2, Constants
    <3>2. L[T - e + 1] = BranchLayer(e, s)
      BY <1>2, <3>1
    <3>3. s \in Seq(Height(T - e)) /\ IsInjective(s)
      BY <1>3, <3>1
    <3>4. \A x \in Height(T - e) : x.count \in Nat \ {0}
      BY <3>1, HeightFacts
    <3>5. At(e) = BranchLayer(e, s) /\ At(e + 1) = s
      BY <3>1, <3>2
    <3> HIDE DEF s, At
    <3>6. Below(BranchLayer(e, s)) = s
      BY <3>3, <3>4, <1>7, OpenBranches DEF Below
    <3>7. QED
      BY <2>1, <3>5, <3>6
  <2>3. CASE ~(e < T)
    <3>1. At(e) = L[1] /\ At(e + 1) = L[1]
      <4>1. ~(e + 1 <= T) /\ (e <= T => T - e + 1 = 1)
        BY <1>1, <2>0, <2>3, Constants
      <4>2. QED
        BY <4>1
    <3>2. L[1] \in Seq(LeafNodes)
      BY <1>1, <1>3, Constants DEF Height
    <3>3. Below(L[1]) = L[1]
      BY <3>2, OpenLeaves DEF Below
    <3> HIDE DEF At
    <3>4. QED
      BY <2>1, <3>1, <3>3
  <2>4. QED
    BY <2>2, <2>3
<1>8. F[d] = At(d)
  <2> HIDE DEF At
  <2>1. d = 1 \/ d = 2 \/ d = 3
    BY Constants
  <2>2. MaxDepth >= 2 => F[2] = At(2)
    BY <1>6, <1>7, Constants
  <2>3. MaxDepth >= 3 => F[3] = At(3)
    BY <2>2, <1>7, Constants
  <2>4. QED
    BY <1>6, <2>1, <2>2, <2>3, Constants
<1>9. QED
  BY <1>8 DEF L, T, F, At

\* What the walk of an index meets is what was planned, and it reads the entries.
LEMMA WalkFacts ==
  ASSUME NEW es, Index(es)
  PROVE  LET F == Fronts(Root(es))
             L == Layers(es)
             T == Levels(es)
         IN  /\ \A d \in 1 .. MaxDepth : \E l \in 1 .. T : F[d] = L[l]
             /\ \A l \in 1 .. T : \E d \in 1 .. MaxDepth : F[d] = L[l]
             /\ F[MaxDepth] = L[1]
<1> DEFINE L == Layers(es)
           T == Levels(es)
           F == Fronts(Root(es))
<1>1. T \in 1 .. MaxDepth
  BY LevelsFacts DEF Index
<1>2. \A d \in 1 .. MaxDepth : F[d] = IF d <= T THEN L[T - d + 1] ELSE L[1]
  BY FrontsAreLayers
<1> HIDE DEF L, T, F
<1>3. ASSUME NEW d \in 1 .. MaxDepth PROVE \E l \in 1 .. T : F[d] = L[l]
  <2>1. 1 \in 1 .. T /\ (d <= T => T - d + 1 \in 1 .. T)
    BY <1>1, Constants
  <2>2. QED
    BY <1>2, <2>1
<1>4. ASSUME NEW l \in 1 .. T PROVE \E d \in 1 .. MaxDepth : F[d] = L[l]
  <2>1. T - l + 1 \in 1 .. MaxDepth /\ T - l + 1 <= T /\ T - (T - l + 1) + 1 = l
    BY <1>1, Constants
  <2>2. QED
    BY <1>2, <2>1
<1>5. F[MaxDepth] = L[1]
  <2>1. MaxDepth \in 1 .. MaxDepth /\ (MaxDepth <= T => T - MaxDepth + 1 = 1)
    BY <1>1, Constants
  <2>2. QED
    BY <1>2, <2>1
<1>6. QED
  BY <1>3, <1>4, <1>5 DEF L, T, F

\* The walk meets the files that were planned.
LEMMA VisitedFacts ==
  ASSUME NEW es, Index(es)
  PROVE  /\ PlanIndex(es) \in Seq(Nodes)
         /\ Visited(Root(es)) = Range(PlanIndex(es))
         /\ Visited(Root(es)) \subseteq Nodes
         /\ Root(es) \in Nodes /\ Root(es) # None
<1> DEFINE L == Layers(es)
           T == Levels(es)
           F == Fronts(Root(es))
<1>1. T \in 1 .. MaxDepth /\ T \in Nat /\ DOMAIN L = 1 .. T
  BY LevelsFacts, LayersFacts, Constants DEF Index
<1>2. \A l \in 1 .. T : L[l] \in Seq(Nodes)
  <2>1. \A l \in 1 .. T : L[l] \in Seq(Height(l))
    BY LayerTypes
  <2> HIDE DEF L, T
  <2>2. ASSUME NEW l \in 1 .. T PROVE L[l] \in Seq(Nodes)
    <3>1. Height(l) \subseteq Nodes
      BY HeightFacts
    <3> DEFINE s == L[l]
               H == Height(l)
    <3>2. s \in Seq(H) /\ H \subseteq Nodes
      BY <2>1, <3>1
    <3> HIDE DEF s, H
    <3>3. s \in Seq(Nodes)
      BY <3>2
    <3>4. QED
      BY <3>3 DEF s
  <2>3. QED
    BY <2>2
<1>3. /\ \A d \in 1 .. MaxDepth : \E l \in 1 .. T : F[d] = L[l]
      /\ \A l \in 1 .. T : \E d \in 1 .. MaxDepth : F[d] = L[l]
  BY WalkFacts
<1>4. Len(L[T]) = 1 /\ Root(es) = L[T][1]
  BY OneRoot DEF Root, Index
<1>5. PlanIndex(es) = FlattenSeq(L)
  BY DEF PlanIndex, Index
<1>6. L = [l \in 1 .. T |-> L[l]]
  BY LayersFacts DEF Index
<1>7. Visited(Root(es)) = UNION {Range(F[d]) : d \in 1 .. MaxDepth}
  BY DEF Visited
<1> HIDE DEF L, T, F
<1>8. L \in Seq(Seq(Nodes)) /\ Len(L) = T
  <2>1. L \in [1 .. T -> Seq(Nodes)]
    BY <1>2, <1>6
  <2>2. QED
    BY <1>1, <2>1
<1>9. FlattenSeq(L) \in Seq(Nodes) /\ Range(FlattenSeq(L)) = UNION {Range(L[l]) : l \in 1 .. T}
  BY <1>8, FlattenRange
<1>10. UNION {Range(F[d]) : d \in 1 .. MaxDepth} = UNION {Range(L[l]) : l \in 1 .. T}
  BY <1>3
<1>11. Range(FlattenSeq(L)) \subseteq Nodes
  BY <1>9, RangeOfSeq
<1>12. Root(es) \in Nodes
  <2> DEFINE s == L[T]
  <2>1. s \in Seq(Nodes) /\ Len(s) = 1 /\ Root(es) = s[1]
    BY <1>1, <1>2, <1>4
  <2> HIDE DEF s
  <2>2. QED
    BY <2>1
<1>13. QED
  BY <1>5, <1>7, <1>9, <1>10, <1>11, <1>12, NoneAssumption

\* The walk finds the entries, in their order.
LEMMA ReadFacts ==
  ASSUME NEW es, Index(es)
  PROVE  ReadIndex(Root(es)) = es
<1> DEFINE F == Fronts(Root(es))
           a == LeafLayer(es)
           gs == Groups(es, Leaf)
<1>1. F[MaxDepth] = a
  BY WalkFacts, LayersFacts DEF Index
<1>2. DOMAIN a = DOMAIN gs /\ \A i \in DOMAIN a : a[i] = LeafNode(gs[i])
  BY LeafLayerFacts DEF Index
<1>3. gs \in Seq(Seq(1 .. MaxMade)) /\ FlattenSeq(gs) = es
  BY GroupsFacts, GroupsJoin, Constants DEF Index
<1>4. ReadIndex(Root(es)) = FlattenSeq([i \in DOMAIN F[MaxDepth] |-> F[MaxDepth][i].entries])
  BY VisitedFacts DEF ReadIndex
<1> HIDE DEF F, a, gs
<1>5. [i \in DOMAIN a |-> a[i].entries] = [i \in DOMAIN gs |-> gs[i]]
  <2>1. \A i \in DOMAIN a : a[i].entries = gs[i]
    BY <1>2 DEF LeafNode
  <2>2. QED
    BY <1>2, <2>1
<1>6. gs = [i \in DOMAIN gs |-> gs[i]]
  BY <1>3
<1>7. QED
  BY <1>1, <1>3, <1>4, <1>5, <1>6

\* Every node is what read_index expects at its depth.
LEMMA SoundFacts ==
  ASSUME NEW es, Index(es)
  PROVE  /\ Sound(Root(es))
         /\ \A d \in 1 .. MaxDepth : IsInjective(Fronts(Root(es))[d])
<1> DEFINE L == Layers(es)
           T == Levels(es)
           F == Fronts(Root(es))
<1>1. T \in 1 .. MaxDepth
  BY LevelsFacts DEF Index
<1>2. \A l \in 1 .. T : l # 1 => L[l] = BranchLayer(T - l + 1, L[l - 1])
  BY LayersFacts DEF Index
<1>3. \A l \in 1 .. T : L[l] \in Seq(Height(l)) /\ IsInjective(L[l])
  BY LayerTypes
<1>4. \A d \in 1 .. MaxDepth : F[d] = IF d <= T THEN L[T - d + 1] ELSE L[1]
  BY FrontsAreLayers
<1>5. \A d \in 1 .. MaxDepth : \E l \in 1 .. T : F[d] = L[l]
  BY WalkFacts
<1> DEFINE Right(n, d) ==
             /\ n.kind = "leaf" => n.count = Len(n.entries)
             /\ n.kind = "branch" =>
                  /\ n.depth = d /\ d < MaxDepth
                  /\ n.count = Total(n.children) /\ Len(n.children) \in 1 .. Fan
                  /\ \A i \in DOMAIN n.children : n.children[i].count > 0
<1>6. Sound(Root(es)) <=> \A d \in 1 .. MaxDepth : \A n \in Range(F[d]) : Right(n, d)
  BY DEF Sound
<1> HIDE DEF L, T, F
<1>7. ASSUME NEW d \in 1 .. MaxDepth, NEW n \in Range(F[d]) PROVE Right(n, d)
  <2>1. CASE d < T
    <3> DEFINE s == L[T - d]
               gs == Groups(s, Fan)
               b == BranchLayer(d, s)
    <3>1. /\ T - d + 1 \in 1 .. T /\ T - d + 1 # 1 /\ T - d \in 1 .. T /\ T - d \in Nat
          /\ T - (T - d + 1) + 1 = d /\ (T - d + 1) - 1 = T - d
          /\ d <= T /\ d < MaxDepth /\ d \in 1 .. MaxDepth - 1
      BY <1>1, <1>7, <2>1, Constants
    <3>2. F[d] = b
      BY <1>2, <1>4, <3>1
    <3>3. s \in Seq(Height(T - d)) /\ IsInjective(s)
      BY <1>3, <3>1
    <3>4. \A x \in Height(T - d) : x.count \in Nat \ {0}
      BY <3>1, HeightFacts
    <3> HIDE DEF s
    <3>5. /\ b \in Seq(BranchNodes(Height(T - d)))
          /\ \A i \in DOMAIN b : b[i] = BranchNode(d, gs[i])
      BY <3>1, <3>3, <3>4, BranchLayerFacts
    <3> HIDE DEF b, gs
    <3>6. PICK i \in DOMAIN b : n = b[i]
      BY <1>7, <3>2 DEF Range
    <3>7. n \in BranchNodes(Height(T - d)) /\ n = BranchNode(d, gs[i])
      BY <3>5, <3>6, ElementOfSeq, LenProperties
    <3>8. /\ n.kind = "branch" /\ n.depth = d /\ n.count = Total(n.children)
      BY <3>7 DEF BranchNode
    <3>9. Len(n.children) \in 1 .. Fan /\ n.children \in Seq(Height(T - d))
      BY <3>7 DEF BranchNodes
    <3>10. \A j \in DOMAIN n.children : n.children[j].count > 0
      <4>1. ASSUME NEW j \in DOMAIN n.children PROVE n.children[j].count > 0
        <5>1. n.children[j] \in Height(T - d)
          BY <3>9, ElementOfSeq, LenProperties
        <5>2. QED
          BY <3>4, <5>1
      <4>2. QED
        BY <4>1
    <3>11. QED
      BY <3>1, <3>8, <3>9, <3>10
  <2>2. CASE ~(d < T)
    <3>1. F[d] = L[1]
      <4>1. d <= T => T - d + 1 = 1
        BY <1>1, <1>7, <2>2, Constants
      <4>2. QED
        BY <1>4, <4>1
    <3>2. L[1] \in Seq(LeafNodes)
      BY <1>1, <1>3, Constants DEF Height
    <3>3. n \in LeafNodes
      BY <1>7, <3>1, <3>2, RangeOfSeq
    <3>4. QED
      BY <3>3 DEF LeafNodes
  <2>3. QED
    BY <2>1, <2>2
<1>8. \A d \in 1 .. MaxDepth : IsInjective(F[d])
  BY <1>3, <1>5
<1>9. QED
  BY <1>6, <1>7, <1>8 DEF F

-----------------------------------------------------------------------------
(* Beginnings.                                                              *)

\* IsPrefix, element by element.
LEMMA PrefixFacts ==
  ASSUME NEW S, NEW s \in Seq(S), NEW t \in Seq(S)
  PROVE  IsPrefix(s, t) <=> Len(s) <= Len(t) /\ \A i \in 1 .. Len(s) : s[i] = t[i]
<1>1. Len(s) \in Nat /\ Len(t) \in Nat
  BY LenProperties
<1>2. SubSeq(s, 1, Len(s)) = s
  BY SubSeqFull
<1>3. ASSUME Len(s) <= Len(t)
      PROVE  SubSeq(t, 1, Len(s)) = s <=> \A i \in 1 .. Len(s) : s[i] = t[i]
  <2> DEFINE u == SubSeq(t, 1, Len(s))
  <2>1. \A i \in 1 .. Len(s) : t[i] \in S
    BY <1>1, <1>3, ElementOfSeq
  <2>2. u \in Seq(S) /\ Len(u) = (IF 1 <= Len(s) THEN Len(s) - 1 + 1 ELSE 0)
        /\ \A i \in 1 .. Len(s) - 1 + 1 : u[i] = t[1 + i - 1]
    BY <1>1, <2>1, SubSeqProperties
  <2> HIDE DEF u
  <2>3. Len(u) = Len(s) /\ \A i \in 1 .. Len(s) : u[i] = t[i]
    BY <1>1, <2>2
  <2>4. u = s <=> \A i \in 1 .. Len(s) : s[i] = u[i]
    BY <2>2, <2>3, SeqEqual
  <2>5. QED
    BY <2>3, <2>4 DEF u
<1>4. QED
  BY <1>2, <1>3 DEF IsPrefix

LEMMA PrefixTransitive ==
  ASSUME NEW S, NEW s \in Seq(S), NEW t \in Seq(S), NEW u \in Seq(S),
         IsPrefix(s, t), IsPrefix(t, u)
  PROVE  IsPrefix(s, u)
<1>1. Len(s) \in Nat /\ Len(t) \in Nat /\ Len(u) \in Nat
  BY LenProperties
<1>2. /\ Len(s) <= Len(t) /\ \A i \in 1 .. Len(s) : s[i] = t[i]
      /\ Len(t) <= Len(u) /\ \A i \in 1 .. Len(t) : t[i] = u[i]
  BY PrefixFacts
<1>3. Len(s) <= Len(u) /\ \A i \in 1 .. Len(s) : s[i] = u[i]
  BY <1>1, <1>2
<1>4. QED
  BY <1>3, PrefixFacts

LEMMA PrefixConcat ==
  ASSUME NEW S, NEW s \in Seq(S), NEW t \in Seq(S)
  PROVE  IsPrefix(s, s \o t)
<1>1. Len(s) \in Nat /\ Len(t) \in Nat
  BY LenProperties
<1>2. /\ s \o t \in Seq(S) /\ Len(s \o t) = Len(s) + Len(t)
      /\ \A i \in 1 .. Len(s) + Len(t) :
           (s \o t)[i] = IF i <= Len(s) THEN s[i] ELSE t[i - Len(s)]
  BY ConcatProperties
<1>3. Len(s) <= Len(s \o t) /\ \A i \in 1 .. Len(s) : s[i] = (s \o t)[i]
  BY <1>1, <1>2
<1>4. QED
  BY <1>2, <1>3, PrefixFacts

\* A page goes on where the last one ended.
LEMMA PageGoesOn ==
  ASSUME NEW S, NEW es \in Seq(S), NEW got \in Seq(S), IsPrefix(got, es),
         NEW limit \in Nat \ {0}
  PROVE  LET page == PageOf(es, Len(got), limit)
         IN  /\ page \in Seq(S) /\ got \o page \in Seq(S) /\ IsPrefix(got \o page, es)
<1> DEFINE n == Len(got)
           b == IF n + limit < Len(es) THEN n + limit ELSE Len(es)
           page == PageOf(es, n, limit)
<1>1. n \in Nat /\ Len(es) \in Nat /\ n <= Len(es) /\ \A i \in 1 .. n : got[i] = es[i]
  BY LenProperties, PrefixFacts
<1>2. page = SubSeq(es, n + 1, b)
  BY DEF PageOf
<1> HIDE DEF n
<1>3. b \in Nat /\ n <= b /\ b <= Len(es)
  BY <1>1
<1> HIDE DEF b, page
<1>4. \A i \in n + 1 .. b : es[i] \in S
  BY <1>1, <1>3, ElementOfSeq
<1>5. /\ page \in Seq(S) /\ Len(page) = (IF n + 1 <= b THEN b - (n + 1) + 1 ELSE 0)
      /\ \A i \in 1 .. b - (n + 1) + 1 : page[i] = es[(n + 1) + i - 1]
  <2> DEFINE m == n + 1
  <2>1. m \in Int /\ b \in Int /\ \A i \in m .. b : es[i] \in S
    BY <1>1, <1>3, <1>4
  <2> HIDE DEF m
  <2>2. /\ SubSeq(es, m, b) \in Seq(S)
        /\ Len(SubSeq(es, m, b)) = IF m <= b THEN b - m + 1 ELSE 0
        /\ \A i \in 1 .. b - m + 1 : SubSeq(es, m, b)[i] = es[m + i - 1]
    BY <2>1, SubSeqProperties
  <2>3. QED
    BY <1>2, <2>2 DEF m
<1>6. Len(page) = b - n /\ Len(page) \in Nat
  BY <1>1, <1>3, <1>5
<1>7. /\ got \o page \in Seq(S) /\ Len(got \o page) = n + Len(page)
      /\ \A i \in 1 .. n + Len(page) :
           (got \o page)[i] = IF i <= n THEN got[i] ELSE page[i - n]
  BY <1>5, ConcatProperties DEF n
<1>8. Len(got \o page) = b
  BY <1>1, <1>3, <1>6, <1>7
<1>9. ASSUME NEW i \in 1 .. b PROVE (got \o page)[i] = es[i]
  <2>1. (got \o page)[i] = IF i <= n THEN got[i] ELSE page[i - n]
    BY <1>1, <1>3, <1>6, <1>7
  <2>2. CASE i <= n
    BY <1>1, <2>1, <2>2
  <2>3. CASE ~(i <= n)
    <3>1. i - n \in 1 .. b - (n + 1) + 1 /\ (n + 1) + (i - n) - 1 = i
      BY <1>1, <1>3, <2>3
    <3>2. page[i - n] = es[i]
      BY <1>5, <3>1
    <3>3. QED
      BY <2>1, <2>3, <3>2
  <2>4. QED
    BY <2>2, <2>3
<1>10. IsPrefix(got \o page, es)
  BY <1>3, <1>7, <1>8, <1>9, PrefixFacts
<1>11. QED
  BY <1>5, <1>7, <1>10 DEF page, n

-----------------------------------------------------------------------------
(* What an append keeps of a tree.                                          *)

\* Sequences with the same elements but possibly for the last of the first.
SameBut(s, t) == \A i \in 1 .. Len(s) - 1 : i \in 1 .. Len(t) /\ s[i] = t[i]

\* Sequences that differ in the last element at most have groups that do.
LEMMA GroupsSame ==
  ASSUME NEW S, NEW s \in Seq(S), NEW t \in Seq(S), NEW n \in Nat \ {0}, SameBut(s, t)
  PROVE  SameBut(Groups(s, n), Groups(t, n))
<1> DEFINE gs == Groups(s, n)
           gt == Groups(t, n)
<1>1. Len(gs) \in Nat /\ Enough(s, n, gs) /\ Len(s) \in Nat /\ Len(t) \in Nat
  BY GroupsFacts, LenProperties
<1>2. ASSUME NEW i \in 1 .. Len(gs) - 1 PROVE i \in 1 .. Len(gt) /\ gt[i] = gs[i]
  <2>1. i \in 1 .. Len(gs) /\ i < Len(gs) /\ i <= Len(gs) - 1 /\ i \in Nat /\ 1 <= i
    BY <1>1, <1>2
  <2> DEFINE x == i * n
  <2>2. x < Len(s) /\ x \in Nat /\ 0 < x
    <3> DEFINE k == Len(gs) - 1
    <3>1. k \in Int /\ i <= k /\ k * n < Len(s)
      BY <1>1, <2>1 DEF Enough
    <3> HIDE DEF k
    <3>2. x <= k * n /\ k * n \in Int /\ x \in Int
      BY <2>1, <3>1, Times
    <3>3. 0 * n < i * n /\ 0 * n = 0
      BY <2>1, Times
    <3> HIDE DEF x
    <3>4. QED
      BY <1>1, <3>1, <3>2, <3>3 DEF x
  <2> HIDE DEF x, gs, gt
  <2>3. \A j \in 1 .. x : j \in 1 .. Len(t) /\ s[j] = t[j]
    BY <1>1, <2>2 DEF SameBut
  <2>4. x \in 1 .. Len(t)
    BY <2>2, <2>3
  <2>5. x <= Len(t) /\ \A j \in 1 .. x : s[j] = t[j]
    BY <1>1, <2>3, <2>4
  <2>6. QED
    BY <2>1, <2>5, GroupsAgree DEF x, gs, gt
<1>3. QED
  BY <1>2 DEF SameBut

\* More entries need no fewer levels.
LEMMA LevelsGrow ==
  ASSUME NEW s, NEW t, Index(s), Index(t), Len(s) <= Len(t)
  PROVE  Levels(s) <= Levels(t)
<1> DEFINE S == Levels(s)
           T == Levels(t)
<1>1. S \in 1 .. MaxDepth /\ \A k \in 1 .. S - 1 : Len(s) > Capacity[k]
  BY LevelsFacts DEF Index
<1>2. T \in 1 .. MaxDepth /\ Len(t) <= Capacity[T]
  BY LevelsFacts DEF Index
<1>3. Len(s) \in Nat /\ Len(t) \in Nat
  BY LenProperties DEF Index
<1>4. Capacity[T] \in Int
  <2>1. T = 1 \/ T = 2 \/ T = 3
    BY <1>2, Constants
  <2>2. QED
    BY <1>2, <2>1, CapacityFacts, Constants
<1> HIDE DEF S, T
<1>5. ASSUME T < S PROVE FALSE
  <2>1. T \in 1 .. S - 1
    BY <1>1, <1>2, <1>5, Constants
  <2>2. Len(s) > Capacity[T]
    BY <1>1, <2>1
  <2> DEFINE c == Capacity[T]
             m == Len(s)
             n == Len(t)
  <2>3. m > c /\ n <= c /\ m <= n /\ m \in Int /\ n \in Int /\ c \in Int
    BY <1>2, <1>3, <1>4, <2>2
  <2> HIDE DEF c, m, n
  <2>4. QED
    BY <2>3
<1>6. S \in Int /\ T \in Int
  BY <1>1, <1>2, Constants
<1>7. QED
  BY <1>5, <1>6 DEF S, T

\* A tree of more entries has the same layers but for their last nodes.
LEMMA LayersAgree ==
  ASSUME NEW s, NEW t, Index(s), Index(t), IsPrefix(s, t)
  PROVE  \A l \in 1 .. Levels(s) :
           l \in 1 .. Levels(t) /\ SameBut(Layers(s)[l], Layers(t)[l])
<1> DEFINE K == Layers(s)
           M == Layers(t)
           S == Levels(s)
           T == Levels(t)
<1>1. /\ S \in 1 .. MaxDepth /\ T \in 1 .. MaxDepth
  BY LevelsFacts DEF Index
<1>2. /\ s \in Seq(1 .. MaxMade) /\ t \in Seq(1 .. MaxMade)
      /\ Len(s) <= Len(t) /\ \A i \in 1 .. Len(s) : s[i] = t[i]
  BY PrefixFacts DEF Index
<1>3. S <= T
  BY <1>2, LevelsGrow
<1>4. \A l \in 1 .. S : K[l] \in Seq(Height(l)) /\ IsInjective(K[l])
  BY LayerTypes
<1>5. \A l \in 1 .. T : M[l] \in Seq(Height(l)) /\ IsInjective(M[l])
  BY LayerTypes
<1>6. /\ K[1] = LeafLayer(s)
      /\ \A l \in 1 .. S : l # 1 => K[l] = BranchLayer(S - l + 1, K[l - 1])
  BY LayersFacts DEF Index
<1>7. /\ M[1] = LeafLayer(t)
      /\ \A l \in 1 .. T : l # 1 => M[l] = BranchLayer(T - l + 1, M[l - 1])
  BY LayersFacts DEF Index
<1>8. Len(K[S]) = 1
  BY OneRoot
<1> HIDE DEF K, M, S, T
<1>9. SameBut(K[1], M[1])
  <2> DEFINE gs == Groups(s, Leaf)
             gt == Groups(t, Leaf)
             a == K[1]
             b == M[1]
  <2>1. Len(s) \in Nat /\ Len(t) \in Nat
    BY <1>2, LenProperties
  <2>2. SameBut(s, t)
    BY <1>2, <2>1 DEF SameBut
  <2>3. SameBut(gs, gt)
    BY <1>2, <2>2, GroupsSame, Constants
  <2>4. /\ Len(a) = Len(gs) /\ DOMAIN a = DOMAIN gs
        /\ \A i \in DOMAIN a : a[i] = LeafNode(gs[i])
    BY <1>6, LeafLayerFacts DEF Index
  <2>5. /\ Len(b) = Len(gt) /\ DOMAIN b = DOMAIN gt
        /\ \A i \in DOMAIN b : b[i] = LeafNode(gt[i])
    BY <1>7, LeafLayerFacts DEF Index
  <2>6. /\ DOMAIN gs = 1 .. Len(gs) /\ Len(gs) \in Nat
        /\ DOMAIN gt = 1 .. Len(gt) /\ Len(gt) \in Nat
    BY <1>2, GroupsFacts, Constants
  <2> HIDE DEF gs, gt, a, b
  <2>7. ASSUME NEW i \in 1 .. Len(a) - 1 PROVE i \in 1 .. Len(b) /\ a[i] = b[i]
    <3>1. i \in 1 .. Len(gs) - 1 /\ i \in DOMAIN a
      BY <2>4, <2>6, <2>7
    <3>2. i \in 1 .. Len(gt) /\ gs[i] = gt[i]
      BY <2>3, <3>1 DEF SameBut
    <3>3. QED
      BY <2>4, <2>5, <2>6, <3>1, <3>2
  <2>8. QED
    BY <2>7 DEF SameBut, a, b
<1>10. ASSUME S = T, NEW l \in 1 .. S, l # 1, SameBut(K[l - 1], M[l - 1])
       PROVE  SameBut(K[l], M[l])
  <2> DEFINE x == K[l - 1]
             y == M[l - 1]
             d == S - l + 1
             H == Height(l - 1)
             gs == Groups(x, Fan)
             gt == Groups(y, Fan)
             a == K[l]
             b == M[l]
  <2>1. l - 1 \in 1 .. S /\ l - 1 \in Nat /\ d \in 1 .. MaxDepth - 1 /\ l \in 1 .. T
    BY <1>1, <1>10, Constants
  <2>2. x \in Seq(H) /\ IsInjective(x) /\ a = BranchLayer(d, x)
    BY <1>4, <1>6, <1>10, <2>1
  <2>3. y \in Seq(H) /\ IsInjective(y) /\ b = BranchLayer(d, y)
    BY <1>5, <1>7, <1>10, <2>1
  <2>4. \A z \in H : z.count \in Nat \ {0}
    BY <2>1, HeightFacts
  <2>5. SameBut(x, y)
    BY <1>10
  <2> HIDE DEF x, y, a, b, d, H
  <2>6. SameBut(gs, gt)
    BY <2>2, <2>3, <2>5, GroupsSame, Constants
  <2>7. /\ Len(a) = Len(gs) /\ DOMAIN a = DOMAIN gs
        /\ \A i \in DOMAIN a : a[i] = BranchNode(d, gs[i])
    BY <2>1, <2>2, <2>4, BranchLayerFacts
  <2>8. /\ Len(b) = Len(gt) /\ DOMAIN b = DOMAIN gt
        /\ \A i \in DOMAIN b : b[i] = BranchNode(d, gt[i])
    BY <2>1, <2>3, <2>4, BranchLayerFacts
  <2>9. /\ DOMAIN gs = 1 .. Len(gs) /\ Len(gs) \in Nat
        /\ DOMAIN gt = 1 .. Len(gt) /\ Len(gt) \in Nat
    BY <2>2, <2>3, GroupsFacts, Constants
  <2> HIDE DEF gs, gt
  <2>10. ASSUME NEW i \in 1 .. Len(a) - 1 PROVE i \in 1 .. Len(b) /\ a[i] = b[i]
    <3>1. i \in 1 .. Len(gs) - 1 /\ i \in DOMAIN a
      BY <2>7, <2>9, <2>10
    <3>2. i \in 1 .. Len(gt) /\ gs[i] = gt[i]
      BY <2>6, <3>1 DEF SameBut
    <3>3. QED
      BY <2>7, <2>8, <2>9, <3>1, <3>2
  <2>11. QED
    BY <2>10 DEF SameBut, a, b
<1>11. ASSUME NEW l \in 1 .. S PROVE l \in 1 .. T /\ SameBut(K[l], M[l])
  <2>1. l \in 1 .. T /\ l \in 1 .. 3 /\ (l = 1 \/ l = 2 \/ l = 3)
    BY <1>1, <1>3, <1>11, Constants
  <2>2. CASE S = T
    <3>1. S >= 2 => SameBut(K[2], M[2])
      BY <1>1, <1>9, <1>10, <2>2, Constants
    <3>2. S >= 3 => SameBut(K[3], M[3])
      BY <1>1, <1>10, <2>2, <3>1, Constants
    <3>3. QED
      BY <1>1, <1>9, <2>1, <3>1, <3>2, Constants
  <2>3. CASE S # T
    <3>1. l = 1 \/ l = S
      BY <1>1, <1>3, <1>11, <2>3, Constants
    <3>2. SameBut(K[S], M[S])
      <4>1. 1 .. Len(K[S]) - 1 = {}
        BY <1>8
      <4>2. QED
        BY <4>1 DEF SameBut
    <3>3. QED
      BY <1>9, <2>1, <3>1, <3>2
  <2>4. QED
    BY <2>2, <2>3
<1>12. QED
  BY <1>11 DEF K, M, S, T

\* A node an append does not keep is the last of its layer.
LEMMA AppendKeeps ==
  ASSUME NEW s, NEW t, Index(s), Index(t), IsPrefix(s, t)
  PROVE  Visited(Root(s)) \ Visited(Root(t)) \subseteq Spine(Root(s))
<1> DEFINE F == Fronts(Root(s))
           G == Fronts(Root(t))
           K == Layers(s)
           M == Layers(t)
           S == Levels(s)
           T == Levels(t)
<1>1. \A l \in 1 .. S : l \in 1 .. T /\ SameBut(K[l], M[l])
  BY LayersAgree
<1>2. \A d \in 1 .. MaxDepth : \E l \in 1 .. S : F[d] = K[l]
  BY WalkFacts
<1>3. \A l \in 1 .. T : \E d \in 1 .. MaxDepth : G[d] = M[l]
  BY WalkFacts
<1>4. \A l \in 1 .. S : K[l] \in Seq(Height(l))
  BY LayerTypes
<1>5. \A l \in 1 .. T : M[l] \in Seq(Height(l))
  BY LayerTypes
<1>6. /\ Visited(Root(s)) = UNION {Range(F[d]) : d \in 1 .. MaxDepth}
      /\ Visited(Root(t)) = UNION {Range(G[d]) : d \in 1 .. MaxDepth}
      /\ Spine(Root(s)) = {Last(F[d]) : d \in 1 .. MaxDepth}
  BY DEF Visited, Spine
<1> HIDE DEF F, G, K, M, S, T
<1>7. ASSUME NEW d \in 1 .. MaxDepth, NEW n \in Range(F[d]), n \notin Visited(Root(t))
      PROVE  n = Last(F[d])
  <2>1. PICK l \in 1 .. S : F[d] = K[l]
    BY <1>2
  <2> DEFINE a == K[l]
             b == M[l]
  <2>2. /\ l \in 1 .. T /\ SameBut(a, b) /\ a \in Seq(Height(l)) /\ b \in Seq(Height(l))
    BY <1>1, <1>4, <1>5
  <2>3. DOMAIN a = 1 .. Len(a) /\ Len(a) \in Nat /\ DOMAIN b = 1 .. Len(b)
    BY <2>2, LenProperties
  <2>4. PICK i \in DOMAIN a : n = a[i]
    BY <1>7, <2>1 DEF Range
  <2>5. Range(b) \subseteq Visited(Root(t))
    BY <1>3, <1>6, <2>2
  <2>6. F[d] = a
    BY <2>1
  <2> HIDE DEF a, b
  <2>7. CASE i \in 1 .. Len(a) - 1
    <3>1. i \in DOMAIN b /\ a[i] = b[i]
      BY <2>2, <2>3, <2>7 DEF SameBut
    <3>2. QED
      BY <1>7, <2>4, <2>5, <3>1 DEF Range
  <2>8. CASE i \notin 1 .. Len(a) - 1
    <3>1. i = Len(a)
      BY <2>3, <2>4, <2>8
    <3>2. QED
      BY <2>4, <2>6, <3>1 DEF Last
  <2>9. QED
    BY <2>7, <2>8
<1>8. QED
  BY <1>6, <1>7

-----------------------------------------------------------------------------
(* What a document depends on.                                              *)

\* A record whose files are there can be read.
LEMMA PayloadFacts ==
  ASSUME NEW n \in 1 .. MaxMade
  PROVE  /\ PlanPayload(n) \in Seq(File)
         /\ \A disk : Range(PlanPayload(n)) \subseteq disk => Resolves(n, disk)
<1> DEFINE body == Body[n]
           cs == [i \in DOMAIN body |-> Chunk(body[i])]
<1>1. body \in Seq(Nat) /\ Len(body) \in Nat /\ DOMAIN body = 1 .. Len(body)
  BY BodyAssumption, LenProperties
<1>2. Manifest(n) \in File /\ Object(n) \in File
  BY <1>1 DEF Manifest, Object, File
<1> HIDE DEF body
<1>3. CASE Chunked(n)
  <2>1. \A i \in 1 .. Len(body) : Chunk(body[i]) \in File
    <3>1. \A i \in 1 .. Len(body) : body[i] \in Nat
      BY <1>1, ElementOfSeq
    <3>2. QED
      BY <3>1 DEF Chunk, File
  <2>2. cs \in Seq(File) /\ Len(cs) = Len(body)
    BY <1>1, <2>1
  <2>3. \A i \in 1 .. Len(body) : cs[i] = Chunk(body[i])
    BY <1>1
  <2>4. PlanPayload(n) = Append(cs, Manifest(n))
    BY <1>3 DEF PlanPayload, body
  <2> HIDE DEF cs
  <2> DEFINE p == Append(cs, Manifest(n))
  <2>5. /\ p \in Seq(File) /\ Len(p) = Len(body) + 1
        /\ \A i \in 1 .. Len(body) : p[i] = cs[i]
        /\ p[Len(body) + 1] = Manifest(n)
    BY <1>2, <2>2, AppendProperties
  <2> HIDE DEF p
  <2>6. DOMAIN p = 1 .. Len(body) + 1
    BY <2>5, LenProperties
  <2>7. Manifest(n) \in Range(p) /\ \A i \in 1 .. Len(body) : Chunk(body[i]) \in Range(p)
    <3>1. Len(body) + 1 \in DOMAIN p
      BY <1>1, <2>6
    <3>2. \A i \in 1 .. Len(body) : i \in DOMAIN p
      BY <1>1, <2>6
    <3>3. QED
      BY <2>3, <2>5, <3>1, <3>2 DEF Range
  <2>8. ASSUME NEW disk, Range(p) \subseteq disk PROVE Resolves(n, disk)
    <3>1. Manifest(n) \in disk /\ \A i \in DOMAIN body : Chunk(body[i]) \in disk
      BY <1>1, <2>7, <2>8
    <3>2. QED
      BY <1>3, <3>1 DEF Resolves, body
  <2>9. QED
    BY <2>4, <2>5, <2>8 DEF p
<1>4. CASE ~Chunked(n)
  <2>1. PlanPayload(n) = <<Object(n)>>
    BY <1>4 DEF PlanPayload
  <2>2. Object(n) \in Range(<<Object(n)>>)
    BY DEF Range
  <2>3. \A disk : Range(<<Object(n)>>) \subseteq disk => Resolves(n, disk)
    BY <1>4, <2>2 DEF Resolves
  <2>4. QED
    BY <1>2, <2>1, <2>3
<1>5. QED
  BY <1>3, <1>4

Payloads(ns) == UNION {Range(PlanPayload(n)) : n \in ns}

\* Entries whose files are there can be read.
LEMMA IndexFacts ==
  ASSUME NEW es \in Seq(1 .. MaxMade), IsInjective(es), Fits(es)
  PROVE  /\ ReadIndex(Root(es)) = es
         /\ PlanIndex(es) \in Seq(File)
         /\ IndexPaths(es) = Range(PlanIndex(es)) \cup Payloads(Range(es))
         /\ IndexPaths(es) \subseteq File
         /\ \A disk : IndexPaths(es) \subseteq disk =>
              Readable(Root(es), disk) /\ \A n \in Range(es) : Resolves(n, disk)
<1>1. Range(es) \subseteq 1 .. MaxMade
  BY RangeOfSeq
<1>2. \A n \in Range(es) : /\ PlanPayload(n) \in Seq(File)
                           /\ \A disk : Range(PlanPayload(n)) \subseteq disk => Resolves(n, disk)
  BY <1>1, PayloadFacts
<1>3. \A n \in Range(es) : Range(PlanPayload(n)) \subseteq File
  BY <1>2, RangeOfSeq
<1>4. CASE es = <<>>
  <2>1. Range(es) = {} /\ Range(<<>>) = {}
    BY <1>4 DEF Range
  <2>2. Root(es) = None /\ PlanIndex(es) = <<>> /\ IndexPaths(es) = {}
    BY <1>4 DEF Root, PlanIndex, IndexPaths
  <2>3. ReadIndex(Root(es)) = es
    BY <1>4, <2>2 DEF ReadIndex
  <2>4. PlanIndex(es) \in Seq(File)
    BY <2>2
  <2>5. IndexPaths(es) = Range(PlanIndex(es)) \cup Payloads(Range(es))
    BY <2>1, <2>2 DEF Payloads
  <2>6. QED
    BY <2>1, <2>2, <2>3, <2>4, <2>5 DEF Readable
<1>5. CASE es # <<>>
  <2>1. Index(es)
    BY <1>5 DEF Index
  <2>2. /\ PlanIndex(es) \in Seq(Nodes) /\ Visited(Root(es)) = Range(PlanIndex(es))
        /\ Visited(Root(es)) \subseteq Nodes
    BY <2>1, VisitedFacts
  <2>3. Nodes \subseteq File
    BY DEF File
  <2>4. PlanIndex(es) \in Seq(File)
    BY <2>2, <2>3
  <2>5. IndexPaths(es) = Visited(Root(es)) \cup Payloads(Range(es))
    BY <1>5 DEF IndexPaths, Payloads
  <2>6. IndexPaths(es) \subseteq File
    BY <1>3, <2>2, <2>3, <2>5 DEF Payloads
  <2>7. ASSUME NEW disk, IndexPaths(es) \subseteq disk
        PROVE  Readable(Root(es), disk) /\ \A n \in Range(es) : Resolves(n, disk)
    <3>1. Readable(Root(es), disk)
      BY <2>1, <2>5, <2>7, SoundFacts DEF Readable
    <3>2. \A n \in Range(es) : Range(PlanPayload(n)) \subseteq disk
      BY <2>5, <2>7 DEF Payloads
    <3>3. QED
      BY <1>2, <3>1, <3>2
  <2>8. QED
    BY <2>1, <2>2, <2>4, <2>5, <2>6, <2>7, ReadFacts
<1>6. QED
  BY <1>4, <1>5

\* What is published for new records.
LEMMA PayloadsFacts ==
  ASSUME NEW new \in Seq(1 .. MaxMade)
  PROVE  LET payloads == FlattenSeq([i \in DOMAIN new |-> PlanPayload(new[i])])
         IN  payloads \in Seq(File) /\ Range(payloads) = Payloads(Range(new))
<1> DEFINE ps == [i \in DOMAIN new |-> PlanPayload(new[i])]
<1>1. Len(new) \in Nat /\ DOMAIN new = 1 .. Len(new)
  BY LenProperties
<1>2. \A i \in 1 .. Len(new) : PlanPayload(new[i]) \in Seq(File)
  <2>1. \A i \in 1 .. Len(new) : new[i] \in 1 .. MaxMade
    BY ElementOfSeq
  <2>2. QED
    BY <2>1, PayloadFacts
<1>3. ps \in Seq(Seq(File)) /\ Len(ps) = Len(new)
  BY <1>1, <1>2
<1>4. \A i \in 1 .. Len(new) : ps[i] = PlanPayload(new[i])
  BY <1>1
<1> HIDE DEF ps
<1>5. /\ FlattenSeq(ps) \in Seq(File)
      /\ Range(FlattenSeq(ps)) = UNION {Range(ps[i]) : i \in 1 .. Len(ps)}
  BY <1>3, FlattenRange
<1>6. UNION {Range(ps[i]) : i \in 1 .. Len(ps)} = Payloads(Range(new))
  <2>1. UNION {Range(ps[i]) : i \in 1 .. Len(ps)}
          = UNION {Range(PlanPayload(new[i])) : i \in 1 .. Len(new)}
    BY <1>3, <1>4
  <2>2. Range(new) = {new[i] : i \in 1 .. Len(new)}
    BY RangeEquality
  <2>3. QED
    BY <2>1, <2>2 DEF Payloads
<1>7. QED
  BY <1>5, <1>6 DEF ps

-----------------------------------------------------------------------------
(* The invariant is inductive.                                              *)

LEMMA SeqGrows ==
  ASSUME NEW a \in Nat, NEW b \in Nat, a <= b
  PROVE  Seq(1 .. a) \subseteq Seq(1 .. b)
<1>1. 1 .. a \subseteq 1 .. b
  OBVIOUS
<1>2. QED
  BY <1>1, SeqMonotonic

LEMMA ListsFacts ==
  ASSUME made \in 0 .. MaxMade, NEW es \in Lists
  PROVE  es \in Seq(1 .. MaxMade) /\ IsInjective(es) /\ Fits(es)
<1>1. es \in Seq(1 .. made) /\ IsInjective(es) /\ Fits(es)
  BY DEF Lists
<1>2. made \in Nat /\ made <= MaxMade
  BY BoundsAssumption
<1>3. Seq(1 .. made) \subseteq Seq(1 .. MaxMade)
  BY <1>2, BoundsAssumption, SeqGrows
<1>4. QED
  BY <1>1, <1>3

LEMMA ListsGrow ==
  ASSUME made \in Nat, made' \in Nat, made <= made'
  PROVE  Lists \subseteq Lists'
<1>1. ASSUME NEW es \in Lists PROVE es \in Lists'
  <2>1. es \in Seq(1 .. made) /\ IsInjective(es) /\ Fits(es)
    BY DEF Lists
  <2>2. 1 .. made \subseteq 1 .. made'
    OBVIOUS
  <2>3. es \in Seq(1 .. made')
    BY <2>1, <2>2
  <2>4. QED
    BY <2>1, <2>3 DEF Lists
<1>2. QED
  BY <1>1

\* The entries there are and new ones behind them.
LEMMA NewEntries ==
  ASSUME NEW m \in Nat, NEW n \in Nat, NEW es \in Seq(1 .. m), IsInjective(es),
         NEW new \in Seq(1 .. m + n), Len(new) = n, \A i \in 1 .. n : new[i] = m + i
  PROVE  /\ es \o new \in Seq(1 .. m + n) /\ IsInjective(es \o new)
         /\ IsPrefix(es, es \o new)
         /\ Range(es \o new) = Range(es) \cup Range(new)
<1> DEFINE U == 1 .. m + n
           t == es \o new
<1>1. new \in Seq(U) /\ Len(new) = n /\ \A i \in 1 .. n : new[i] = m + i
  OBVIOUS
<1>2. es \in Seq(U)
  BY SeqGrows
<1>3. Len(es) \in Nat /\ \A i \in 1 .. Len(es) : es[i] \in 1 .. m
  BY LenProperties, ElementOfSeq
<1>4. DOMAIN es = 1 .. Len(es)
  BY LenProperties
<1> HIDE DEF U
<1>5. /\ t \in Seq(U) /\ Len(t) = Len(es) + n
      /\ \A i \in 1 .. Len(es) + n : t[i] = IF i <= Len(es) THEN es[i] ELSE new[i - Len(es)]
  <2>1. /\ t \in Seq(U) /\ Len(t) = Len(es) + Len(new)
        /\ \A i \in 1 .. Len(es) + Len(new) :
             t[i] = IF i <= Len(es) THEN es[i] ELSE new[i - Len(es)]
    BY <1>1, <1>2, ConcatProperties, Zenon
  <2>2. Len(new) = n
    BY <1>1
  <2> HIDE DEF t
  <2>3. QED
    BY <2>1, <2>2, Zenon
<1>6. IsPrefix(es, t) /\ Range(t) = Range(es) \cup Range(new)
  BY <1>1, <1>2, PrefixConcat, RangeConcatenation
<1>7. DOMAIN t = 1 .. Len(es) + n
  BY <1>5, LenProperties
<1> HIDE DEF t
<1>8. ASSUME NEW i \in 1 .. Len(es) + n
      PROVE  /\ i <= Len(es) => t[i] = es[i] /\ t[i] \in 1 .. m /\ i \in 1 .. Len(es)
             /\ ~(i <= Len(es)) => t[i] = m + (i - Len(es)) /\ t[i] > m
  <2>1. i <= Len(es) => i \in 1 .. Len(es)
    BY <1>3
  <2>2. ~(i <= Len(es)) => i - Len(es) \in 1 .. n
    BY <1>3
  <2>3. i <= Len(es) => t[i] = es[i] /\ t[i] \in 1 .. m
    BY <1>3, <1>5, <2>1
  <2>4. ~(i <= Len(es)) => t[i] = m + (i - Len(es))
    BY <1>1, <1>5, <2>2
  <2>5. ~(i <= Len(es)) => m + (i - Len(es)) > m
    BY <1>3
  <2>6. QED
    BY <2>1, <2>3, <2>4, <2>5
<1>9. ASSUME NEW i \in 1 .. Len(es) + n, NEW j \in 1 .. Len(es) + n, t[i] = t[j]
      PROVE  i = j
  <2>1. CASE i <= Len(es) /\ j <= Len(es)
    <3>1. i \in DOMAIN es /\ j \in DOMAIN es /\ es[i] = es[j]
      BY <1>4, <1>8, <1>9, <2>1
    <3>2. QED
      BY <3>1 DEF IsInjective
  <2>2. CASE i <= Len(es) /\ ~(j <= Len(es))
    <3>1. t[i] \in 1 .. m /\ t[j] > m
      BY <1>8, <2>2
    <3>2. QED
      BY <1>9, <3>1
  <2>3. CASE ~(i <= Len(es)) /\ j <= Len(es)
    <3>1. t[j] \in 1 .. m /\ t[i] > m
      BY <1>8, <2>3
    <3>2. QED
      BY <1>9, <3>1
  <2>4. CASE ~(i <= Len(es)) /\ ~(j <= Len(es))
    <3>1. m + (i - Len(es)) = m + (j - Len(es))
      BY <1>8, <1>9, <2>4
    <3>2. QED
      BY <1>3, <3>1
  <2>5. QED
    BY <2>1, <2>2, <2>3, <2>4
<1>10. IsInjective(t)
  BY <1>7, <1>9 DEF IsInjective
<1>11. QED
  BY <1>1, <1>5, <1>6, <1>10 DEF t, U

LEMMA InitHolds ==
  ASSUME Init
  PROVE  IInv
<1>1. TypeOK
  BY BoundsAssumption DEF Init, TypeOK
<1>2. Stored
  <2>1. <<>> \in Lists
    <3>1. Fits(<<>>)
      <4>1. Len(<<>>) = 0 /\ Capacity[MaxDepth] \in Nat
        BY CapacityFacts, Constants
      <4>2. QED
        BY <4>1 DEF Fits
    <3>2. IsInjective(<<>>)
      BY DEF IsInjective
    <3>3. QED
      BY <3>1, <3>2 DEF Lists
  <2>2. Range(<<>>) = {} /\ IndexPaths(<<>>) = {}
    BY DEF Range, IndexPaths
  <2>3. QED
    BY <2>1, <2>2 DEF Init, Stored
<1>3. Planned
  BY DEF Init, Planned
<1>4. Listings
  BY DEF Init, Listings
<1>5. QED
  BY <1>1, <1>2, <1>3, <1>4 DEF IInv

\* A plan publishes what its entries depend on and is not there.
LEMMA PrepareKeeps ==
  ASSUME IInv, NEW es, NEW new \in Seq(1 .. MaxMade), NEW recovers \in BOOLEAN,
         Prepare(es, new, recovers), made' \in made .. MaxMade,
         es \in Seq(1 .. made'), IsInjective(es),
         Payloads(Range(es)) \subseteq files \cup Payloads(Range(new)),
         ~recovers => IsPrefix(entries, es)
  PROVE  IInv'
<1> DEFINE payloads == FlattenSeq([i \in DOMAIN new |-> PlanPayload(new[i])])
           left == payloads \o PlanIndex(es)
<1>0. made \in Nat /\ made' \in Nat /\ made <= made' /\ made' \in 0 .. MaxMade
      /\ made \in 0 .. MaxMade
  BY BoundsAssumption DEF IInv, TypeOK
<1>1. /\ plan = None /\ rev < MaxRev /\ Fits(es)
      /\ plan' = [entries |-> es, left |-> left, recovers |-> recovers]
      /\ UNCHANGED <<entries, retained, files, rev, listing>>
  BY DEF Prepare
<1>2. es \in Seq(1 .. MaxMade)
  <2>1. Seq(1 .. made') \subseteq Seq(1 .. MaxMade)
    <3>1. made' <= MaxMade
      BY <1>0
    <3>2. QED
      BY <1>0, <3>1, BoundsAssumption, SeqGrows
  <2>2. QED
    BY <2>1
<1>3. /\ PlanIndex(es) \in Seq(File)
      /\ IndexPaths(es) = Range(PlanIndex(es)) \cup Payloads(Range(es))
  BY <1>1, <1>2, IndexFacts
<1>4. payloads \in Seq(File) /\ Range(payloads) = Payloads(Range(new))
  BY PayloadsFacts
<1> HIDE DEF payloads
<1>5. left \in Seq(File) /\ Range(left) = Range(payloads) \cup Range(PlanIndex(es))
  BY <1>3, <1>4, ConcatProperties, RangeConcatenation
<1> HIDE DEF left
<1>6. es \in Lists'
  BY <1>1 DEF Lists
<1>7. TypeOK'
  BY <1>0, <1>1 DEF IInv, TypeOK
<1>8. Stored'
  <2>1. Lists \subseteq Lists'
    BY <1>0, ListsGrow
  <2>2. entries' \in Lists' /\ retained' \in Seq(Lists')
    <3>1. entries \in Lists /\ retained \in Seq(Lists)
      BY DEF IInv, Stored
    <3>2. retained \in Seq(Lists')
      <4> DEFINE A == Lists
                 B == Lists'
      <4>1. retained \in Seq(A) /\ A \subseteq B
        BY <2>1, <3>1
      <4> HIDE DEF A, B
      <4>2. retained \in Seq(B)
        BY <4>1
      <4>3. QED
        BY <4>2 DEF B
    <3>3. QED
      BY <1>1, <2>1, <3>1, <3>2
  <2>3. QED
    BY <1>1, <2>2 DEF IInv, Stored
<1>9. Planned'
  <2>1. /\ plan'.entries = es /\ plan'.left = left /\ plan'.recovers = recovers
    BY <1>1
  <2>2. IndexPaths(es) \subseteq files \cup Range(left)
    BY <1>3, <1>4, <1>5
  <2>3. QED
    BY <1>1, <1>5, <1>6, <2>1, <2>2 DEF Planned
<1>10. Listings'
  BY <1>1 DEF IInv, Listings
<1>11. QED
  BY <1>7, <1>8, <1>9, <1>10 DEF IInv

LEMMA ArchiveKeeps ==
  ASSUME IInv, NEW n \in Batches, Archive(n)
  PROVE  IInv'
<1>1. /\ made \in 0 .. MaxMade /\ n \in Nat \ {0} /\ made + n <= MaxMade /\ made' = made + n
  BY LimitsAssumption DEF IInv, TypeOK, Archive
<1>2. entries \in Seq(1 .. made) /\ IsInjective(entries) /\ entries \in Lists
  BY DEF IInv, Stored, Lists
<1>3. entries \in Seq(1 .. MaxMade) /\ Fits(entries)
  BY <1>1, <1>2, ListsFacts
<1>4. ReadIndex(Root(entries)) = entries /\ Payloads(Range(entries)) \subseteq IndexPaths(entries)
  BY <1>2, <1>3, IndexFacts
<1> DEFINE es == entries \o New(n)
<1>5. Prepare(es, New(n), FALSE)
  BY <1>4 DEF Archive
<1>6. /\ New(n) \in Seq(1 .. made + n)
      /\ es \in Seq(1 .. made + n) /\ IsInjective(es)
      /\ IsPrefix(entries, es)
      /\ Range(es) = Range(entries) \cup Range(New(n))
  <2>1. made \in Nat /\ n \in Nat
    BY <1>1
  <2>2. /\ New(n) \in Seq(1 .. made + n) /\ Len(New(n)) = n
        /\ \A i \in 1 .. n : New(n)[i] = made + i
    BY <2>1 DEF New
  <2>3. QED
    BY <1>2, <2>1, <2>2, NewEntries
<1>7. New(n) \in Seq(1 .. MaxMade)
  <2>1. made + n \in Nat /\ made + n <= MaxMade
    BY <1>1
  <2>2. Seq(1 .. made + n) \subseteq Seq(1 .. MaxMade)
    BY <2>1, BoundsAssumption, SeqGrows
  <2>3. QED
    BY <1>6, <2>2
<1>8. IndexPaths(entries) \subseteq files
  BY DEF IInv, Stored
<1> HIDE DEF es
<1>9. Payloads(Range(es)) \subseteq files \cup Payloads(Range(New(n)))
  BY <1>4, <1>6, <1>8 DEF Payloads
<1>10. made' \in made .. MaxMade
  BY <1>1, BoundsAssumption
<1>11. QED
  BY <1>1, <1>5, <1>6, <1>7, <1>9, <1>10, PrepareKeeps

LEMMA RecoverKeeps ==
  ASSUME IInv, Recover
  PROVE  IInv'
<1>1. PICK i \in DOMAIN retained : Prepare(ReadIndex(Root(retained[i])), <<>>, TRUE)
  BY DEF Recover
<1> DEFINE es == retained[i]
<1>2. made' = made /\ made \in 0 .. MaxMade
  BY DEF IInv, TypeOK, Recover
<1>3. es \in Lists /\ es \in Range(retained)
  <2>1. retained \in Seq(Lists)
    BY DEF IInv, Stored
  <2> DEFINE A == Lists
  <2> HIDE DEF A
  <2>2. retained \in Seq(A)
    BY <2>1 DEF A
  <2>3. retained[i] \in A /\ retained[i] \in Range(retained)
    BY <2>2, ElementOfSeq, LenProperties DEF Range
  <2>4. QED
    BY <2>3 DEF A
<1>4. es \in Seq(1 .. made) /\ IsInjective(es)
  BY <1>3 DEF Lists
<1>5. es \in Seq(1 .. MaxMade) /\ Fits(es)
  BY <1>2, <1>3, ListsFacts
<1>6. ReadIndex(Root(es)) = es /\ Payloads(Range(es)) \subseteq IndexPaths(es)
  BY <1>4, <1>5, IndexFacts
<1>7. IndexPaths(es) \subseteq files
  BY <1>3 DEF IInv, Stored
<1>8. Prepare(es, <<>>, TRUE)
  BY <1>1, <1>6
<1> HIDE DEF es
<1>9. <<>> \in Seq(1 .. MaxMade) /\ made' \in made .. MaxMade
  BY <1>2, BoundsAssumption
<1>10. QED
  BY <1>2, <1>4, <1>6, <1>7, <1>8, <1>9, PrepareKeeps

\* What is published is no longer left to publish.
LEMMA PublishKeeps ==
  ASSUME IInv, Publish
  PROVE  IInv'
<1> DEFINE left == plan.left
<1>1. /\ plan # None /\ left # <<>>
      /\ files' = files \cup {Head(left)}
      /\ plan' = [plan EXCEPT !.left = Tail(@)]
      /\ UNCHANGED <<entries, retained, made, rev, listing>>
  BY DEF Publish
<1>2. /\ rev < MaxRev
      /\ plan \in [entries : Lists, left : Seq(File), recovers : BOOLEAN]
      /\ IndexPaths(plan.entries) \subseteq files \cup Range(left)
      /\ ~plan.recovers => IsPrefix(entries, plan.entries)
  BY <1>1 DEF IInv, Planned
<1>0. left \in Seq(File)
  BY <1>2
<1>3. Head(left) \in File /\ Tail(left) \in Seq(File)
      /\ Range(left) \subseteq {Head(left)} \cup Range(Tail(left))
  <2> HIDE DEF left
  <2>1. /\ Head(left) \in File /\ Tail(left) \in Seq(File)
        /\ Len(Tail(left)) = Len(left) - 1
        /\ \A i \in 1 .. Len(Tail(left)) : Tail(left)[i] = left[i + 1]
    BY <1>0, <1>1, HeadTailProperties
  <2>2. DOMAIN left = 1 .. Len(left) /\ DOMAIN Tail(left) = 1 .. Len(Tail(left))
        /\ Len(left) \in Nat
    BY <1>0, <2>1, LenProperties
  <2>3. ASSUME NEW i \in DOMAIN left
        PROVE  left[i] = Head(left) \/ left[i] \in Range(Tail(left))
    <3>1. CASE i = 1
      BY <1>0, <3>1
    <3>2. CASE i # 1
      <4>1. i - 1 \in 1 .. Len(Tail(left)) /\ (i - 1) + 1 = i
        BY <2>1, <2>2, <2>3, <3>2
      <4>2. left[i] = Tail(left)[i - 1] /\ i - 1 \in DOMAIN Tail(left)
        BY <2>1, <2>2, <4>1
      <4>3. QED
        BY <4>2 DEF Range
    <3>3. QED
      BY <3>1, <3>2
  <2>4. QED
    BY <2>1, <2>3 DEF Range
<1>4. /\ plan' \in [entries : Lists, left : Seq(File), recovers : BOOLEAN]
      /\ plan'.entries = plan.entries /\ plan'.left = Tail(left)
      /\ plan'.recovers = plan.recovers
  BY <1>1, <1>2, <1>3
<1>5. TypeOK'
  BY <1>1, <1>3 DEF IInv, TypeOK
<1>6. Lists' = Lists
  BY <1>1 DEF Lists
<1>7. Stored'
  BY <1>1, <1>6 DEF IInv, Stored
<1> HIDE DEF left
<1>8. Planned'
  BY <1>1, <1>2, <1>3, <1>4, <1>6 DEF Planned
<1>9. Listings'
  BY <1>1 DEF IInv, Listings
<1>10. QED
  BY <1>5, <1>7, <1>8, <1>9 DEF IInv

\* With nothing left to publish, all the new document depends on is there.
LEMMA CommitKeeps ==
  ASSUME IInv, Commit
  PROVE  IInv'
<1>1. /\ plan # None /\ plan.left = <<>> /\ plan' = None /\ rev' = rev + 1
      /\ retained' = Append(retained, entries) /\ entries' = plan.entries
      /\ UNCHANGED <<files, made>>
  BY DEF Commit
<1>2. /\ rev < MaxRev
      /\ plan \in [entries : Lists, left : Seq(File), recovers : BOOLEAN]
      /\ IndexPaths(plan.entries) \subseteq files \cup Range(plan.left)
      /\ ~plan.recovers => IsPrefix(entries, plan.entries)
  BY <1>1 DEF IInv, Planned
<1>3. /\ made \in 0 .. MaxMade /\ rev \in 0 .. MaxRev /\ files \subseteq File
  BY DEF IInv, TypeOK
<1>4. /\ entries \in Lists /\ retained \in Seq(Lists)
      /\ \A es \in Range(retained) \cup {entries} : IndexPaths(es) \subseteq files
  BY DEF IInv, Stored
<1>5. Lists' = Lists
  BY <1>1 DEF Lists
<1>6. entries' \in Lists /\ IndexPaths(entries') \subseteq files
  <2>1. Range(<<>>) = {}
    BY DEF Range
  <2>2. QED
    BY <1>1, <1>2, <2>1
<1>7. retained' \in Seq(Lists) /\ Range(retained') \subseteq Range(retained) \cup {entries}
  <2> DEFINE A == Lists
             S == retained
             e == entries
  <2>1. S \in Seq(A) /\ e \in A
    BY <1>4
  <2> HIDE DEF A, S, e
  <2>2. /\ Append(S, e) \in Seq(A) /\ Len(Append(S, e)) = Len(S) + 1
        /\ \A i \in 1 .. Len(S) : Append(S, e)[i] = S[i]
        /\ Append(S, e)[Len(S) + 1] = e
    BY <2>1, AppendProperties
  <2>3. DOMAIN Append(S, e) = 1 .. Len(S) + 1 /\ DOMAIN S = 1 .. Len(S) /\ Len(S) \in Nat
    BY <2>1, <2>2, LenProperties
  <2>4. ASSUME NEW i \in DOMAIN Append(S, e)
        PROVE  Append(S, e)[i] \in Range(S) \cup {e}
    <3>1. i \in DOMAIN S \/ i = Len(S) + 1
      BY <2>3, <2>4
    <3>2. QED
      BY <2>2, <2>3, <3>1 DEF Range
  <2>5. QED
    BY <1>1, <2>2, <2>4 DEF Range, A, S, e
<1>8. \A es \in Lists : es \in Seq(1 .. MaxMade)
  BY <1>3, ListsFacts
<1>9. TypeOK'
  <2>1. rev' \in 0 .. MaxRev
    BY <1>1, <1>2, <1>3, BoundsAssumption
  <2>2. retained' \in Seq(Seq(1 .. MaxMade))
    <3>1. Lists \subseteq Seq(1 .. MaxMade)
      BY <1>8
    <3>2. Seq(Lists) \subseteq Seq(Seq(1 .. MaxMade))
      BY <3>1, SeqMonotonic
    <3>3. QED
      BY <1>7, <3>2
  <2>3. entries' \in Seq(1 .. MaxMade)
    BY <1>6, <1>8
  <2>4. QED
    BY <1>1, <1>3, <2>1, <2>2, <2>3 DEF TypeOK
<1>10. Stored'
  BY <1>1, <1>4, <1>5, <1>6, <1>7 DEF Stored
<1>11. Planned'
  BY <1>1 DEF Planned
<1>12. Listings'
  <2>1. listing' = [r \in Readers |->
                      IF listing[r] = None THEN None
                      ELSE [listing[r] EXCEPT !.taken = listing[r].taken \/ plan.recovers]]
    BY DEF Commit
  <2>2. ASSUME NEW r \in Readers, listing'[r] # None
        PROVE  /\ listing'[r] \in ListingType
               /\ ~listing'[r].taken => IsPrefix(listing'[r].got, entries')
    <3> DEFINE l == listing[r]
               k == listing'[r]
    <3>1. l # None /\ k = [l EXCEPT !.taken = l.taken \/ plan.recovers]
      BY <2>1, <2>2
    <3>2. l \in ListingType /\ (~l.taken => IsPrefix(l.got, entries))
      BY <3>1 DEF IInv, Listings
    <3> HIDE DEF l, k
    <3>3. plan.recovers \in BOOLEAN /\ l.taken \in BOOLEAN /\ l.got \in Seq(1 .. MaxMade)
      BY <1>2, <3>2 DEF ListingType
    <3>4. k \in ListingType /\ k.got = l.got /\ k.taken = (l.taken \/ plan.recovers)
      BY <3>1, <3>2, <3>3 DEF ListingType
    <3>5. ASSUME ~k.taken PROVE IsPrefix(k.got, entries')
      <4>1. IsPrefix(l.got, entries) /\ IsPrefix(entries, entries')
        BY <1>1, <1>2, <3>2, <3>4, <3>5
      <4>2. entries \in Seq(1 .. MaxMade) /\ entries' \in Seq(1 .. MaxMade)
        BY <1>4, <1>6, <1>8
      <4>3. QED
        BY <3>3, <3>4, <4>1, <4>2, PrefixTransitive
    <3>6. QED
      BY <3>4, <3>5 DEF k
  <2>3. DOMAIN listing' = Readers
    BY <2>1
  <2>4. QED
    BY <2>2, <2>3 DEF Listings
<1>13. QED
  BY <1>9, <1>10, <1>11, <1>12 DEF IInv

LEMMA KillKeeps ==
  ASSUME IInv, Kill
  PROVE  IInv'
<1>1. plan' = None /\ UNCHANGED <<entries, retained, files, made, rev, listing>>
  BY DEF Kill
<1>2. Lists' = Lists
  BY <1>1 DEF Lists
<1>3. QED
  BY <1>1, <1>2 DEF IInv, TypeOK, Stored, Planned, Listings

\* A collection keeps what the kept depend on.
LEMMA CollectKeeps ==
  ASSUME IInv, Collect
  PROVE  IInv'
<1>1. plan = None /\ UNCHANGED <<entries, plan, made, rev, listing>>
  BY DEF Collect
<1>2. PICK k \in 1 .. Len(retained) :
        LET kept == SubSeq(retained, Len(retained) - k + 1, Len(retained))
        IN /\ retained' = kept
           /\ files' = files \cap UNION {IndexPaths(es) : es \in Range(kept) \cup {entries}}
  BY DEF Collect
<1> DEFINE n == Len(retained)
           m == n - k + 1
           kept == SubSeq(retained, m, n)
<1>3. /\ retained' = kept
      /\ files' = files \cap UNION {IndexPaths(es) : es \in Range(kept) \cup {entries}}
  BY <1>2
<1>4. /\ entries \in Lists /\ retained \in Seq(Lists)
      /\ \A es \in Range(retained) \cup {entries} : IndexPaths(es) \subseteq files
  BY DEF IInv, Stored
<1>5. n \in Nat /\ m \in 1 .. n /\ DOMAIN retained = 1 .. n
  BY <1>2, <1>4, LenProperties
<1>6. kept \in Seq(Lists) /\ Range(kept) \subseteq Range(retained)
  <2> DEFINE A == Lists
  <2>1. \A i \in m .. n : retained[i] \in A /\ retained[i] \in Range(retained)
    <3> HIDE DEF A
    <3>1. retained \in Seq(A)
      BY <1>4 DEF A
    <3>2. \A i \in m .. n : i \in 1 .. n
      BY <1>5
    <3> HIDE DEF m
    <3>3. QED
      BY <1>5, <3>1, <3>2, ElementOfSeq DEF Range
  <2>2. m \in Int /\ n \in Int /\ m <= n
    BY <1>5
  <2> HIDE DEF A, m, n
  <2>3. /\ kept \in Seq(A) /\ Len(kept) = n - m + 1
        /\ \A i \in 1 .. n - m + 1 : kept[i] = retained[m + i - 1]
    BY <2>1, <2>2, SubSeqProperties
  <2>4. DOMAIN kept = 1 .. n - m + 1
    BY <2>3, LenProperties
  <2>5. \A i \in 1 .. n - m + 1 : m + i - 1 \in m .. n
    BY <2>2
  <2> HIDE DEF kept
  <2>6. \A i \in DOMAIN kept : kept[i] \in Range(retained)
    BY <2>1, <2>3, <2>4, <2>5
  <2>7. QED
    BY <2>3, <2>6 DEF Range, A
<1> HIDE DEF kept, m, n
<1>7. Lists' = Lists
  BY <1>1 DEF Lists
<1>8. made \in 0 .. MaxMade
  BY DEF IInv, TypeOK
<1>9. TypeOK'
  <2>1. Lists \subseteq Seq(1 .. MaxMade)
    BY <1>8, ListsFacts
  <2>2. Seq(Lists) \subseteq Seq(Seq(1 .. MaxMade))
    BY <2>1, SeqMonotonic
  <2>3. retained' \in Seq(Seq(1 .. MaxMade))
    BY <1>3, <1>6, <2>2
  <2>4. files' \subseteq File
    BY <1>3 DEF IInv, TypeOK
  <2>5. QED
    BY <1>1, <2>3, <2>4 DEF IInv, TypeOK
<1>10. Stored'
  <2>1. ASSUME NEW es \in Range(kept) \cup {entries} PROVE IndexPaths(es) \subseteq files'
    <3>1. IndexPaths(es) \subseteq files
      BY <1>4, <1>6, <2>1
    <3>2. IndexPaths(es) \subseteq UNION {IndexPaths(x) : x \in Range(kept) \cup {entries}}
      BY <2>1
    <3>3. QED
      BY <1>3, <3>1, <3>2
  <2>2. QED
    BY <1>1, <1>3, <1>4, <1>6, <1>7, <2>1 DEF Stored
<1>11. Planned'
  BY <1>1 DEF Planned
<1>12. Listings'
  BY <1>1 DEF IInv, Listings
<1>13. QED
  BY <1>9, <1>10, <1>11, <1>12 DEF IInv

\* A page goes on in the committed entries.
LEMMA ListedFacts ==
  ASSUME IInv, NEW r \in Readers, NEW got \in Seq(1 .. MaxMade), IsPrefix(got, entries),
         NEW limit \in Limits
  PROVE  /\ Listed(r, got, limit) \in ListingType
         /\ IsPrefix(Listed(r, got, limit).got, entries)
<1>1. entries \in Lists /\ made \in 0 .. MaxMade
  BY DEF IInv, TypeOK, Stored
<1>2. entries \in Seq(1 .. MaxMade) /\ IsInjective(entries) /\ Fits(entries)
  BY <1>1, ListsFacts
<1>3. ReadIndex(Root(entries)) = entries
  BY <1>2, IndexFacts
<1> DEFINE page == PageOf(entries, Len(got), limit)
<1>4. /\ got \o page \in Seq(1 .. MaxMade) /\ IsPrefix(got \o page, entries)
  BY <1>2, PageGoesOn, LimitsAssumption
<1> HIDE DEF page
<1>5. Listed(r, got, limit) =
        [got |-> got \o page, more |-> Len(got) + Len(page) < Len(entries), taken |-> FALSE]
  BY <1>3 DEF Listed, page
<1>6. QED
  BY <1>4, <1>5 DEF ListingType

\* A step of one reader that leaves it with a beginning of the entries.
LEMMA ListingKeeps ==
  ASSUME IInv, NEW r \in Readers, NEW l,
         UNCHANGED <<entries, retained, files, plan, made, rev>>,
         listing' = [listing EXCEPT ![r] = l],
         l # None => l \in ListingType /\ (~l.taken => IsPrefix(l.got, entries))
  PROVE  IInv'
<1>1. Lists' = Lists
  BY DEF Lists
<1>2. TypeOK' /\ Stored' /\ Planned'
  BY <1>1 DEF IInv, TypeOK, Stored, Planned
<1>3. Listings'
  <2>1. DOMAIN listing = Readers
    BY DEF IInv, Listings
  <2>2. \A q \in Readers : listing'[q] = IF q = r THEN l ELSE listing[q]
    BY <2>1
  <2>3. DOMAIN listing' = Readers
    BY <2>1
  <2>4. ASSUME NEW q \in Readers, listing'[q] # None
        PROVE  /\ listing'[q] \in ListingType
               /\ ~listing'[q].taken => IsPrefix(listing'[q].got, entries)
    BY <2>2, <2>4 DEF IInv, Listings
  <2>5. QED
    BY <2>3, <2>4 DEF Listings
<1>4. QED
  BY <1>2, <1>3 DEF IInv

LEMMA ListKeeps ==
  ASSUME IInv, NEW r \in Readers, List(r)
  PROVE  IInv'
<1>1. PICK limit \in Limits : listing' = [listing EXCEPT ![r] = Listed(r, <<>>, limit)]
  BY DEF List
<1>2. <<>> \in Seq(1 .. MaxMade) /\ IsPrefix(<<>>, entries)
  <2>1. entries \in Seq(1 .. MaxMade) /\ <<>> \in Seq(1 .. MaxMade) /\ Len(<<>>) = 0
    BY DEF IInv, TypeOK
  <2>2. Len(<<>>) <= Len(entries) /\ \A i \in 1 .. Len(<<>>) : <<>>[i] = entries[i]
    BY <2>1, LenProperties
  <2>3. QED
    BY <2>1, <2>2, PrefixFacts
<1> DEFINE l == Listed(r, <<>>, limit)
<1>3. l \in ListingType /\ IsPrefix(l.got, entries)
  BY <1>2, ListedFacts
<1>4. UNCHANGED <<entries, retained, files, plan, made, rev>>
  BY DEF List
<1>5. listing' = [listing EXCEPT ![r] = l]
  BY <1>1
<1> HIDE DEF l
<1>6. QED
  BY <1>3, <1>4, <1>5, ListingKeeps

LEMMA ListOnKeeps ==
  ASSUME IInv, NEW r \in Readers, ListOn(r)
  PROVE  IInv'
<1> DEFINE got == listing[r].got
<1>1. /\ listing[r] # None /\ ~listing[r].taken
      /\ UNCHANGED <<entries, retained, files, plan, made, rev>>
  BY DEF ListOn
<1>2. PICK limit \in Limits : listing' = [listing EXCEPT ![r] = Listed(r, got, limit)]
  BY DEF ListOn
<1>3. got \in Seq(1 .. MaxMade) /\ IsPrefix(got, entries)
  BY <1>1 DEF IInv, Listings, ListingType
<1> HIDE DEF got
<1> DEFINE l == Listed(r, got, limit)
<1>4. l \in ListingType /\ IsPrefix(l.got, entries)
  BY <1>3, ListedFacts
<1>5. listing' = [listing EXCEPT ![r] = l]
  BY <1>2
<1> HIDE DEF l
<1>6. QED
  BY <1>1, <1>4, <1>5, ListingKeeps

LEMMA StopKeeps ==
  ASSUME IInv, NEW r \in Readers, Stop(r)
  PROVE  IInv'
  BY ListingKeeps DEF Stop

LEMMA StutterKeeps ==
  ASSUME IInv, UNCHANGED vars
  PROVE  IInv'
<1>1. Lists' = Lists
  BY DEF Lists, vars
<1>2. QED
  BY <1>1 DEF IInv, TypeOK, Stored, Planned, Listings, vars

LEMMA StepHolds ==
  ASSUME IInv, [Next]_vars
  PROVE  IInv'
<1>1. CASE \E n \in Batches : Archive(n)
  BY <1>1, ArchiveKeeps
<1>2. CASE Recover
  BY <1>2, RecoverKeeps
<1>3. CASE Publish
  BY <1>3, PublishKeeps
<1>4. CASE Commit
  BY <1>4, CommitKeeps
<1>5. CASE Kill
  BY <1>5, KillKeeps
<1>6. CASE Collect
  BY <1>6, CollectKeeps
<1>7. CASE \E r \in Readers : List(r) \/ ListOn(r) \/ Stop(r)
  BY <1>7, ListKeeps, ListOnKeeps, StopKeeps
<1>8. CASE UNCHANGED vars
  BY <1>8, StutterKeeps
<1>9. QED
  BY <1>1, <1>2, <1>3, <1>4, <1>5, <1>6, <1>7, <1>8 DEF Next

-----------------------------------------------------------------------------

\* The inductive invariant holds throughout.
THEOREM Inductive == Spec => []IInv
<1>1. Init => IInv
  BY InitHolds
<1>2. IInv /\ [Next]_vars => IInv'
  BY StepHolds
<1>3. QED
  BY <1>1, <1>2, PTL DEF Spec

\* Entries, snapshots and files have their types.
THEOREM TypeCorrect == Spec => []TypeOK
<1>1. IInv => TypeOK
  BY DEF IInv
<1>2. QED
  BY <1>1, Inductive, PTL

\* What a commit planned and published is read back entry by entry, for every
\* number of entries a tree of up to three levels can hold, every size of leaves
\* and branches, and whatever was killed, recovered or collected since.
THEOREM ReadBack == Spec => []ReadsBack
<1>1. IInv => ReadsBack
  <2> SUFFICES ASSUME IInv, NEW es \in Range(retained) \cup {entries}
               PROVE  /\ Readable(Root(es), files) /\ ReadIndex(Root(es)) = es
                      /\ \A n \in Range(es) : Resolves(n, files)
    BY DEF ReadsBack
  <2>1. /\ entries \in Lists /\ retained \in Seq(Lists) /\ IndexPaths(es) \subseteq files
    BY DEF IInv, Stored
  <2>2. es \in Lists
    <3> DEFINE A == Lists
    <3> HIDE DEF A
    <3>1. retained \in Seq(A) /\ entries \in A
      BY <2>1 DEF A
    <3>2. Range(retained) \subseteq A
      BY <3>1, RangeOfSeq
    <3>3. es \in A
      BY <3>1, <3>2
    <3>4. QED
      BY <3>3 DEF A
  <2>3. made \in 0 .. MaxMade
    BY DEF IInv, TypeOK
  <2>4. es \in Seq(1 .. MaxMade) /\ IsInjective(es) /\ Fits(es)
    BY <2>2, <2>3, ListsFacts
  <2>5. QED
    BY <2>1, <2>4, IndexFacts
<1>2. QED
  BY <1>1, Inductive, PTL

\* A listing by offset has no gap and no repetition, for every page size and
\* every growth of the archive between its pages.
THEOREM ListingJoins == Spec => []ListingJoinsUp
<1>1. IInv => ListingJoinsUp
  BY DEF IInv, Listings, ListingJoinsUp
<1>2. QED
  BY <1>1, Inductive, PTL

\* An append writes no file again but the last leaf and the branches above it,
\* for every size of the tree.
THEOREM SpineOnly == Spec => OnlySpineRewritten
<1> DEFINE Rewrites ==
             entries # <<>> /\ entries' # entries /\ IsPrefix(entries, entries')
             => IndexPaths(entries) \ IndexPaths(entries') \subseteq Spine(Root(entries))
<1>1. ASSUME IInv, IInv' PROVE Rewrites
  <2> SUFFICES ASSUME entries # <<>>, IsPrefix(entries, entries')
               PROVE  IndexPaths(entries) \ IndexPaths(entries') \subseteq Spine(Root(entries))
    OBVIOUS
  <2> DEFINE s == entries
             t == entries'
  <2>1. s \in Seq(1 .. MaxMade) /\ IsInjective(s) /\ Fits(s)
    BY <1>1, ListsFacts DEF IInv, TypeOK, Stored
  <2>2. t \in Seq(1 .. MaxMade) /\ IsInjective(t) /\ Fits(t)
    <3>1. t \in Seq(1 .. made') /\ IsInjective(t) /\ Fits(t)
      BY <1>1 DEF IInv, Stored, Lists
    <3>2. t \in Seq(1 .. MaxMade)
      BY <1>1 DEF IInv, TypeOK
    <3>3. QED
      BY <3>1, <3>2
  <2>3. IsPrefix(s, t) /\ s # <<>>
    OBVIOUS
  <2> HIDE DEF s, t
  <2>4. Len(s) <= Len(t) /\ \A i \in 1 .. Len(s) : s[i] = t[i]
    BY <2>1, <2>2, <2>3, PrefixFacts
  <2>5. t # <<>> /\ Range(s) \subseteq Range(t)
    <3>1. Len(s) \in Nat \ {0} /\ DOMAIN s = 1 .. Len(s)
      BY <2>1, <2>3, EmptySeq, LenProperties
    <3>2. Len(t) \in Nat /\ DOMAIN t = 1 .. Len(t)
      BY <2>2, LenProperties
    <3>3. \A i \in DOMAIN s : i \in DOMAIN t /\ s[i] = t[i]
      BY <2>4, <3>1, <3>2
    <3>4. t # <<>>
      BY <2>4, <3>1
    <3>5. QED
      BY <3>3, <3>4 DEF Range
  <2>6. Index(s) /\ Index(t)
    BY <2>1, <2>2, <2>3, <2>5 DEF Index
  <2>7. Visited(Root(s)) \ Visited(Root(t)) \subseteq Spine(Root(s))
    BY <2>3, <2>6, AppendKeeps
  <2>8. /\ IndexPaths(s) = Visited(Root(s)) \cup Payloads(Range(s))
        /\ IndexPaths(t) = Visited(Root(t)) \cup Payloads(Range(t))
    BY <2>3, <2>5 DEF IndexPaths, Payloads
  <2>9. Payloads(Range(s)) \subseteq Payloads(Range(t))
    BY <2>5 DEF Payloads
  <2>10. QED
    BY <2>7, <2>8, <2>9 DEF s, t
<1>2. ASSUME IInv, IInv' PROVE [Rewrites]_vars
  BY <1>1, <1>2
<1>3. QED
  BY <1>2, Inductive, PTL DEF OnlySpineRewritten
=============================================================================
