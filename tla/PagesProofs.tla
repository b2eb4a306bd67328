----------------------------- MODULE PagesProofs -----------------------------
(***************************************************************************)
(* Proofs about Pages: the order of the places in a list of lists, what a  *)
(* window shows and how windows join, what a page says of its document,    *)
(* and the inductive invariant of the walks with what follows from it.     *)
(***************************************************************************)
EXTENDS PagesInductive, FiniteSetTheorems, SequenceTheorems, TLAPS

-----------------------------------------------------------------------------
(* Sequences.                                                               *)

\* Each place of a finite set has a number of its own, so the k-th is well defined.
LEMMA NthPlace ==
  ASSUME NEW P \in SUBSET (Nat \X Nat), IsFiniteSet(P)
  PROVE  /\ Cardinality(P) \in Nat
         /\ \A k \in 1 .. Cardinality(P) : Nth(P, k) \in P
<1> DEFINE n == Cardinality(P)
           rank == [p \in P |-> Cardinality(Upto(p, P))]
<1>1. n \in Nat
  BY FS_CardinalityType
<1>2. ASSUME NEW p \in P PROVE rank[p] \in 1 .. n /\ IsFiniteSet(Upto(p, P))
  <2>1. Upto(p, P) \in SUBSET P /\ {p} \in SUBSET Upto(p, P)
    BY DEF Upto
  <2>2. IsFiniteSet(Upto(p, P)) /\ Cardinality(Upto(p, P)) <= n
    BY <2>1, FS_Subset
  <2>3. Cardinality({p}) <= Cardinality(Upto(p, P)) /\ Cardinality({p}) = 1
    BY <2>1, <2>2, FS_Subset, FS_Singleton
  <2>4. QED
    BY <1>1, <2>2, <2>3, FS_CardinalityType
<1>3. ASSUME NEW p \in P, NEW q \in P, q[1] < p[1] \/ (q[1] = p[1] /\ q[2] < p[2])
      PROVE  rank[q] # rank[p]
  <2>1. p[1] \in Nat /\ p[2] \in Nat /\ q[1] \in Nat /\ q[2] \in Nat
    OBVIOUS
  <2>2. \A x \in P : x[1] \in Nat /\ x[2] \in Nat
    OBVIOUS
  <2>3. Upto(q, P) \in SUBSET Upto(p, P)
    BY <1>3, <2>1, <2>2 DEF Upto
  <2>4. p \in Upto(p, P) /\ p \notin Upto(q, P)
    BY <1>3, <2>1 DEF Upto
  <2>5. QED
    BY <1>2, <2>3, <2>4, FS_Subset
<1>4. ASSUME NEW p \in P, NEW q \in P, p # q PROVE rank[q] # rank[p]
  <2>1. p = <<p[1], p[2]>> /\ q = <<q[1], q[2]>> /\ p[1] \in Nat /\ p[2] \in Nat /\ q[1] \in Nat /\ q[2] \in Nat
    OBVIOUS
  <2>2. p[1] # q[1] \/ p[2] # q[2]
    BY <1>4, <2>1
  <2>3. \/ q[1] < p[1] \/ (q[1] = p[1] /\ q[2] < p[2])
        \/ p[1] < q[1] \/ (p[1] = q[1] /\ p[2] < q[2])
    BY <2>1, <2>2
  <2>4. QED
    BY <1>3, <2>3
<1>5. ASSUME NEW k \in 1 .. n PROVE \E p \in P : rank[p] = k
  <2> SUFFICES ASSUME \A p \in P : rank[p] # k PROVE FALSE
    OBVIOUS
  <2> DEFINE T == (1 .. n) \ {k}
  <2>1. rank \in [P -> T]
    BY <1>2
  <2>2. IsFiniteSet(1 .. n) /\ Cardinality(1 .. n) = n
    BY <1>1, FS_Interval
  <2>3. IsFiniteSet(T) /\ Cardinality(T) = n - 1
    <3> DEFINE R == 1 .. n
    <3>1. IsFiniteSet(R) /\ Cardinality(R) = n /\ k \in R
      BY <2>2
    <3> HIDE DEF R, n
    <3>2. IsFiniteSet(R \ {k}) /\ Cardinality(R \ {k}) = n - 1
      BY <3>1, FS_RemoveElement
    <3>3. QED
      BY <3>2 DEF R
  <2>4. \E x, y \in P : x # y /\ rank[x] = rank[y]
    <3> HIDE DEF T, rank
    <3>1. Cardinality(T) < Cardinality(P)
      BY <1>1, <2>3
    <3>2. QED
      BY <2>1, <2>3, <3>1, FS_PigeonHole
  <2>5. QED
    BY <1>4, <2>4
<1>6. \A k \in 1 .. n : \E p \in P : Cardinality(Upto(p, P)) = k
  BY <1>5
<1>7. QED
  BY <1>1, <1>6 DEF Nth

\* The items at some places are a sequence of as many.
LEMMA PickType ==
  ASSUME NEW lists, NEW P \in SUBSET (Nat \X Nat), IsFiniteSet(P), NEW S,
         \A p \in P : lists[p[1]][p[2]] \in S
  PROVE  Pick(lists, P) \in Seq(S) /\ Len(Pick(lists, P)) = Cardinality(P)
<1> DEFINE n == Cardinality(P)
           item(k) == lists[Nth(P, k)[1]][Nth(P, k)[2]]
<1>1. n \in Nat /\ \A k \in 1 .. n : Nth(P, k) \in P
  BY NthPlace
<1>2. \A k \in 1 .. n : item(k) \in S
  BY <1>1
<1>3. Pick(lists, P) = [k \in 1 .. n |-> item(k)]
  BY DEF Pick
<1> HIDE DEF item, n
<1>4. Pick(lists, P) \in [1 .. n -> S]
  BY <1>2, <1>3
<1>5. QED
  BY <1>1, <1>4, SeqDef DEF n

\* Some of a sequence's items are a sequence of as many.
LEMMA ThoseType ==
  ASSUME NEW S, NEW s \in Seq(S), NEW I \in SUBSET DOMAIN s
  PROVE  /\ Those(s, I) \in Seq(S) /\ Len(Those(s, I)) = Cardinality(I)
         /\ IsFiniteSet(I)
<1>1. DOMAIN s = 1 .. Len(s) /\ Len(s) \in Nat
  BY LenProperties
<1>2. IsFiniteSet(I)
  <2>1. IsFiniteSet(1 .. Len(s))
    BY <1>1, FS_Interval
  <2>2. IsFiniteSet(DOMAIN s)
    BY <1>1, <2>1
  <2>3. QED
    BY <2>2, FS_Subset
<1>3. IsFiniteSet({1} \X I) /\ Cardinality({1} \X I) = Cardinality(I)
  <2>1. IsFiniteSet({1}) /\ Cardinality({1}) = 1
    BY FS_Singleton
  <2>2. Cardinality(I) \in Nat
    BY <1>2, FS_CardinalityType
  <2>3. QED
    BY <1>2, <2>1, <2>2, FS_Product
<1>4. {1} \X I \in SUBSET (Nat \X Nat)
  BY <1>1
<1>5. \A p \in {1} \X I : <<s>>[p[1]][p[2]] \in S
  BY <1>1, ElementOfSeq
<1>6. QED
  BY <1>2, <1>3, <1>4, <1>5, PickType DEF Those

\* The first k numbers are k numbers.
LEMMA FirstNumbers ==
  ASSUME NEW k \in Nat
  PROVE  IsFiniteSet(1 .. k) /\ Cardinality(1 .. k) = k
  BY FS_Interval

\* The places in finitely many lists are finitely many.
LEMMA FinitePlaces ==
  ASSUME NEW S, NEW n \in Nat, NEW lists, DOMAIN lists = 1 .. n,
         \A i \in 1 .. n : lists[i] \in Seq(S)
  PROVE  /\ Places(lists) \in SUBSET (Nat \X Nat) /\ IsFiniteSet(Places(lists))
         /\ Total(lists) \in Nat
         /\ \A p \in Places(lists) : p[1] \in 1 .. n /\ p[2] \in 1 .. Len(lists[p[1]])
         /\ \A i \in 1 .. n : Len(lists[i]) <= Total(lists)
<1> DEFINE part == [i \in 1 .. n |-> {i} \X DOMAIN lists[i]]
           parts == {part[i] : i \in 1 .. n}
<1>1. ASSUME NEW i \in 1 .. n
      PROVE  DOMAIN lists[i] = 1 .. Len(lists[i]) /\ Len(lists[i]) \in Nat
  BY LenProperties
<1>2. ASSUME NEW i \in 1 .. n
      PROVE  IsFiniteSet(part[i]) /\ Cardinality(part[i]) = Len(lists[i])
  <2>1. IsFiniteSet(1 .. Len(lists[i])) /\ Cardinality(1 .. Len(lists[i])) = Len(lists[i])
    BY <1>1, FirstNumbers
  <2>2. IsFiniteSet(DOMAIN lists[i]) /\ Cardinality(DOMAIN lists[i]) = Len(lists[i])
    BY <1>1, <2>1
  <2>3. IsFiniteSet({i}) /\ Cardinality({i}) = 1
    BY FS_Singleton
  <2>4. IsFiniteSet({i} \X DOMAIN lists[i])
        /\ Cardinality({i} \X DOMAIN lists[i]) = 1 * Len(lists[i])
    BY <2>2, <2>3, FS_Product
  <2>5. QED
    BY <1>1, <2>4
<1>3. IsFiniteSet(parts)
  <2>1. IsFiniteSet(1 .. n)
    BY FS_Interval
  <2>2. part \in Surjection(1 .. n, parts)
    BY DEF Surjection
  <2> HIDE DEF part, parts
  <2>3. QED
    BY <2>1, <2>2, FS_Surjection
<1>4. Places(lists) = UNION parts
  BY DEF Places
<1>5. IsFiniteSet(Places(lists))
  <2>1. \A T \in parts : IsFiniteSet(T)
    BY <1>2
  <2> HIDE DEF parts
  <2>2. QED
    BY <1>3, <1>4, <2>1, FS_UNION
<1>6. \A p \in Places(lists) : p \in Nat \X Nat /\ p[1] \in 1 .. n /\ p[2] \in 1 .. Len(lists[p[1]])
  BY <1>1 DEF Places
<1>7. Total(lists) \in Nat
  BY <1>5, FS_CardinalityType DEF Total
<1>8. ASSUME NEW i \in 1 .. n PROVE Len(lists[i]) <= Total(lists)
  <2>1. part[i] \in SUBSET Places(lists)
    BY DEF Places
  <2> HIDE DEF part
  <2>2. QED
    BY <1>2, <1>5, <2>1, FS_Subset DEF Total
<1>9. QED
  BY <1>5, <1>6, <1>7, <1>8

\* What a page shows of a list.
LEMMA WindowFacts ==
  ASSUME NEW S, NEW s \in Seq(S), NEW offset \in Nat, NEW limit \in Nat
  PROVE  LET w == Window(s, offset, limit)
         IN  /\ w \in Seq(S) /\ DOMAIN w = 1 .. Len(w) /\ DOMAIN s = 1 .. Len(s)
             /\ Len(s) \in Nat /\ Len(w) \in Nat
             /\ offset >= Len(s) => Len(w) = 0
             /\ offset < Len(s) =>
                  Len(w) = IF offset + limit < Len(s) THEN limit ELSE Len(s) - offset
             /\ \A i \in 1 .. Len(w) : w[i] = s[offset + i]
<1> DEFINE m == offset + 1
           n == IF offset + limit < Len(s) THEN offset + limit ELSE Len(s)
           w == Window(s, offset, limit)
<1>1. Len(s) \in Nat /\ DOMAIN s = 1 .. Len(s) /\ s \in [1 .. Len(s) -> S]
  BY LenProperties
<1>2. m \in Int /\ n \in Int /\ \A i \in m .. n : s[i] \in S
  BY <1>1
<1>3. /\ SubSeq(s, m, n) \in Seq(S) /\ Len(SubSeq(s, m, n)) = IF m <= n THEN n - m + 1 ELSE 0
      /\ \A i \in 1 .. n - m + 1 : SubSeq(s, m, n)[i] = s[m + i - 1]
  <2> HIDE DEF m, n
  <2>1. QED
    BY <1>2, SubSeqProperties
<1>4. w = SubSeq(s, m, n)
  BY DEF Window
<1>5. w \in Seq(S) /\ Len(w) = IF m <= n THEN n - m + 1 ELSE 0
  BY <1>3, <1>4
<1>6. DOMAIN w = 1 .. Len(w) /\ Len(w) \in Nat
  BY <1>5, LenProperties
<1>0. Len(s) \in Nat
  BY <1>1
<1>7. /\ n \in Int
      /\ offset + limit < Len(s) => n = offset + limit
      /\ ~(offset + limit < Len(s)) => n = Len(s)
  BY <1>0
<1> HIDE DEF w, n
<1>8. ASSUME NEW i \in 1 .. Len(w) PROVE w[i] = s[offset + i]
  <2>1. i \in 1 .. n - m + 1 /\ m + i - 1 = offset + i
    BY <1>5, <1>6, <1>7
  <2>2. QED
    BY <1>3, <1>4, <2>1
<1>9. /\ offset >= Len(s) => Len(w) = 0
      /\ offset < Len(s) => Len(w) = IF offset + limit < Len(s) THEN limit ELSE Len(s) - offset
  BY <1>0, <1>5, <1>7
<1>10. QED
  BY <1>1, <1>5, <1>6, <1>8, <1>9 DEF w

\* A window as long as another that begins where it does is the same.
LEMMA WindowIsPrefix ==
  ASSUME NEW S, NEW s \in Seq(S), NEW offset \in Nat, NEW limit \in Nat
  PROVE  LET w == Window(s, offset, limit) IN w = Window(s, offset, Len(w))
<1> DEFINE w == Window(s, offset, limit)
           v == Window(s, offset, Len(w))
<1>1. /\ w \in Seq(S) /\ Len(w) \in Nat /\ Len(s) \in Nat
      /\ offset >= Len(s) => Len(w) = 0
      /\ offset < Len(s) => Len(w) = IF offset + limit < Len(s) THEN limit ELSE Len(s) - offset
      /\ \A i \in 1 .. Len(w) : w[i] = s[offset + i]
  BY WindowFacts
<1>2. /\ v \in Seq(S)
      /\ offset >= Len(s) => Len(v) = 0
      /\ offset < Len(s) => Len(v) = IF offset + Len(w) < Len(s) THEN Len(w) ELSE Len(s) - offset
      /\ \A i \in 1 .. Len(v) : v[i] = s[offset + i]
  BY <1>1, WindowFacts
<1> HIDE DEF w, v
<1>3. Len(v) = Len(w)
  BY <1>1, <1>2
<1>4. w = v
  BY <1>1, <1>2, <1>3, SeqEqual
<1>5. QED
  BY <1>4 DEF w, v

\* got is what s has from offset on, as far as it goes.
Part(s, offset, got) == got = Window(s, offset, Len(got))

\* Two windows of which the second begins where the first ends make one.
LEMMA WindowsJoin ==
  ASSUME NEW S, NEW s \in Seq(S), NEW offset \in Nat, NEW got \in Seq(S), NEW limit \in Nat, NEW w,
         Part(s, offset, got), w = Window(s, offset + Len(got), limit)
  PROVE  Part(s, offset, got \o w)
<1> DEFINE v == Window(s, offset, Len(got) + Len(w))
<1>0. Len(got) \in Nat
  BY LenProperties
<1>1. /\ Len(s) \in Nat
      /\ offset < Len(s) => (offset + Len(got) < Len(s) \/ Len(got) = Len(s) - offset)
      /\ offset >= Len(s) => Len(got) = 0
      /\ \A i \in 1 .. Len(got) : got[i] = s[offset + i]
  <2> DEFINE u == Window(s, offset, Len(got))
  <2>1. /\ Len(s) \in Nat
        /\ offset >= Len(s) => Len(u) = 0
        /\ offset < Len(s) => Len(u) = IF offset + Len(got) < Len(s) THEN Len(got) ELSE Len(s) - offset
        /\ \A i \in 1 .. Len(u) : u[i] = s[offset + i]
    BY <1>0, WindowFacts
  <2>2. got = u
    BY DEF Part
  <2> HIDE DEF u
  <2>3. Len(got) = Len(u) /\ \A i \in 1 .. Len(got) : got[i] = s[offset + i]
    BY <2>1, <2>2
  <2>4. QED
    BY <1>0, <2>1, <2>3
<1>2. /\ w \in Seq(S) /\ Len(w) \in Nat
      /\ offset + Len(got) >= Len(s) => Len(w) = 0
      /\ offset + Len(got) < Len(s) => offset + Len(got) + Len(w) <= Len(s)
      /\ \A i \in 1 .. Len(w) : w[i] = s[offset + Len(got) + i]
  <2>1. offset + Len(got) \in Nat
    BY <1>0
  <2>2. /\ w \in Seq(S) /\ Len(w) \in Nat
        /\ offset + Len(got) >= Len(s) => Len(w) = 0
        /\ offset + Len(got) < Len(s) =>
             Len(w) = IF offset + Len(got) + limit < Len(s) THEN limit ELSE Len(s) - (offset + Len(got))
        /\ \A i \in 1 .. Len(w) : w[i] = s[offset + Len(got) + i]
    BY <2>1, WindowFacts
  <2>3. QED
    BY <1>0, <1>1, <2>1, <2>2
<1>3. /\ v \in Seq(S)
      /\ offset >= Len(s) => Len(v) = 0
      /\ offset < Len(s) =>
           Len(v) = IF offset + (Len(got) + Len(w)) < Len(s) THEN Len(got) + Len(w) ELSE Len(s) - offset
      /\ \A i \in 1 .. Len(v) : v[i] = s[offset + i]
  <2> DEFINE both == Len(got) + Len(w)
  <2>1. both \in Nat
    BY <1>0, <1>2
  <2> HIDE DEF both
  <2> DEFINE x == Window(s, offset, both)
  <2>2. /\ x \in Seq(S)
        /\ offset >= Len(s) => Len(x) = 0
        /\ offset < Len(s) => Len(x) = IF offset + both < Len(s) THEN both ELSE Len(s) - offset
        /\ \A i \in 1 .. Len(x) : x[i] = s[offset + i]
    BY <2>1, WindowFacts
  <2>3. QED
    BY <2>2 DEF both
<1>4. /\ got \o w \in Seq(S) /\ Len(got \o w) = Len(got) + Len(w)
      /\ \A i \in 1 .. Len(got) + Len(w) :
           (got \o w)[i] = IF i <= Len(got) THEN got[i] ELSE w[i - Len(got)]
  BY <1>2, ConcatProperties
<1> HIDE DEF v
<1>5. Len(v) = Len(got) + Len(w)
  BY <1>0, <1>1, <1>2, <1>3
<1>6. ASSUME NEW i \in 1 .. Len(v) PROVE (got \o w)[i] = v[i]
  <2>1. CASE i <= Len(got)
    BY <2>1, <1>0, <1>1, <1>2, <1>3, <1>4, <1>5
  <2>2. CASE i > Len(got)
    <3>1. i - Len(got) \in 1 .. Len(w) /\ offset + Len(got) + (i - Len(got)) = offset + i
      BY <2>2, <1>0, <1>2, <1>5
    <3>2. (got \o w)[i] = w[i - Len(got)]
      BY <2>2, <1>0, <1>2, <1>4, <1>5
    <3>3. w[i - Len(got)] = s[offset + Len(got) + (i - Len(got))]
      BY <3>1, <1>2
    <3>4. v[i] = s[offset + i]
      BY <1>3
    <3>5. QED
      BY <3>1, <3>2, <3>3, <3>4
  <2>3. QED
    BY <1>0, <1>5, <2>1, <2>2, <1>2
<1>7. got \o w = v
  BY <1>3, <1>4, <1>5, <1>6, SeqEqual
<1>8. QED
  BY <1>4, <1>7 DEF v, Part

-----------------------------------------------------------------------------
(* Documents.                                                               *)

\* The evidence of a condition is finitely much.
LEMMA AboutFacts ==
  ASSUME NEW d \in Documents, NEW t, NEW c
  PROVE  /\ About(d, t, c) \in SUBSET DOMAIN d.evidence /\ IsFiniteSet(About(d, t, c))
         /\ Cardinality(About(d, t, c)) \in Nat
<1>1. d.evidence \in Seq(EvidenceType) /\ About(d, t, c) \in SUBSET DOMAIN d.evidence
  BY DEF Documents, EvidenceType, About
<1>2. IsFiniteSet(About(d, t, c))
  BY <1>1, ThoseType
<1>3. QED
  BY <1>1, <1>2, FS_CardinalityType

\* The rows of a task are a sequence of rows.
LEMMA RowsType ==
  ASSUME NEW d \in Documents, NEW t \in Tasks
  PROVE  Rows(d, t) \in Seq(RowType)
<1>1. d.acceptance[t] \in Seq(Conds)
  BY DEF Documents
<1>2. DOMAIN d.acceptance[t] = 1 .. Len(d.acceptance[t]) /\ Len(d.acceptance[t]) \in Nat
  BY <1>1, LenProperties
<1>3. ASSUME NEW i \in DOMAIN d.acceptance[t] PROVE Row(d, t, d.acceptance[t][i]) \in RowType
  <2>1. d.acceptance[t][i] \in Conds
    BY <1>1, <1>2, ElementOfSeq
  <2>2. Cardinality(About(d, t, d.acceptance[t][i])) \in Nat
    BY AboutFacts
  <2>3. QED
    BY <2>1, <2>2 DEF Row, RowType
<1>4. Rows(d, t) \in [1 .. Len(d.acceptance[t]) -> RowType]
  BY <1>2, <1>3 DEF Rows
<1>5. QED
  BY <1>2, <1>4, SeqDef

\* A filter selects tasks, and by name only the task it names.
LEMMA SelectedFacts ==
  ASSUME NEW d \in Documents, NEW task \in Tasks \cup {None}
  PROVE  LET ts == Selected(d, task)
         IN  /\ ts \in Seq(Tasks) /\ Len(ts) \in Nat /\ DOMAIN ts = 1 .. Len(ts)
             /\ \A i \in 1 .. Len(ts) : ts[i] \in Tasks /\ task \in {ts[i], None}
             /\ Range(ts) \subseteq Tasks
<1> DEFINE ts == Selected(d, task)
<1>1. d.tasks \in Seq(Tasks)
  BY DEF Documents
<1>2. CASE task = None
  BY <1>1, <1>2, LenProperties DEF Selected, Range
<1>3. CASE task # None /\ task \in Range(d.tasks)
  <2>1. ts = <<task>> /\ task \in Tasks
    BY <1>3 DEF Selected
  <2>2. ts \in Seq(Tasks) /\ Len(ts) = 1 /\ DOMAIN ts = 1 .. 1 /\ ts[1] = task
    BY <2>1
  <2> HIDE DEF ts
  <2>3. QED
    BY <2>1, <2>2 DEF ts, Range
<1>4. CASE task # None /\ task \notin Range(d.tasks)
  <2>1. ts = <<>>
    BY <1>4 DEF Selected
  <2>2. ts \in Seq(Tasks) /\ Len(ts) = 0 /\ DOMAIN ts = 1 .. 0
    BY <2>1
  <2> HIDE DEF ts
  <2>3. QED
    BY <2>2 DEF ts, Range
<1>5. QED
  BY <1>2, <1>3, <1>4

\* There is one list of rows for each task selected.
LEMMA AllRowsFacts ==
  ASSUME NEW d \in Documents, NEW task \in Tasks \cup {None}
  PROVE  LET rows == AllRows(d, task)
             n == Len(Selected(d, task))
         IN  /\ n \in Nat /\ DOMAIN rows = 1 .. n
             /\ \A i \in 1 .. n : rows[i] = Rows(d, Selected(d, task)[i]) /\ rows[i] \in Seq(RowType)
<1>1. /\ Len(Selected(d, task)) \in Nat /\ DOMAIN Selected(d, task) = 1 .. Len(Selected(d, task))
      /\ \A i \in 1 .. Len(Selected(d, task)) : Selected(d, task)[i] \in Tasks
  BY SelectedFacts
<1>2. QED
  BY <1>1, RowsType DEF AllRows

\* The lists of a handoff are sequences.
LEMMA ListType ==
  ASSUME NEW d \in Documents, NEW task \in Tasks \cup {None}, NEW l \in ListNames
  PROVE  List(d, task, l) \in Seq(Item)
<1>1. CASE l = "tasks"
  <2>1. Selected(d, task) \in Seq(Item)
    BY SelectedFacts, SeqMonotonic DEF Item
  <2>2. QED
    BY <1>1, <2>1 DEF List
<1>2. CASE l = "uncovered"
  <2> DEFINE rows == AllRows(d, task)
             n == Len(Selected(d, task))
  <2>1. /\ n \in Nat /\ DOMAIN rows = 1 .. n /\ \A i \in 1 .. n : rows[i] \in Seq(RowType)
    BY AllRowsFacts
  <2> HIDE DEF n, rows
  <2>2. /\ Places(rows) \in SUBSET (Nat \X Nat) /\ IsFiniteSet(Places(rows))
        /\ \A p \in Places(rows) : p[1] \in 1 .. n /\ p[2] \in 1 .. Len(rows[p[1]])
    BY <2>1, FinitePlaces
  <2>3. Uncovered(rows) \in SUBSET Places(rows)
    BY DEF Uncovered
  <2>4. IsFiniteSet(Uncovered(rows)) /\ Uncovered(rows) \in SUBSET (Nat \X Nat)
    BY <2>2, <2>3, FS_Subset
  <2>5. \A p \in Uncovered(rows) : rows[p[1]][p[2]] \in RowType
    BY <2>1, <2>2, <2>3, ElementOfSeq
  <2>6. Pick(rows, Uncovered(rows)) \in Seq(RowType)
    BY <2>4, <2>5, PickType
  <2>7. Pick(rows, Uncovered(rows)) \in Seq(Item)
    BY <2>6, SeqMonotonic DEF Item
  <2>8. QED
    BY <1>2, <2>7 DEF List, rows
<1>3. CASE l = "evidence"
  <2> DEFINE I == {i \in DOMAIN d.evidence : task \in {d.evidence[i].task, None}}
  <2>1. d.evidence \in Seq(EvidenceType) /\ I \in SUBSET DOMAIN d.evidence
    BY DEF Documents, EvidenceType
  <2> HIDE DEF I
  <2>2. Those(d.evidence, I) \in Seq(EvidenceType)
    BY <2>1, ThoseType
  <2>3. Those(d.evidence, I) \in Seq(Item)
    BY <2>2, SeqMonotonic DEF Item
  <2>4. QED
    BY <1>3, <2>3 DEF List, I
<1>4. QED
  BY <1>1, <1>2, <1>3 DEF ListNames

-----------------------------------------------------------------------------
(* Pages.                                                                   *)

\* A request addresses a task or all, from an offset on.
LEMMA RequestFacts ==
  ASSUME NEW q \in Requests
  PROVE  /\ Addressed(q) \in Tasks \cup {None} /\ Start(q) \in Nat /\ q.limit \in Nat
         /\ \A l \in ListNames : q.offsets[l] \in Nat
         /\ q.cursor # None => Addressed(q) \in Tasks
<1>1. q.task \in Tasks \cup {None} /\ q.limit \in Nat /\ q.cursor \in Cursors \cup {None}
      /\ q.offsets \in [ListNames -> Nat]
  BY DEF Requests
<1>2. ASSUME q.cursor # None PROVE q.cursor.task \in Tasks /\ q.cursor.offset \in Nat
  BY <1>1, <1>2 DEF Cursors
<1>3. QED
  BY <1>1, <1>2 DEF Addressed, Start

\* Of every task selected a window of rows is returned, of the others nothing.
LEMMA ReturnedFacts ==
  ASSUME NEW d \in Documents, NEW q \in Requests, NEW t \in Tasks
  PROVE  /\ t \in Range(Selected(d, Addressed(q))) =>
              Returned(d, q)[t] = Window(Rows(d, t), Start(q), q.limit)
         /\ t \notin Range(Selected(d, Addressed(q))) => Returned(d, q)[t] = <<>>
         /\ Returned(d, q)[t] \in Seq(RowType) /\ Len(Returned(d, q)[t]) \in Nat
<1>1. Window(Rows(d, t), Start(q), q.limit) \in Seq(RowType)
  BY RowsType, RequestFacts, WindowFacts
<1>2. <<>> \in Seq(RowType)
  BY EmptySeq
<1>3. Returned(d, q)[t] \in Seq(RowType)
  BY <1>1, <1>2 DEF Returned
<1>4. QED
  BY <1>3, LenProperties DEF Returned

\* A window from the start that is as long as the list is the list.
LEMMA WholeWindow ==
  ASSUME NEW S, NEW s \in Seq(S), NEW limit \in Nat,
         Len(Window(s, 0, limit)) >= Len(s) \/ limit >= Len(s)
  PROVE  Window(s, 0, limit) = s
<1> DEFINE w == Window(s, 0, limit)
<1>1. /\ w \in Seq(S) /\ Len(s) \in Nat /\ Len(w) \in Nat
      /\ 0 >= Len(s) => Len(w) = 0
      /\ 0 < Len(s) => Len(w) = IF 0 + limit < Len(s) THEN limit ELSE Len(s) - 0
      /\ \A i \in 1 .. Len(w) : w[i] = s[0 + i]
  BY WindowFacts
<1>2. Len(w) >= Len(s) \/ limit >= Len(s)
  OBVIOUS
<1> HIDE DEF w
<1>3. Len(w) = Len(s)
  BY <1>1, <1>2
<1>4. \A i \in 1 .. Len(w) : w[i] = s[i]
  BY <1>1
<1>5. w = s
  BY <1>1, <1>3, <1>4, SeqEqual
<1>6. QED
  BY <1>5 DEF w

\* The rows a coverage page judges.
Shown(d, q) == [i \in DOMAIN Selected(d, Addressed(q)) |->
                  Returned(d, q)[Selected(d, Addressed(q))[i]]]

\* Coverage that calls itself complete shows every row of its scope: as many
\* places as there are, and no other places, are all of them.
LEMMA CompleteCoverage ==
  ASSUME NEW d \in Documents, NEW q \in Requests, CoverageComplete(d, q, Shown(d, q))
  PROVE  /\ \A t \in Range(Selected(d, Addressed(q))) : Returned(d, q)[t] = Rows(d, t)
         /\ Shown(d, q) = AllRows(d, Addressed(q))
<1> DEFINE ts == Selected(d, Addressed(q))
           n == Len(ts)
           rows == Shown(d, q)
           all == AllRows(d, Addressed(q))
<1>1. /\ n \in Nat /\ DOMAIN ts = 1 .. n /\ \A i \in 1 .. n : ts[i] \in Tasks /\ ts[i] \in Range(ts)
  BY SelectedFacts, RequestFacts DEF Range
<1>2. /\ DOMAIN all = 1 .. n /\ \A i \in 1 .. n : all[i] = Rows(d, ts[i]) /\ all[i] \in Seq(RowType)
  BY AllRowsFacts, RequestFacts
<1>3. Start(q) = 0 /\ Total(rows) = Total(all) /\ q.limit \in Nat
  BY RequestFacts DEF CoverageComplete
<1>4. /\ DOMAIN rows = 1 .. n
      /\ \A i \in 1 .. n : rows[i] = Returned(d, q)[ts[i]]
  BY <1>1 DEF Shown
<1>5. \A i \in 1 .. n : rows[i] = Window(all[i], 0, q.limit)
  BY <1>1, <1>2, <1>3, <1>4, ReturnedFacts
<1> HIDE DEF ts, n, rows, all
<1>6. ASSUME NEW i \in 1 .. n
      PROVE  /\ rows[i] \in Seq(RowType) /\ Len(rows[i]) <= Len(all[i])
             /\ DOMAIN rows[i] = 1 .. Len(rows[i]) /\ DOMAIN all[i] = 1 .. Len(all[i])
             /\ Len(rows[i]) \in Nat /\ Len(all[i]) \in Nat
  <2> DEFINE s == all[i]
             w == Window(s, 0, q.limit)
  <2>1. s \in Seq(RowType) /\ rows[i] = w
    BY <1>2, <1>5
  <2> HIDE DEF s
  <2>2. /\ w \in Seq(RowType) /\ DOMAIN w = 1 .. Len(w) /\ DOMAIN s = 1 .. Len(s)
        /\ Len(s) \in Nat /\ Len(w) \in Nat
        /\ 0 >= Len(s) => Len(w) = 0
        /\ 0 < Len(s) => Len(w) = IF 0 + q.limit < Len(s) THEN q.limit ELSE Len(s) - 0
    BY <2>1, <1>3, WindowFacts
  <2> HIDE DEF w
  <2>3. Len(w) <= Len(s)
    <3> DEFINE a == Len(w)
               b == Len(s)
    <3>1. a \in Nat /\ b \in Nat /\ q.limit \in Nat /\ (0 >= b => a = 0)
          /\ (0 < b => a = IF 0 + q.limit < b THEN q.limit ELSE b - 0)
      BY <1>3, <2>2
    <3> HIDE DEF a, b
    <3>2. a <= b
      BY <3>1
    <3>3. QED
      BY <3>2 DEF a, b
  <2>4. QED
    BY <2>1, <2>2, <2>3 DEF s
<1>7. IsFiniteSet(Places(all))
  BY <1>1, <1>2, FinitePlaces
<1>8. Places(rows) \in SUBSET Places(all)
  BY <1>2, <1>4, <1>6 DEF Places
<1>9. Places(rows) = Places(all)
  BY <1>3, <1>7, <1>8, FS_Subset DEF Total
<1>10. ASSUME NEW i \in 1 .. n PROVE rows[i] = all[i]
  <2>1. ASSUME NEW j \in 1 .. Len(all[i]) PROVE j \in 1 .. Len(rows[i])
    <3>1. <<i, j>> \in Places(all)
      BY <1>2, <1>6 DEF Places
    <3>2. <<i, j>> \in Places(rows)
      BY <1>9, <3>1
    <3>3. QED
      BY <1>6, <3>2 DEF Places
  <2>2. Len(rows[i]) >= Len(all[i])
    BY <1>6, <2>1
  <2>3. QED
    BY <1>2, <1>3, <1>5, <2>2, WholeWindow
<1>11. ASSUME NEW t \in Range(ts) PROVE Returned(d, q)[t] = Rows(d, t)
  BY <1>1, <1>2, <1>4, <1>10 DEF Range
<1>12. rows = all
  <2>1. rows = [i \in 1 .. n |-> rows[i]]
    BY <1>1, <1>4 DEF rows, Shown, n, ts
  <2>2. all = [i \in 1 .. n |-> all[i]]
    BY <1>1, <1>2 DEF all, AllRows, n, ts
  <2>3. QED
    BY <1>10, <2>1, <2>2
<1>13. QED
  BY <1>11, <1>12 DEF ts, rows, all

\* A handoff shows a window of each of its lists.
LEMMA ListWindowFacts ==
  ASSUME NEW d \in Documents, NEW q \in Requests, NEW l \in ListNames
  PROVE  /\ List(d, Addressed(q), l) \in Seq(Item)
         /\ ListWindow(d, q, l) = Window(List(d, Addressed(q), l), q.offsets[l], q.limit)
         /\ ListWindow(d, q, l) \in Seq(Item)
  BY ListType, RequestFacts, WindowFacts DEF ListWindow

\* The tasks a handoff shows are some of those selected.
LEMMA ShownAreSelected ==
  ASSUME NEW d \in Documents, NEW q \in Requests
  PROVE  Range(ListWindow(d, q, "tasks")) \subseteq Range(Selected(d, Addressed(q)))
<1> DEFINE ts == Selected(d, Addressed(q))
           o == q.offsets["tasks"]
           w == Window(ts, o, q.limit)
<1>1. ts \in Seq(Tasks) /\ o \in Nat /\ q.limit \in Nat
  BY SelectedFacts, RequestFacts DEF ListNames
<1>2. ListWindow(d, q, "tasks") = w
  BY DEF ListWindow, List
<1> HIDE DEF ts, o
<1>3. /\ DOMAIN w = 1 .. Len(w) /\ DOMAIN ts = 1 .. Len(ts) /\ Len(ts) \in Nat /\ Len(w) \in Nat
      /\ o >= Len(ts) => Len(w) = 0
      /\ o < Len(ts) => Len(w) = IF o + q.limit < Len(ts) THEN q.limit ELSE Len(ts) - o
      /\ \A i \in 1 .. Len(w) : w[i] = ts[o + i]
  BY <1>1, WindowFacts
<1> HIDE DEF w
<1>4. ASSUME NEW i \in 1 .. Len(w) PROVE o + i \in 1 .. Len(ts)
  <2> DEFINE a == Len(w)
             b == Len(ts)
  <2>1. /\ a \in Nat /\ b \in Nat /\ i \in 1 .. a /\ (o >= b => a = 0)
        /\ (o < b => a = IF o + q.limit < b THEN q.limit ELSE b - o)
    BY <1>3
  <2> HIDE DEF a, b
  <2>2. o + i \in 1 .. b
    BY <1>1, <2>1
  <2>3. QED
    BY <2>2 DEF b
<1>5. QED
  BY <1>2, <1>3, <1>4 DEF Range, ts

\* What leads on from a page.
LEMMA PageFacts ==
  ASSUME NEW d \in Documents, NEW q \in Requests, Accepted(d, q)
  PROVE  LET page == Page(d, q)
         IN  /\ page.doc = d /\ (page.verified => page.complete)
             /\ \A t \in Tasks : page.rows[t] \in {Returned(d, q)[t], <<>>}
             /\ \A t \in Tasks : page.next[t] # None =>
                  /\ page.next[t] = Token(d, t, Start(q) + Len(Returned(d, q)[t]))
                  /\ Start(q) + Len(Returned(d, q)[t]) < Len(Rows(d, t))
                  /\ page.rows[t] = Returned(d, q)[t] /\ t \in Range(Selected(d, Addressed(q)))
<1>1. \A t : NextToken(d, q, t) # None =>
        /\ NextToken(d, q, t) = Token(d, t, Start(q) + Len(Returned(d, q)[t]))
        /\ Start(q) + Len(Returned(d, q)[t]) < Len(Rows(d, t))
  BY DEF NextToken
<1>2. CASE q.view = "coverage"
  <2> DEFINE page == CoveragePage(d, q)
  <2>1. /\ page.doc = d /\ (page.verified => page.complete) /\ page.rows = Returned(d, q)
        /\ \A t \in Tasks : page.next[t] = IF t = Addressed(q) /\ q.cursor # None
                                           THEN NextToken(d, q, t) ELSE None
    BY DEF CoveragePage
  <2>2. q.cursor # None => Addressed(q) \in Range(Selected(d, Addressed(q)))
    BY DEF Accepted, Addressed
  <2>3. Page(d, q) = page
    BY <1>2 DEF Page
  <2> HIDE DEF page
  <2>4. QED
    BY <1>1, <2>1, <2>2, <2>3
<1>3. CASE q.view = "handoff"
  <2> DEFINE page == HandoffPage(d, q)
             shown == Range(ListWindow(d, q, "tasks"))
  <2>1. /\ page.doc = d /\ (page.verified => page.complete)
        /\ \A t \in Tasks : page.rows[t] = IF t \in shown THEN Returned(d, q)[t] ELSE <<>>
        /\ \A t \in Tasks : page.next[t] = IF t \in shown THEN NextToken(d, q, t) ELSE None
    BY DEF HandoffPage
  <2>2. Page(d, q) = page
    BY <1>3 DEF Page
  <2> HIDE DEF page, shown
  <2>3. QED
    BY <1>1, <2>1, <2>2, ShownAreSelected DEF shown
<1>4. QED
  BY <1>2, <1>3 DEF Requests

\* A page that says verified speaks for its whole scope, whether it judges the
\* rows it returns or those selected.
LEMMA PageVerified ==
  ASSUME NEW d \in Documents, NEW q \in Requests, Page(d, q).verified
  PROVE  Covered(AllRows(d, Addressed(q)))
<1>1. CASE q.view = "coverage"
  <2>1. CoverageComplete(d, q, Shown(d, q)) /\ Covered(Shown(d, q))
    BY <1>1 DEF Page, CoveragePage, Shown
  <2>2. QED
    BY <2>1, CompleteCoverage
<1>2. CASE q.view = "handoff"
  BY <1>2 DEF Page, HandoffPage
<1>3. QED
  BY <1>1, <1>2 DEF Requests

\* A complete page shows everything: what EverythingShown says of a walk, of the
\* page itself.
LEMMA PageComplete ==
  ASSUME NEW d \in Documents, NEW q \in Requests, Page(d, q).complete,
         q.view = "handoff" => FromTheStart(q)
  PROVE  LET page == Page(d, q)
         IN  /\ \A t \in Range(Selected(d, Addressed(q))) :
                  /\ page.rows[t] = Rows(d, t)
                  /\ \A i \in DOMAIN page.rows[t] : page.rows[t][i].nested <= q.limit
             /\ \A l \in DOMAIN page.lists : page.lists[l] = List(d, Addressed(q), l)
<1> DEFINE ts == Selected(d, Addressed(q))
           n == Len(ts)
           all == AllRows(d, Addressed(q))
<1>1. /\ n \in Nat /\ DOMAIN ts = 1 .. n /\ ts \in Seq(Tasks) /\ q.limit \in Nat
      /\ \A i \in 1 .. n : ts[i] \in Tasks /\ Addressed(q) \in {ts[i], None}
      /\ Range(ts) \subseteq Tasks
  BY SelectedFacts, RequestFacts
<1>2. DOMAIN all = 1 .. n /\ \A i \in 1 .. n : all[i] = Rows(d, ts[i]) /\ all[i] \in Seq(RowType)
  BY AllRowsFacts, RequestFacts
<1> HIDE DEF ts, n, all
<1>3. CASE q.view = "coverage"
  <2> DEFINE page == CoveragePage(d, q)
  <2>1. /\ CoverageComplete(d, q, Shown(d, q)) /\ page.rows = Returned(d, q)
        /\ DOMAIN page.lists = {} /\ Page(d, q) = page
    BY <1>3 DEF Page, CoveragePage, Shown
  <2>2. /\ \A t \in Range(ts) : Returned(d, q)[t] = Rows(d, t)
        /\ Shown(d, q) = all
    BY <2>1, CompleteCoverage DEF ts, all
  <2>3. \A p \in Places(all) : all[p[1]][p[2]].nested <= q.limit
    BY <2>1, <2>2 DEF CoverageComplete
  <2>4. ASSUME NEW k \in 1 .. n, NEW i \in DOMAIN all[k] PROVE all[k][i].nested <= q.limit
    <3>1. <<k, i>> \in Places(all)
      BY <1>2 DEF Places
    <3>2. QED
      BY <2>3, <3>1
  <2> HIDE DEF page
  <2>5. ASSUME NEW t \in Range(ts)
        PROVE  page.rows[t] = Rows(d, t)
               /\ \A i \in DOMAIN page.rows[t] : page.rows[t][i].nested <= q.limit
    <3>1. PICK k \in 1 .. n : t = ts[k]
      BY <1>1 DEF Range
    <3>2. page.rows[t] = all[k]
      BY <1>2, <2>1, <2>2, <3>1
    <3>3. QED
      BY <1>2, <2>4, <3>1, <3>2
  <2>6. QED
    BY <2>1, <2>5 DEF ts
<1>4. CASE q.view = "handoff"
  <2> DEFINE page == HandoffPage(d, q)
  <2>1. /\ HandoffComplete(d, q) /\ Page(d, q) = page /\ DOMAIN page.lists = ListNames
        /\ \A l \in ListNames : page.lists[l] = ListWindow(d, q, l)
        /\ \A t \in Tasks : page.rows[t] = IF t \in Range(ListWindow(d, q, "tasks"))
                                           THEN Returned(d, q)[t] ELSE <<>>
    BY <1>4 DEF Page, HandoffPage
  <2> HIDE DEF page
  <2>2. Start(q) = 0 /\ \A l \in ListNames : q.offsets[l] = 0
    BY <1>4 DEF FromTheStart
  <2>3. ASSUME NEW l \in ListNames
        PROVE  /\ Len(List(d, Addressed(q), l)) <= q.limit
               /\ ListWindow(d, q, l) = List(d, Addressed(q), l)
    <3>1. List(d, Addressed(q), l) \in Seq(Item) /\ Len(List(d, Addressed(q), l)) \in Nat
      BY ListWindowFacts, LenProperties
    <3>2. q.limit >= Len(List(d, Addressed(q), l))
      BY <1>1, <2>1, <2>2, <3>1 DEF HandoffComplete, HasMore
    <3>3. QED
      BY <1>1, <2>2, <3>1, <3>2, WholeWindow, ListWindowFacts
  <2>4. /\ Total(all) \in Nat /\ Total(all) <= q.limit
        /\ \A i \in 1 .. n : Len(all[i]) <= Total(all) /\ Len(all[i]) \in Nat
    <3>1. /\ Total(all) \in Nat
          /\ \A i \in 1 .. n : Len(all[i]) <= Total(all)
      BY <1>1, <1>2, FinitePlaces
    <3>2. \A i \in 1 .. n : Len(all[i]) \in Nat
      BY <1>2, LenProperties
    <3>3. QED
      BY <1>1, <2>1, <2>2, <3>1, <3>2 DEF HandoffComplete, HasMore, all
  <2>5. Range(ListWindow(d, q, "tasks")) = Range(ts)
    BY <2>3 DEF List, ListNames, ts
  <2>6. ASSUME NEW t \in Range(ts)
        PROVE  page.rows[t] = Rows(d, t)
    <3>1. PICK k \in 1 .. n : t = ts[k]
      BY <1>1 DEF Range
    <3>2. Rows(d, t) \in Seq(RowType) /\ q.limit >= Len(Rows(d, t))
      BY <1>1, <1>2, <2>4, <3>1
    <3>3. Window(Rows(d, t), 0, q.limit) = Rows(d, t)
      BY <1>1, <3>2, WholeWindow
    <3>4. t \in Tasks
      BY <1>1
    <3>5. QED
      BY <2>1, <2>2, <2>5, <3>3, <3>4, ReturnedFacts DEF ts
  <2>7. ASSUME NEW t \in Range(ts), NEW i \in DOMAIN Rows(d, t)
        PROVE  Rows(d, t)[i].nested <= q.limit
    <3> DEFINE c == d.acceptance[t][i]
               I == {j \in DOMAIN d.evidence : Addressed(q) \in {d.evidence[j].task, None}}
    <3>1. Rows(d, t)[i].nested = Cardinality(About(d, t, c))
      BY DEF Rows, Row
    <3>2. Addressed(q) \in {t, None}
      BY <1>1 DEF Range
    <3>3. About(d, t, c) \in SUBSET I /\ I \in SUBSET DOMAIN d.evidence
      BY <3>2 DEF About
    <3>4. d.evidence \in Seq(EvidenceType)
      BY DEF Documents, EvidenceType
    <3>5. List(d, Addressed(q), "evidence") = Those(d.evidence, I)
      BY DEF List
    <3> HIDE DEF I
    <3>6. IsFiniteSet(I) /\ Len(Those(d.evidence, I)) = Cardinality(I)
      BY <3>3, <3>4, ThoseType
    <3>7. Cardinality(About(d, t, c)) <= Cardinality(I)
      BY <3>3, <3>6, FS_Subset
    <3>8. Cardinality(I) <= q.limit
      BY <2>3, <3>5, <3>6 DEF ListNames
    <3>9. Cardinality(I) \in Nat /\ Cardinality(About(d, t, c)) \in Nat
      BY <3>6, FS_CardinalityType, AboutFacts
    <3> HIDE DEF c
    <3>10. QED
      BY <1>1, <3>1, <3>7, <3>8, <3>9
  <2>8. QED
    BY <2>1, <2>3, <2>6, <2>7 DEF ts
<1>5. QED
  BY <1>3, <1>4 DEF Requests

-----------------------------------------------------------------------------
(* Steps.                                                                   *)

\* A commit writes a document, whatever list it changes.
LEMMA CommitKeepsDocument ==
  ASSUME doc \in Documents, Commit
  PROVE  doc' \in Documents /\ walk' = walk
<1>1. /\ doc.rev \in 1 .. MaxRev /\ doc.tasks \in Seq(Tasks) /\ doc.acceptance \in [Tasks -> Seq(Conds)]
      /\ doc.evidence \in Seq(EvidenceType) /\ Range(doc.tasks) \subseteq Tasks
  <2>1. doc.tasks \in Seq(Tasks) /\ DOMAIN doc.tasks = 1 .. Len(doc.tasks)
    BY LenProperties DEF Documents
  <2>2. Range(doc.tasks) \subseteq Tasks
    BY <2>1, ElementOfSeq DEF Range
  <2>3. QED
    BY <2>1, <2>2 DEF Documents, EvidenceType
<1>2. ASSUME NEW d \in Documents, d.rev = doc.rev, Write(d)
      PROVE  doc' \in Documents /\ walk' = walk
  <2> DEFINE n == doc.rev + 1
  <2>1. doc.rev < MaxRev /\ doc' = [d EXCEPT !.rev = n] /\ walk' = walk
    BY <1>2 DEF Write
  <2>2. n \in 1 .. MaxRev
    BY <1>1, <2>1, MaxRevAssumption
  <2> HIDE DEF n
  <2>3. [d EXCEPT !.rev = n] \in Documents
    BY <2>2 DEF Documents
  <2>4. QED
    BY <2>1, <2>3
<1>3. CASE AddCondition
  <2>1. PICK t \in Range(doc.tasks), c \in Conds :
          \E i \in 0 .. Len(doc.acceptance[t]) :
            Write([doc EXCEPT !.acceptance[t] = SubSeq(@, 1, i) \o <<c>> \o SubSeq(@, i + 1, Len(@))])
    BY <1>3 DEF AddCondition
  <2> DEFINE s == doc.acceptance[t]
  <2>2. PICK i \in 0 .. Len(s) :
          Write([doc EXCEPT !.acceptance[t] = SubSeq(@, 1, i) \o <<c>> \o SubSeq(@, i + 1, Len(@))])
    BY <2>1
  <2>3. s \in Seq(Conds) /\ Len(s) \in Nat /\ t \in Tasks
    BY <1>1, LenProperties
  <2> DEFINE new == SubSeq(s, 1, i) \o <<c>> \o SubSeq(s, i + 1, Len(s))
  <2>4. new \in Seq(Conds)
    <3>0. i \in Nat /\ i <= Len(s)
      BY <2>3
    <3>1. SubSeq(s, 1, i) \in Seq(Conds)
      <4>1. \A j \in 1 .. i : s[j] \in Conds
        BY <2>3, <3>0, ElementOfSeq
      <4> HIDE DEF s
      <4>2. QED
        BY <3>0, <4>1, SubSeqProperties
    <3>2. SubSeq(s, i + 1, Len(s)) \in Seq(Conds)
      <4> DEFINE m == i + 1
                 n == Len(s)
      <4>1. m \in Int /\ n \in Int /\ \A j \in m .. n : s[j] \in Conds
        BY <2>3, <3>0, ElementOfSeq
      <4> HIDE DEF s, m, n
      <4>2. SubSeq(s, m, n) \in Seq(Conds)
        BY <4>1, SubSeqProperties
      <4>3. QED
        BY <4>2 DEF m, n
    <3>3. <<c>> \in Seq(Conds)
      OBVIOUS
    <3> HIDE DEF s
    <3>4. SubSeq(s, 1, i) \o <<c>> \in Seq(Conds)
      BY <3>1, <3>3, ConcatProperties
    <3>5. QED
      BY <3>2, <3>4, ConcatProperties
  <2> DEFINE d == [doc EXCEPT !.acceptance[t] = new]
  <2>5. Write(d)
    BY <2>2
  <2> HIDE DEF new
  <2>6. d \in Documents /\ d.rev = doc.rev
    BY <1>1, <2>3, <2>4 DEF Documents
  <2> HIDE DEF d
  <2>7. QED
    BY <1>2, <2>5, <2>6
<1>4. CASE AddEvidence
  <2>1. PICK t \in Range(doc.tasks) : \E c \in Range(doc.acceptance[t]) :
          Write([doc EXCEPT !.evidence = Append(@, [task |-> t, cond |-> c, effective |-> TRUE])])
    BY <1>4 DEF AddEvidence
  <2>2. PICK c \in Range(doc.acceptance[t]) :
          Write([doc EXCEPT !.evidence = Append(@, [task |-> t, cond |-> c, effective |-> TRUE])])
    BY <2>1
  <2>3. t \in Tasks /\ doc.acceptance[t] \in Seq(Conds)
    BY <1>1
  <2>4. c \in Conds
    BY <2>3, LenProperties, ElementOfSeq DEF Range
  <2> DEFINE new == Append(doc.evidence, [task |-> t, cond |-> c, effective |-> TRUE])
             d == [doc EXCEPT !.evidence = new]
  <2>5. new \in Seq(EvidenceType)
    <3>1. [task |-> t, cond |-> c, effective |-> TRUE] \in EvidenceType
      BY <2>3, <2>4 DEF EvidenceType
    <3>2. QED
      BY <1>1, <3>1, AppendProperties
  <2>6. Write(d)
    BY <2>2
  <2> HIDE DEF new
  <2>7. d \in Documents /\ d.rev = doc.rev
    BY <2>5 DEF Documents, EvidenceType
  <2> HIDE DEF d
  <2>8. QED
    BY <1>2, <2>6, <2>7
<1>5. CASE Withdraw
  <2>1. PICK i \in DOMAIN doc.evidence : Write([doc EXCEPT !.evidence[i].effective = FALSE])
    BY <1>5 DEF Withdraw
  <2> DEFINE e == [doc.evidence[i] EXCEPT !.effective = FALSE]
             new == [doc.evidence EXCEPT ![i] = e]
             d == [doc EXCEPT !.evidence = new]
  <2>2. i \in 1 .. Len(doc.evidence) /\ doc.evidence[i] \in EvidenceType
    BY <1>1, LenProperties, ElementOfSeq
  <2>3. e \in EvidenceType
    BY <2>2 DEF EvidenceType
  <2>4. Write(d)
    BY <2>1
  <2> HIDE DEF e
  <2>5. new \in Seq(EvidenceType)
    BY <1>1, <2>2, <2>3, ExceptSeq
  <2> HIDE DEF new
  <2>6. d \in Documents /\ d.rev = doc.rev
    BY <2>5 DEF Documents, EvidenceType
  <2> HIDE DEF d
  <2>7. QED
    BY <1>2, <2>4, <2>6
<1>6. CASE RemoveTask
  <2>1. PICK t \in Range(doc.tasks) :
          Write([doc EXCEPT !.tasks = Those(@, {i \in DOMAIN @ : @[i] # t}),
                            !.acceptance[t] = <<>>,
                            !.evidence = Those(@, {i \in DOMAIN @ : @[i].task # t})])
    BY <1>6 DEF RemoveTask
  <2> DEFINE tasks == Those(doc.tasks, {i \in DOMAIN doc.tasks : doc.tasks[i] # t})
             evidence == Those(doc.evidence, {i \in DOMAIN doc.evidence : doc.evidence[i].task # t})
             d == [doc EXCEPT !.tasks = tasks, !.acceptance[t] = <<>>, !.evidence = evidence]
  <2>2. tasks \in Seq(Tasks) /\ evidence \in Seq(EvidenceType)
    BY <1>1, ThoseType
  <2>3. Write(d)
    BY <2>1
  <2>4. t \in Tasks /\ <<>> \in Seq(Conds)
    BY <1>1, EmptySeq
  <2> HIDE DEF tasks, evidence
  <2>5. d \in Documents /\ d.rev = doc.rev
    BY <1>1, <2>2, <2>4 DEF Documents, EvidenceType
  <2> HIDE DEF d
  <2>6. QED
    BY <1>2, <2>3, <2>5
<1>7. QED
  BY <1>3, <1>4, <1>5, <1>6 DEF Commit

\* A window of no items is empty.
LEMMA EmptyWindow ==
  ASSUME NEW S, NEW s \in Seq(S), NEW offset \in Nat
  PROVE  Window(s, offset, 0) = <<>>
<1> DEFINE w == Window(s, offset, 0)
<1>1. /\ w \in Seq(S) /\ Len(s) \in Nat
      /\ offset >= Len(s) => Len(w) = 0
      /\ offset < Len(s) => Len(w) = IF offset + 0 < Len(s) THEN 0 ELSE Len(s) - offset
  BY WindowFacts
<1> HIDE DEF w
<1>2. Len(w) = 0
  BY <1>1
<1>3. w = <<>>
  BY <1>1, <1>2, EmptySeq
<1>4. QED
  BY <1>3 DEF w

\* What a walk is for.
Purpose(w) ==
  /\ w.q \in Requests /\ w.follow \in Follows /\ w.task \in Tasks \cup {None}
  /\ w.follow \in ListNames <=> w.task = None
  /\ w.follow \in ListNames => w.q.view = "handoff"

\* What a walk collects from a page is the part of the whole list where its
\* request begins.
LEMMA ItemsFacts ==
  ASSUME NEW d \in Documents, NEW w, Purpose(w), Accepted(d, w.q)
  PROVE  LET items == Items(w, Page(d, w.q))
         IN  /\ Begin(w) \in Nat /\ Whole(w, d) \in Seq(Item)
             /\ items \in Seq(Item) /\ Len(items) \in Nat
             /\ items = Window(Whole(w, d), Begin(w), Len(items))
<1> DEFINE items == Items(w, Page(d, w.q))
<1>1. CASE w.follow \in ListNames
  <2> DEFINE l == w.follow
  <2>1. Begin(w) = w.q.offsets[l] /\ Begin(w) \in Nat /\ w.q.limit \in Nat
    BY <1>1, RequestFacts DEF Begin, Purpose
  <2>2. items = ListWindow(d, w.q, l)
    BY <1>1 DEF Items, Page, HandoffPage, Purpose
  <2>3. /\ Whole(w, d) = List(d, Addressed(w.q), l) /\ Whole(w, d) \in Seq(Item)
        /\ items \in Seq(Item) /\ items = Window(Whole(w, d), Begin(w), w.q.limit)
    BY <1>1, <2>1, <2>2, ListWindowFacts DEF Whole, Purpose
  <2> HIDE DEF items, l
  <2>4. items = Window(Whole(w, d), Begin(w), Len(items))
    BY <2>1, <2>3, WindowIsPrefix
  <2>5. QED
    BY <2>1, <2>3, <2>4, LenProperties DEF items
<1>2. CASE w.follow \notin ListNames
  <2>1. Begin(w) = Start(w.q) /\ Begin(w) \in Nat /\ w.q.limit \in Nat /\ w.task \in Tasks
    BY <1>2, RequestFacts DEF Begin, Purpose
  <2>2. Whole(w, d) = Rows(d, w.task) /\ Rows(d, w.task) \in Seq(RowType)
    BY <1>2, <2>1, RowsType DEF Whole
  <2>3. items \in {Returned(d, w.q)[w.task], <<>>}
    BY <1>2, <2>1, PageFacts DEF Items, Purpose
  <2>4. items = Window(Rows(d, w.task), Begin(w), w.q.limit) \/ items = <<>>
    BY <2>1, <2>3, ReturnedFacts DEF Purpose
  <2> HIDE DEF items
  <2>5. items \in Seq(RowType) /\ items = Window(Rows(d, w.task), Begin(w), Len(items))
    <3>1. CASE items = <<>>
      BY <3>1, <2>1, <2>2, EmptyWindow, EmptySeq
    <3>2. CASE items = Window(Rows(d, w.task), Begin(w), w.q.limit)
      BY <3>2, <2>1, <2>2, WindowFacts, WindowIsPrefix
    <3>3. QED
      BY <2>4, <3>1, <3>2
  <2>6. items \in Seq(Item) /\ Whole(w, d) \in Seq(Item)
    BY <2>2, <2>5, SeqMonotonic DEF Item
  <2>7. QED
    BY <2>1, <2>2, <2>5, <2>6, LenProperties DEF items
<1>3. QED
  BY <1>1, <1>2

\* None is no task, no cursor and no request.
LEMMA NotNone ==
  /\ \A t \in Tasks : t # None
  /\ \A c \in Cursors : c # None
  /\ \A q \in Requests : q # None
  BY NoneAssumption

\* Both kinds of positions are cursors.
LEMMA TokenFacts ==
  ASSUME NEW d \in Documents, NEW t \in Tasks, NEW offset \in Nat
  PROVE  /\ Token(d, t, offset) \in Cursors /\ Token(d, t, offset) # None
         /\ Position(t, offset) \in Cursors /\ Position(t, offset) # None
<1>1. Token(d, t, offset) \in Cursors
  BY DEF Token, Identity, Cursors
<1>2. Position(t, offset) \in Cursors
  BY DEF Position, Cursors
<1>3. QED
  BY <1>1, <1>2, NotNone

\* A step of one reader keeps the invariant if it gives it a walk that has it.
LEMMA WalkNext ==
  ASSUME NEW r \in Readers, NEW new, IInv,
         walk' = [walk EXCEPT ![r] = new], doc' = doc,
         new = None \/ (WalkType(new) /\ HoldsItsPage(new) /\ InOneDocument(new))
  PROVE  IInv'
<1>1. DOMAIN walk = Readers /\ doc \in Documents
      /\ \A w \in Walks : WalkType(w) /\ HoldsItsPage(w) /\ InOneDocument(w)
  BY DEF IInv
<1>2. DOMAIN walk' = Readers /\ doc' \in Documents
  BY <1>1
<1>3. ASSUME NEW w \in Walks' PROVE w \in Walks \/ (w = new /\ new # None)
  BY <1>1 DEF Walks
<1>4. ASSUME NEW w \in Walks' PROVE WalkType(w) /\ HoldsItsPage(w) /\ InOneDocument(w)
  BY <1>1, <1>3
<1>5. (\A w \in Walks : WalkType(w) /\ HoldsItsPage(w) /\ InOneDocument(w))'
  BY <1>4 DEF WalkType, HoldsItsPage, InOneDocument
<1>6. QED
  BY <1>2, <1>5 DEF IInv

\* The first page of a walk.
LEMMA AskKeeps ==
  ASSUME IInv, NEW r \in Readers, Ask(r)
  PROVE  IInv'
<1>1. PICK q \in Openings, follow \in Follows, t \in Tasks \cup {None} :
       /\ Accepted(doc, q)
       /\ follow \in ListNames => q.view = "handoff"
       /\ follow \in ListNames <=> t = None
       /\ LET w == [q |-> q, follow |-> follow, task |-> t]
          IN walk' = [walk EXCEPT ![r] =
                        [q |-> q, follow |-> follow, task |-> t, page |-> Page(doc, q),
                         from |-> Begin(w), got |-> Items(w, Page(doc, q)), docs |-> {doc}]]
  BY DEF Ask
<1> DEFINE w == [q |-> q, follow |-> follow, task |-> t]
           page == Page(doc, q)
           new == [q |-> q, follow |-> follow, task |-> t, page |-> page,
                   from |-> Begin(w), got |-> Items(w, page), docs |-> {doc}]
<1>2. doc' = doc /\ doc \in Documents /\ walk' = [walk EXCEPT ![r] = new]
  BY <1>1 DEF Ask, IInv
<1>3. q \in Requests
  <2>1. q.cursor \in Cursors \cup {None}
    <3>1. q.cursor \in {Position(x, o) : x \in Tasks, o \in Offsets} \cup {None}
      BY DEF Openings
    <3>2. \A x \in Tasks, o \in Offsets : Position(x, o) \in Cursors
      BY OffsetsAssumption DEF Position, Cursors
    <3>3. QED
      BY <3>1, <3>2
  <2>2. q.offsets \in [ListNames -> Nat]
    <3>1. PICK m \in ListNames, o \in Offsets : q.offsets = [l \in ListNames |-> IF l = m THEN o ELSE 0]
      BY DEF Openings
    <3>2. QED
      BY <3>1, OffsetsAssumption
  <2>3. q.limit \in Nat \ {0}
    <3>1. q.limit \in Limits
      BY DEF Openings
    <3>2. QED
      BY <3>1, LimitsAssumption
  <2>4. QED
    BY <2>1, <2>2, <2>3 DEF Openings, Requests
<1>4. Purpose(w) /\ Accepted(doc, w.q)
  BY <1>1, <1>3 DEF Purpose
<1>5. page.doc = doc
  BY <1>1, <1>2, <1>3, PageFacts
<1>6. /\ Begin(w) \in Nat /\ Whole(w, doc) \in Seq(Item)
      /\ Items(w, page) \in Seq(Item) /\ Len(Items(w, page)) \in Nat
      /\ Items(w, page) = Window(Whole(w, doc), Begin(w), Len(Items(w, page)))
  <2> HIDE DEF w
  <2>1. w.q = q
    BY DEF w
  <2>2. QED
    BY <1>2, <1>4, <2>1, ItemsFacts
<1>7. /\ Begin(new) = Begin(w) /\ Whole(new, doc) = Whole(w, doc) /\ Items(new, page) = Items(w, page)
  <2> HIDE DEF page
  <2>1. new.q = w.q /\ new.follow = w.follow /\ new.task = w.task
    OBVIOUS
  <2>2. QED
    BY <2>1 DEF Begin, Whole, Items
<1>8. /\ new.q = q /\ new.follow = follow /\ new.task = t /\ new.page = page
      /\ new.from = Begin(w) /\ new.got = Items(w, page) /\ new.docs = {doc}
      /\ DOMAIN new = {"q", "follow", "task", "page", "from", "got", "docs"}
  OBVIOUS
<1>9. q \in Requests /\ follow \in Follows /\ t \in Tasks \cup {None}
      /\ (follow \in ListNames => q.view = "handoff") /\ (follow \in ListNames <=> t = None)
      /\ Accepted(doc, q)
  BY <1>1, <1>3
<1> HIDE DEF new, w
<1>10. WalkType(new)
  BY <1>2, <1>5, <1>6, <1>8, <1>9 DEF WalkType
<1>11. HoldsItsPage(new)
  BY <1>5, <1>7, <1>8, <1>9 DEF HoldsItsPage, NextOffset
<1>12. InOneDocument(new)
  BY <1>5, <1>6, <1>7, <1>8 DEF InOneDocument
<1>13. QED
  BY <1>2, <1>10, <1>11, <1>12, WalkNext

\* The request a page leads to, and where it begins.
LEMMA NextRequestFacts ==
  ASSUME NEW w, WalkType(w), HoldsItsPage(w), NextRequest(w) # None
  PROVE  LET p == NextRequest(w)
         IN  /\ p \in Requests /\ p.view = w.q.view
             /\ w.follow \in ListNames =>
                  /\ p.task = w.q.task /\ p.cursor = w.q.cursor
                  /\ p.offsets[w.follow] = NextOffset(w)
             /\ w.follow \notin ListNames => p.cursor # None /\ p.cursor.offset = NextOffset(w)
             /\ w.follow = "opaque" =>
                  p.cursor.kind = "opaque" /\ p.cursor.identity = Identity(w.page.doc, w.task)
<1> DEFINE p == NextRequest(w)
           d == w.page.doc
<1>1. /\ w.q \in Requests /\ d \in Documents /\ w.page = Page(d, w.q) /\ Accepted(d, w.q)
      /\ w.follow \in Follows /\ NextOffset(w) = w.from + Len(w.got)
      /\ w.follow \notin ListNames => w.task \in Tasks
  BY DEF WalkType, HoldsItsPage
<1>2. NextOffset(w) \in Nat
  <2>1. Len(w.got) \in Nat /\ w.from \in Nat
    BY LenProperties DEF WalkType
  <2>2. QED
    BY <1>1, <2>1
<1>3. CASE w.follow \in ListNames
  <2> DEFINE o == NextOffset(w)
             l == w.follow
  <2>0. l # "opaque" /\ l # "readable"
    BY <1>3 DEF ListNames
  <2>1. p = [w.q EXCEPT !.offsets[l] = o]
    <3>1. NextRequest(w) = IF o < Len(Whole(w, d)) THEN [w.q EXCEPT !.offsets[l] = o] ELSE None
      BY <1>3, <2>0 DEF NextRequest
    <3>2. QED
      BY <3>1
  <2> HIDE DEF o, p
  <2>2. o \in Nat /\ l \in ListNames
    BY <1>2, <1>3 DEF o
  <2>3. p \in Requests /\ p.view = w.q.view /\ p.task = w.q.task /\ p.cursor = w.q.cursor
        /\ p.offsets[l] = o
    BY <1>1, <2>1, <2>2 DEF Requests
  <2>4. l # "opaque"
    BY <1>3 DEF ListNames
  <2>5. QED
    BY <1>3, <2>3, <2>4 DEF o, p
<1>4. CASE w.follow \in {"opaque", "readable"}
  <2> DEFINE t == w.task
  <2>0. t \in Tasks /\ w.follow \notin ListNames
    BY <1>1, <1>4 DEF ListNames
  <2>1. w.page.next[t] # None
    BY <1>4, <2>0 DEF NextRequest, ListNames
  <2>2. /\ w.page.next[t] = Token(d, t, Start(w.q) + Len(Returned(d, w.q)[t]))
        /\ w.page.rows[t] = Returned(d, w.q)[t]
    BY <1>1, <2>0, <2>1, PageFacts
  <2>3. NextOffset(w) = Start(w.q) + Len(Returned(d, w.q)[t])
    BY <2>0, <2>2 DEF NextOffset, Begin, Items
  <2> DEFINE c == IF w.follow = "opaque" THEN Token(d, t, NextOffset(w)) ELSE Position(t, NextOffset(w))
  <2>4. p = [w.q EXCEPT !.task = t, !.cursor = c]
    BY <1>4, <2>0, <2>1, <2>2, <2>3 DEF NextRequest, ListNames
  <2>5. c \in Cursors /\ c # None /\ c.offset = NextOffset(w)
    <3>1. Token(d, t, NextOffset(w)).offset = NextOffset(w) /\ Position(t, NextOffset(w)).offset = NextOffset(w)
      BY DEF Token, Position
    <3>2. QED
      BY <1>1, <1>2, <2>0, <3>1, TokenFacts
  <2>6. w.follow = "opaque" => c.kind = "opaque" /\ c.identity = Identity(d, t)
    BY DEF Token
  <2> HIDE DEF c, p
  <2>7. p \in Requests /\ p.view = w.q.view /\ p.cursor = c
    BY <1>1, <2>0, <2>4, <2>5 DEF Requests
  <2>8. QED
    BY <2>0, <2>5, <2>6, <2>7 DEF p
<1>5. QED
  BY <1>1, <1>3, <1>4 DEF Follows

\* Every further page: it continues where the last ended, in whatever document
\* is committed by now, and an opaque cursor only in its own.
LEMMA FollowKeeps ==
  ASSUME IInv, NEW r \in Readers, Follow(r)
  PROVE  IInv'
<1> DEFINE w == walk[r]
           p == NextRequest(w)
<1>1. w \in Walks /\ w # None /\ p # None /\ doc' = doc
  BY DEF Follow, Walks
<1>2. doc \in Documents /\ WalkType(w) /\ HoldsItsPage(w) /\ InOneDocument(w)
  BY <1>1 DEF IInv
<1>3. PICK q \in {[p EXCEPT !.limit = limit] : limit \in Limits} :
        \E page \in {Page(doc, q)} :
          walk' = [walk EXCEPT ![r] =
                     IF Accepted(doc, q)
                     THEN [walk[r] EXCEPT !.q = q, !.page = page, !.docs = @ \cup {doc},
                                          !.got = @ \o Items(walk[r], page)]
                     ELSE None]
  BY DEF Follow
<1> DEFINE page == Page(doc, q)
           items == Items(w, page)
           new == [walk[r] EXCEPT !.q = q, !.page = page, !.docs = @ \cup {doc},
                                  !.got = @ \o Items(walk[r], page)]
<1>4. walk' = [walk EXCEPT ![r] = IF Accepted(doc, q) THEN new ELSE None]
  BY <1>3
<1>5. CASE ~Accepted(doc, q)
  BY <1>1, <1>4, <1>5, WalkNext
<1>6. CASE Accepted(doc, q)
  <2>1. /\ p \in Requests /\ p.view = w.q.view
        /\ w.follow \in ListNames =>
             /\ p.task = w.q.task /\ p.cursor = w.q.cursor
             /\ p.offsets[w.follow] = NextOffset(w)
        /\ w.follow \notin ListNames => p.cursor # None /\ p.cursor.offset = NextOffset(w)
        /\ w.follow = "opaque" =>
             p.cursor.kind = "opaque" /\ p.cursor.identity = Identity(w.page.doc, w.task)
    BY <1>1, <1>2, NextRequestFacts
  <2>2. /\ q \in Requests /\ q.view = p.view /\ q.task = p.task /\ q.cursor = p.cursor
        /\ q.offsets = p.offsets
    <3> HIDE DEF p
    <3>1. PICK limit \in Limits : q = [p EXCEPT !.limit = limit]
      BY <1>3
    <3>2. limit \in Nat \ {0}
      BY LimitsAssumption
    <3>3. QED
      BY <2>1, <3>1, <3>2 DEF Requests
  <2>3. /\ WalkType(w) /\ w.page = Page(w.page.doc, w.q) /\ w.page.doc \in w.docs
        /\ w.from + Len(w.got) = NextOffset(w) /\ w.got \in Seq(Item) /\ w.from \in Nat
        /\ w.follow \in Follows /\ w.task \in Tasks \cup {None}
        /\ (w.follow \in ListNames <=> w.task = None)
        /\ (w.follow \in ListNames => w.q.view = "handoff")
    BY <1>2 DEF WalkType, HoldsItsPage
  <2>4. page.doc = doc
    BY <1>2, <1>6, <2>2, PageFacts
  <2> HIDE DEF p
    <2>5. /\ new.q = q /\ new.follow = w.follow /\ new.task = w.task /\ new.page = page
        /\ new.from = w.from /\ new.docs = w.docs \cup {doc} /\ new.got = w.got \o items
    BY <1>2 DEF WalkType
  <2>6. Purpose(new) /\ Accepted(doc, new.q)
    BY <1>6, <2>1, <2>2, <2>3, <2>5 DEF Purpose
  <2>7. items = Items(new, page)
    BY <2>5 DEF Items
  <2>8. Begin(new) = NextOffset(w)
    BY <2>1, <2>2, <2>3, <2>5 DEF Begin, Start
  <2> HIDE DEF new, items, w
  <2>9. /\ Whole(new, doc) \in Seq(Item) /\ items \in Seq(Item) /\ Len(items) \in Nat
        /\ items = Window(Whole(new, doc), Begin(new), Len(items))
    <3> HIDE DEF page
    <3>1. page = Page(doc, new.q)
      BY <2>5 DEF page
    <3>2. QED
      BY <1>2, <2>6, <2>7, <3>1, ItemsFacts
  <2>10. Len(w.got) \in Nat /\ new.got \in Seq(Item) /\ Len(new.got) = Len(w.got) + Len(items)
    BY <2>3, <2>5, <2>9, ConcatProperties, LenProperties
  <2>11. WalkType(new)
    <3>1. DOMAIN new = DOMAIN w
      BY DEF new, w
    <3>2. QED
      BY <1>2, <2>2, <2>3, <2>4, <2>5, <2>6, <2>10, <3>1 DEF WalkType, Purpose
  <2>12. HoldsItsPage(new)
    <3>1. NextOffset(new) = Begin(new) + Len(items)
      BY <2>5, <2>7 DEF NextOffset
    <3>2. new.from + Len(new.got) = NextOffset(new)
      BY <2>3, <2>5, <2>8, <2>9, <2>10, <3>1
    <3>3. QED
      BY <2>4, <2>5, <2>6, <3>2 DEF HoldsItsPage
  <2>13. new.follow = "opaque" => new.docs = {new.page.doc}
    <3> SUFFICES ASSUME w.follow = "opaque" PROVE new.docs = {doc}
      BY <2>4, <2>5
    <3>1. q.cursor # None /\ q.cursor.kind = "opaque" /\ q.cursor.identity.doc = w.page.doc
      BY <2>1, <2>2 DEF ListNames, Identity
    <3>2. q.cursor.identity.doc = doc
      BY <1>6, <3>1 DEF Accepted, CursorFits, IsToken, Identity
    <3>3. w.docs = {w.page.doc}
      BY <1>2 DEF InOneDocument
    <3>4. QED
      BY <2>5, <3>1, <3>2, <3>3
  <2>14. ASSUME new.docs = {new.page.doc}
         PROVE  new.got = Window(Whole(new, new.page.doc), new.from, Len(new.got))
    <3>1. w.page.doc = doc /\ w.docs = {w.page.doc}
      BY <2>3, <2>4, <2>5, <2>14
    <3>2. w.got = Window(Whole(w, doc), w.from, Len(w.got))
      BY <1>2, <3>1 DEF InOneDocument
    <3>3. Whole(new, doc) = Whole(w, doc)
      BY <2>1, <2>2, <2>5 DEF Whole, Addressed
    <3>4. items = Window(Whole(w, doc), w.from + Len(w.got), Len(items))
      BY <2>3, <2>8, <2>9, <3>3
    <3> DEFINE s == Whole(w, doc)
               got == w.got
               n == Len(items)
               from == w.from
    <3>5. /\ s \in Seq(Item) /\ got \in Seq(Item) /\ n \in Nat /\ from \in Nat
          /\ Part(s, from, got) /\ items = Window(s, from + Len(got), n)
      BY <2>3, <2>9, <3>2, <3>3, <3>4 DEF Part
    <3> HIDE DEF s, got, n, from
    <3>6. Part(s, from, got \o items)
      BY <3>5, WindowsJoin
    <3>7. QED
      BY <2>4, <2>5, <3>3, <3>6 DEF Part, s, got, from
  <2>15. InOneDocument(new)
    BY <2>13, <2>14 DEF InOneDocument
  <2>16. QED
    BY <1>1, <1>4, <1>6, <2>11, <2>12, <2>15, WalkNext
<1>7. QED
  BY <1>5, <1>6

-----------------------------------------------------------------------------
(* The theorems.                                                            *)

\* Nobody reads in the beginning.
LEMMA InitIInv ==
  Init => IInv
<1> SUFFICES ASSUME Init PROVE IInv
  OBVIOUS
<1>1. doc \in Documents
  BY FirstAssumption DEF Init
<1>2. DOMAIN walk = Readers /\ Walks = {}
  BY DEF Init, Walks
<1>3. QED
  BY <1>1, <1>2 DEF IInv

\* Every step keeps the invariant; a commit changes no walk.
LEMMA StepIInv ==
  IInv /\ [Next]_vars => IInv'
<1> SUFFICES ASSUME IInv, [Next]_vars PROVE IInv'
  OBVIOUS
<1>1. CASE Commit
  <2>1. doc' \in Documents /\ walk' = walk
    BY <1>1, CommitKeepsDocument DEF IInv
  <2>2. QED
    BY <2>1 DEF IInv, Walks, WalkType, HoldsItsPage, InOneDocument
<1>2. ASSUME NEW r \in Readers, Ask(r) PROVE IInv'
  BY <1>2, AskKeeps
<1>3. ASSUME NEW r \in Readers, Follow(r) PROVE IInv'
  BY <1>3, FollowKeeps
<1>4. ASSUME NEW r \in Readers, Stop(r) PROVE IInv'
  BY <1>4, WalkNext DEF Stop
<1>5. CASE UNCHANGED vars
  BY <1>5 DEF vars, IInv, Walks, WalkType, HoldsItsPage, InOneDocument
<1>6. QED
  BY <1>1, <1>2, <1>3, <1>4, <1>5 DEF Next

\* The inductive invariant: every reader holds the page its last request gets
\* in one document (storage and v4 read the document once per request), and
\* what it has collected ends where it would go on.
THEOREM Inductive == Spec => []IInv
<1>1. Init => IInv
  BY InitIInv
<1>2. IInv /\ [Next]_vars => IInv'
  BY StepIInv
<1>3. QED
  BY <1>1, <1>2, PTL DEF Spec

\* The invariant, of one walk.
LEMMA WalkFacts ==
  ASSUME IInv, NEW w \in Walks
  PROVE  /\ w.q \in Requests /\ w.page.doc \in Documents /\ w.page = Page(w.page.doc, w.q)
         /\ Accepted(w.page.doc, w.q) /\ WalkType(w) /\ HoldsItsPage(w) /\ InOneDocument(w)
  BY DEF IInv, WalkType, HoldsItsPage

\* Tokens point at rows that are there.
LEMMA TypeFromIInv ==
  IInv => TypeOK
<1> SUFFICES ASSUME IInv PROVE TypeOK
  OBVIOUS
<1>1. ASSUME NEW w \in Walks
      PROVE  /\ w.follow \in Follows /\ w.task \in Tasks \cup {None} /\ w.from \in Nat
             /\ w.page.doc \in w.docs
             /\ \A t \in Tasks :
                  w.page.next[t] # None => w.page.next[t].offset < Len(Rows(w.page.doc, t))
             /\ w.page.verified => w.page.complete
  <2> DEFINE d == w.page.doc
             q == w.q
             page == w.page
  <2>1. q \in Requests /\ d \in Documents /\ page = Page(d, q) /\ Accepted(d, q)
    BY WalkFacts
  <2>2. /\ page.verified => page.complete
        /\ \A t \in Tasks : page.next[t] # None =>
             /\ page.next[t] = Token(d, t, Start(q) + Len(Returned(d, q)[t]))
             /\ Start(q) + Len(Returned(d, q)[t]) < Len(Rows(d, t))
    <3> HIDE DEF d, q, page
    <3>1. QED
      BY <2>1, PageFacts
  <2>3. ASSUME NEW t \in Tasks, page.next[t] # None
        PROVE  page.next[t].offset < Len(Rows(d, t))
    <3> DEFINE end == Start(q) + Len(Returned(d, q)[t])
    <3>1. page.next[t] = Token(d, t, end) /\ end < Len(Rows(d, t))
      BY <2>2, <2>3
    <3> HIDE DEF end, d, q, page
    <3>2. page.next[t].offset = end
      BY <3>1 DEF Token
    <3>3. QED
      BY <3>1, <3>2
  <2>4. WalkType(w) /\ HoldsItsPage(w)
    BY WalkFacts
  <2>5. QED
    BY <2>2, <2>3, <2>4 DEF WalkType, HoldsItsPage
<1>2. QED
  BY <1>1 DEF TypeOK, IInv

\* A page that leads no further was the last: the token or the next request
\* would not be None while anything is left.
LEMMA EndFromIInv ==
  IInv => TheEndIsTheEnd
<1> SUFFICES ASSUME IInv, NEW w \in Walks, NextRequest(w) = None,
                    w.follow \notin ListNames =>
                      IF w.q.view = "coverage" THEN w.q.cursor # None /\ w.task = Addressed(w.q)
                      ELSE w.task \in Range(w.page.lists["tasks"])
             PROVE  w.from + Len(w.got) >= Len(Whole(w, w.page.doc))
  BY DEF TheEndIsTheEnd
<1> DEFINE d == w.page.doc
           q == w.q
<1>1. /\ q \in Requests /\ d \in Documents /\ w.page = Page(d, q) /\ Accepted(d, q)
      /\ WalkType(w) /\ HoldsItsPage(w)
  BY WalkFacts
<1>2. /\ w.from + Len(w.got) = NextOffset(w) /\ NextOffset(w) \in Nat /\ Purpose(w)
      /\ Whole(w, d) \in Seq(Item) /\ Len(Whole(w, d)) \in Nat
      /\ w.follow \notin ListNames => w.task \in Tasks
  <2>1. Purpose(w) /\ w.from + Len(w.got) = NextOffset(w) /\ w.from \in Nat /\ w.got \in Seq(Item)
    BY <1>1 DEF WalkType, HoldsItsPage, Purpose
  <2>2. Whole(w, d) \in Seq(Item)
    BY <1>1, <2>1, ItemsFacts
  <2>3. Len(w.got) \in Nat /\ Len(Whole(w, d)) \in Nat
    BY <2>1, <2>2, LenProperties
  <2>4. QED
    BY <2>1, <2>2, <2>3 DEF Purpose
<1>3. CASE w.follow \in ListNames
  <2> DEFINE o == NextOffset(w)
             l == w.follow
  <2>1. NextRequest(w) = IF o < Len(Whole(w, d)) THEN [q EXCEPT !.offsets[l] = o] ELSE None
    <3>1. l # "opaque" /\ l # "readable"
      BY <1>3 DEF ListNames
    <3>2. QED
      BY <1>3, <3>1 DEF NextRequest
  <2>2. [q EXCEPT !.offsets[l] = o] # None
    <3> HIDE DEF o, l, q
    <3>1. o \in Nat /\ l \in ListNames
      BY <1>2, <1>3 DEF o, l
    <3>2. [q EXCEPT !.offsets[l] = o] \in Requests
      BY <1>1, <3>1 DEF Requests
    <3>3. QED
      BY <3>2, NotNone
  <2> HIDE DEF q
  <2>3. ~(o < Len(Whole(w, d)))
    BY <2>1, <2>2
  <2>4. QED
    BY <1>2, <2>3
<1>4. CASE w.follow \in {"opaque", "readable"}
  <2> DEFINE t == w.task
             end == Start(q) + Len(Returned(d, q)[t])
  <2>0. t \in Tasks /\ w.follow \notin ListNames
    BY <1>2, <1>4 DEF ListNames
  <2>1. \/ w.page.next[t] = None
        \/ NextRequest(w) = [q EXCEPT !.task = t, !.cursor = Position(t, NextOffset(w))]
        \/ w.page.next[t] # None /\ NextRequest(w) = [q EXCEPT !.task = t, !.cursor = w.page.next[t]]
    BY <1>4, <2>0 DEF NextRequest, ListNames
  <2>2. w.page.next[t] # None => w.page.next[t] \in Cursors
    <3>1. w.page.next[t] # None => w.page.next[t] = Token(d, t, end)
      <4> HIDE DEF d, q
      <4>1. QED
        BY <1>1, <2>0, PageFacts DEF end
    <3>2. end \in Nat
      <4> HIDE DEF d, q
      <4>1. Start(q) \in Nat /\ Len(Returned(d, q)[t]) \in Nat
        BY <1>1, <2>0, RequestFacts, ReturnedFacts
      <4>2. QED
        BY <4>1 DEF end
    <3>3. QED
      BY <1>1, <2>0, <3>1, <3>2, TokenFacts
  <2>3. w.page.next[t] = None
    <3> DEFINE c == w.page.next[t]
               p == Position(t, NextOffset(w))
    <3> SUFFICES ASSUME c # None PROVE FALSE
      OBVIOUS
    <3>1. c \in Cursors /\ p \in Cursors
      BY <1>1, <1>2, <2>0, <2>2, TokenFacts
    <3>2. NextRequest(w) = [q EXCEPT !.task = t, !.cursor = p] \/ NextRequest(w) = [q EXCEPT !.task = t, !.cursor = c]
      BY <2>1
    <3> HIDE DEF c, p, q
    <3>3. NextRequest(w) \in Requests
      BY <1>1, <2>0, <3>1, <3>2 DEF Requests
    <3>4. QED
      BY <3>3, NotNone
  <2>4. w.page.next[t] = NextToken(d, q, t) /\ w.page.rows[t] = Returned(d, q)[t]
    <3>1. CASE q.view = "coverage"
      <4>1. q.cursor # None /\ t = Addressed(q)
        BY <2>0, <3>1
      <4>2. w.page = CoveragePage(d, q)
        BY <1>1, <3>1 DEF Page
      <4> HIDE DEF d, q, t
      <4>3. QED
        BY <2>0, <4>1, <4>2 DEF CoveragePage, t
    <3>2. CASE q.view = "handoff"
      <4>1. t \in Range(w.page.lists["tasks"])
        BY <2>0, <3>2
      <4>2. w.page = HandoffPage(d, q)
        BY <1>1, <3>2 DEF Page
      <4> HIDE DEF d, q, t
      <4>3. w.page.lists["tasks"] = ListWindow(d, q, "tasks")
        BY <4>2 DEF HandoffPage, ListNames
      <4>4. QED
        BY <2>0, <4>1, <4>2, <4>3 DEF HandoffPage, t
    <3>3. QED
      BY <1>1, <3>1, <3>2 DEF Requests
  <2>5. NextOffset(w) = end
    BY <2>0, <2>4 DEF NextOffset, Begin, Items
  <2>6. NextToken(d, q, t) = IF end < Len(Rows(d, t)) THEN Token(d, t, end) ELSE None
    BY DEF NextToken
  <2>7. Whole(w, d) = Rows(d, t)
    BY <2>0 DEF Whole
  <2>8. Token(d, t, end) # None
    BY <1>1, <1>2, <2>0, <2>5, TokenFacts
  <2> HIDE DEF end, d, q, t
  <2>9. ~(end < Len(Rows(d, t)))
    BY <2>3, <2>4, <2>6, <2>8
  <2>10. QED
    BY <1>2, <2>5, <2>7, <2>9 DEF d
<1>5. QED
  BY <1>2, <1>3, <1>4 DEF Follows, Purpose

\* Walks are well typed, tokens point at rows of the page's document, and
\* nothing is verified that is not complete (v4.coverage, v4.handoff).
THEOREM TypeCorrect == Spec => []TypeOK
  BY Inductive, TypeFromIInv, PTL

\* check_cursor keeps a reader with opaque cursors in one document, whatever is
\* committed between its pages.
THEOREM OneDocumentPerToken == Spec => []TokensStayInOneDocument
<1>1. IInv => TokensStayInOneDocument
  BY DEF IInv, InOneDocument, TokensStayInOneDocument
<1>2. QED
  BY <1>1, Inductive, PTL

\* Pages of one document join up without gap or repetition, whatever limits a
\* reader asks for (page, next_cursor, next_offset).
THEOREM JoinUp == Spec => []PagesJoinUp
<1>1. IInv => PagesJoinUp
  BY DEF IInv, InOneDocument, PagesJoinUp
<1>2. QED
  BY <1>1, Inductive, PTL

\* A reader that is led no further has everything from where it began.
THEOREM NothingIsMissed == Spec => []TheEndIsTheEnd
  BY Inductive, EndFromIInv, PTL

\* "verified" is never said of a scope with an uncovered condition, for every
\* document, page size and position.
THEOREM Verified == Spec => []VerifiedMeansCovered
<1>1. IInv => VerifiedMeansCovered
  <2> SUFFICES ASSUME IInv, NEW w \in Walks, w.page.verified
               PROVE  Covered(AllRows(w.page.doc, Addressed(w.q)))
    BY DEF VerifiedMeansCovered
  <2> DEFINE d == w.page.doc
  <2>1. w.q \in Requests /\ d \in Documents /\ w.page = Page(d, w.q)
    BY WalkFacts
  <2>2. Page(d, w.q).verified
    BY <2>1
  <2>3. QED
    BY <2>1, <2>2, PageVerified
<1>2. QED
  BY <1>1, Inductive, PTL

\* "complete" coverage, and a complete handoff from the start, leave nothing
\* out, nested evidence included.
THEOREM Complete == Spec => []CompleteMeansAll
<1>1. IInv => CompleteMeansAll
  <2> SUFFICES ASSUME IInv, NEW w \in Walks, w.page.complete,
                      w.q.view = "handoff" => FromTheStart(w.q)
               PROVE  EverythingShown(w)
    BY DEF CompleteMeansAll
  <2> DEFINE d == w.page.doc
             q == w.q
             page == w.page
  <2>1. q \in Requests /\ d \in Documents /\ page = Page(d, q) /\ page.complete
        /\ (q.view = "handoff" => FromTheStart(q))
    BY WalkFacts
  <2> HIDE DEF d, q, page
  <2>2. /\ \A t \in Range(Selected(d, Addressed(q))) :
             /\ page.rows[t] = Rows(d, t)
             /\ \A i \in DOMAIN page.rows[t] : page.rows[t][i].nested <= q.limit
        /\ \A l \in DOMAIN page.lists : page.lists[l] = List(d, Addressed(q), l)
    BY <2>1, PageComplete
  <2>3. QED
    BY <2>2 DEF EverythingShown, d, q, page
<1>2. QED
  BY <1>1, Inductive, PTL
=============================================================================
