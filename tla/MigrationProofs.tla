--------------------------- MODULE MigrationProofs ---------------------------
(***************************************************************************)
(* What Migration guarantees for any number of callers, writers, edits and *)
(* Git identities, and for every chain of schemas they go through.         *)
(***************************************************************************)
EXTENDS MigrationInductive, TLAPS

-----------------------------------------------------------------------------
(* What the operators of the model return. *)

LEMMA CallsType ==
  ASSUME NEW p \in Procs, NEW d \in Documents, NEW c \in Calls(p, d)
  PROVE  c \in CallType
<1>1. Commands[p] \subseteq AllCommands
  BY CommandsAssumption
<1>2. Digest(d) \in Digests /\ d.rev \in Nat
  BY DEF Digest, Digests, Documents
<1>3. PICK command \in Commands[p], to \in Steps, w \in Writers, allow \in BOOLEAN, o \in OpIds :
        c = [command |-> command, to |-> to, chained |-> FALSE, writer |-> w, allow |-> allow, op |-> o,
             rev |-> d.rev, src |-> IF command \in {"migrate", "latest"} THEN Digest(d) ELSE None]
  BY DEF Calls
<1>4. QED
  BY <1>1, <1>2, <1>3 DEF CallType

LEMMA StepOfType ==
  ASSUME NEW c \in CallType, NEW d \in Documents, d.schema # Latest, NEW first \in BOOLEAN
  PROVE  StepOf(c, d, first) \in CallType
<1>1. Target[d.schema] \in Steps
  BY DEF Documents, Target, Steps, Latest
<1>2. Digest(d) \in Digests /\ d.rev \in Nat
  BY DEF Digest, Digests, Documents
<1>3. (IF first THEN c.rev ELSE d.rev) \in Nat
      /\ (IF first THEN c.src ELSE Digest(d)) \in Digests \cup {None}
  BY <1>2 DEF CallType
<1>4. QED
  BY <1>1, <1>3 DEF StepOf, CallType, AllCommands

LEMMA TextType ==
  ASSUME NEW d \in Documents
  PROVE  Text(d) \in SUBSET Nat
BY DEF Text, Bound, Documents

LEMMA CandidateType ==
  ASSUME NEW c \in CallType, NEW d \in Documents, NEW t \in Trees
  PROVE  Candidate(c, d, t) \in Documents
<1>1. (IF c.command = "migrate" THEN c.to ELSE d.schema) \in 1 .. Latest
  BY DEF CallType, Documents, Steps, Latest
<1>2. Receipt(c, d) \in [id : OpIds \X (0 .. Latest), call : CallType, rev : Nat]
  BY DEF Receipt, StepId, CallType, Documents, Steps, Latest
<1>3. d.ops \cup {Receipt(c, d)}
        \in SUBSET [id : OpIds \X (0 .. Latest), call : CallType, rev : Nat]
  BY <1>2 DEF Documents
<1>4. d.rev + 1 \in Nat /\ d.custom \in SUBSET Nat /\ Text(d) \in SUBSET Nat
  BY TextType DEF Documents
<1>5. c.writer \in Writers
  BY DEF CallType
<1>6. QED
  BY <1>1, <1>3, <1>4, <1>5 DEF Candidate, Documents

LEMMA IdleType == Idle \in Transactions
BY DEF Idle, Transactions

LEMMA UpdatedType ==
  ASSUME NEW t \in Transactions, NEW c \in CallType \cup {None}, NEW d \in Documents
  PROVE  /\ [t EXCEPT !.step = c] \in Transactions
         /\ [t EXCEPT !.old = d] \in Transactions
         /\ [t EXCEPT !.new = d] \in Transactions
         /\ [t EXCEPT !.step = c, !.first = TRUE, !.answer = None, !.calm = FALSE]
              \in Transactions
BY DEF Transactions

Answers == {None, "done", "replayed", "refused"}

LEMMA EndedType ==
  ASSUME NEW t \in Transactions, NEW a \in Answers
  PROVE  Ended(t, a) \in Transactions
BY DEF Ended, Idle, Transactions, Answers

LEMMA UnsettledType ==
  ASSUME txn \in [Procs -> Transactions], NEW who
  PROVE  /\ Unsettled(who) \in [Procs -> Transactions]
         /\ \A p \in Procs :
              /\ Unsettled(who)[p].call = txn[p].call /\ Unsettled(who)[p].step = txn[p].step
              /\ Unsettled(who)[p].first = txn[p].first
              /\ Unsettled(who)[p].old = txn[p].old /\ Unsettled(who)[p].new = txn[p].new
BY DEF Unsettled, Transactions

-----------------------------------------------------------------------------
(* Type correctness. *)

\* A step of one process that keeps the document, the lock and the lease.
LEMMA LocalType ==
  ASSUME TypeOK, NEW p \in Procs, NEW t \in Transactions,
         NEW l \in {"idle", "read", "lock"} \cup Holding,
         l \in Holding <=> pc[p] \in Holding,
         txn' = [txn EXCEPT ![p] = t], Goto(p, l),
         UNCHANGED <<current, live, tree, lock, edits>>, history' \subseteq Documents
  PROVE  TypeOK'
BY DEF TypeOK, Goto

\* A step that releases the lock.
LEMMA ReleaseType ==
  ASSUME TypeOK, NEW p \in Procs, NEW t \in Transactions, NEW l \in {"idle", "read"},
         pc[p] \in Holding,
         txn' = [txn EXCEPT ![p] = t], Goto(p, l), lock' = None,
         UNCHANGED <<current, live, history, tree, edits>>
  PROVE  TypeOK'
BY NoneAssumption DEF TypeOK, Goto, Holding

\* A step of the editor.
LEMMA EditType ==
  ASSUME TypeOK, NEW place, Edit(place), current' \in Documents,
         current'.writer = current.writer
  PROVE  TypeOK'
<1>1. txn' \in [Procs -> Transactions]
  BY UnsettledType DEF TypeOK, Edit
<1>2. edits' \in Seq([text : BOOLEAN, safe : BOOLEAN])
  <2>1. [text |-> place = "custom" /\ ~Bound(current), safe |-> \A p \in Procs : pc[p] # "replace"]
          \in [text : BOOLEAN, safe : BOOLEAN]
    OBVIOUS
  <2>2. QED
    BY <2>1 DEF TypeOK, Edit
<1>3. QED
  BY <1>1, <1>2 DEF TypeOK, Edit

LEMMA EditedType ==
  ASSUME current \in Documents, NEW n \in Nat
  PROVE  /\ [current EXCEPT !.custom = @ \cup {n}] \in Documents
         /\ [current EXCEPT !.view = @ \cup {n}] \in Documents
BY DEF Documents

LEMMA TypeInit ==
  ASSUME Init
  PROVE  TypeOK
<1>1. current \in Documents
  <2>1. PICK schema \in Schemas, git \in {Legacy, tree} :
          current = [schema |-> schema, rev |-> 0, writer |-> None, git |-> git,
                     ops |-> {}, custom |-> {}, bound |-> {}, view |-> {}]
    BY DEF Init
  <2>2. schema \in 1 .. Latest /\ git \in Trees \cup {Legacy}
    BY SchemasAssumption DEF Init, Latest
  <2>3. QED
    BY <2>1, <2>2 DEF Documents
<1>2. \A p \in Procs : pc[p] \notin Holding /\ lock # p
  BY NoneAssumption DEF Init, Holding
<1>3. txn \in [Procs -> Transactions]
  BY IdleType DEF Init
<1>4. edits \in Seq([text : BOOLEAN, safe : BOOLEAN])
  BY DEF Init
<1>5. QED
  BY <1>1, <1>2, <1>3, <1>4 DEF Init, TypeOK

LEMMA TypeStep ==
  ASSUME TypeOK, CommitsUnderWay, [Next]_vars
  PROVE  TypeOK'
<1> USE DEF Answers
<1>1. ASSUME NEW p \in Procs, Call(p)
      PROVE  TypeOK'
  <2>1. PICK c \in Calls(p, current) :
          /\ txn' = [txn EXCEPT ![p] = [Idle EXCEPT !.call = c, !.step = c,
                                          !.calm = c.command = "latest" /\ Fresh(c)]]
          /\ Goto(p, First(c))
    BY <1>1 DEF Call
  <2>2. c \in CallType
    BY CallsType DEF TypeOK
  <2>3. [Idle EXCEPT !.call = c, !.step = c, !.calm = c.command = "latest" /\ Fresh(c)]
          \in Transactions
    BY <2>2 DEF Idle, Transactions
  <2>4. First(c) \in {"read", "lock"}
    BY DEF First
  <2>5. QED
    BY <1>1, <2>1, <2>3, <2>4, LocalType DEF Call, Holding, TypeOK
<1>2. ASSUME NEW p \in Procs, Retry(p)
      PROVE  TypeOK'
  <2> DEFINE t == [txn[p] EXCEPT !.step = txn[p].call, !.first = TRUE,
                                 !.answer = None, !.calm = FALSE]
  <2>1. t \in Transactions
    <3>1. txn[p] \in Transactions
      BY DEF TypeOK
    <3>2. txn[p].call \in CallType \cup {None}
      BY <3>1 DEF Transactions
    <3>3. QED
      BY <3>1, <3>2, UpdatedType DEF TypeOK
  <2>2. First(txn[p].call) \in {"read", "lock"}
    BY DEF First
  <2>3. txn' = [txn EXCEPT ![p] = t]
    BY <1>2 DEF Retry, TypeOK
  <2> HIDE DEF t
  <2>4. QED
    BY <1>2, <2>1, <2>2, <2>3, LocalType DEF Retry, Holding, TypeOK
<1>3. ASSUME NEW p \in Procs, Lock(p)
      PROVE  TypeOK'
  <2>1. [txn[p] EXCEPT !.old = current] \in Transactions
    BY DEF TypeOK, Transactions
  <2>2. QED
    BY <1>3, <2>1, NoneAssumption DEF Lock, Goto, TypeOK, Holding
<1>4. ASSUME NEW p \in Procs, ReadStep(p)
      PROVE  TypeOK'
  <2>1. CASE current.schema = Latest
    <3>1. Ended(txn[p], "done") \in Transactions
      BY EndedType DEF TypeOK
    <3>2. QED
      BY <1>4, <2>1, <3>1, LocalType DEF ReadStep, Answer, Holding, TypeOK
  <2>2. CASE current.schema # Latest
    <3> DEFINE t == [txn[p] EXCEPT !.step = StepOf(txn[p].call, current, txn[p].first)]
    <3>1. txn[p].call \in CallType /\ txn[p].first \in BOOLEAN
      BY <1>4 DEF CommitsUnderWay, CommitUnderWay, ReadStep, TypeOK, Transactions
    <3>2. StepOf(txn[p].call, current, txn[p].first) \in CallType
      BY <2>2, <3>1, StepOfType DEF TypeOK
    <3>3. t \in Transactions
      BY <3>2, UpdatedType DEF TypeOK
    <3>4. txn' = [txn EXCEPT ![p] = t] /\ Goto(p, "lock")
      BY <1>4, <2>2 DEF ReadStep, TypeOK
    <3> HIDE DEF t
    <3>5. QED
      BY <1>4, <3>3, <3>4, LocalType DEF ReadStep, Holding, TypeOK
  <2>3. QED
    BY <2>1, <2>2
<1>5. ASSUME NEW p \in Procs, Admit(p)
      PROVE  TypeOK'
  <2> DEFINE t == [txn[p] EXCEPT !.new = Candidate(txn[p].step, txn[p].old, tree)]
  <2>1. Candidate(txn[p].step, txn[p].old, tree) \in Documents
    BY <1>5, CandidateType DEF Admit, CommitsUnderWay, CommitUnderWay, TypeOK, Holding
  <2>2. t \in Transactions
    BY <2>1, UpdatedType DEF TypeOK
  <2>3. txn' = [txn EXCEPT ![p] = t] /\ Goto(p, "snapshot")
    BY <1>5 DEF Admit, TypeOK
  <2> HIDE DEF t
  <2>4. QED
    BY <1>5, <2>2, <2>3, LocalType DEF Admit, Holding, TypeOK
<1>6. ASSUME NEW p \in Procs, Replay(p) \/ Refuse(p) \/ Changed(p)
      PROVE  TypeOK'
  <2>1. PICK a \in Answers : Answer(p, a)
    BY <1>6 DEF Replay, Refuse, Changed
  <2>2. Ended(txn[p], a) \in Transactions
    BY EndedType DEF TypeOK
  <2>3. txn' = [txn EXCEPT ![p] = Ended(txn[p], a)] /\ Goto(p, "idle")
    BY <2>1 DEF Answer, TypeOK
  <2>4. QED
    BY <1>6, <2>2, <2>3, ReleaseType DEF Replay, Refuse, Changed, Holding
<1>7. ASSUME NEW p \in Procs, Snapshot(p)
      PROVE  TypeOK'
  <2>1. history' \subseteq Documents
    BY <1>7 DEF Snapshot, TypeOK
  <2>2. QED
    BY <1>7, <2>1 DEF Snapshot, Goto, Holding, TypeOK
<1>8. ASSUME NEW p \in Procs, Compare(p)
      PROVE  TypeOK'
  BY <1>8 DEF Compare, Goto, Holding, TypeOK
<1>9. ASSUME NEW p \in Procs, Replace(p)
      PROVE  TypeOK'
  <2>1. PICK git \in Trees : txn[p].new = Candidate(txn[p].step, txn[p].old, git)
    BY <1>9 DEF Replace, CommitsUnderWay, CommitUnderWay
  <2>2. txn[p].step \in CallType /\ txn[p].old \in Documents
    BY <1>9 DEF Replace, CommitsUnderWay, CommitUnderWay, Holding
  <2>3. current' \in Documents
    BY <1>9, <2>1, <2>2, CandidateType DEF Replace
  <2>4. live' \in BOOLEAN /\ (live' => current'.writer # None)
    <3>1. current' = Candidate(txn[p].step, txn[p].old, git)
      BY <1>9, <2>1 DEF Replace
    <3>2. txn[p].step.command = "resume" => current'.writer = txn[p].step.writer
      BY <3>1 DEF Candidate
    <3>3. txn[p].step.writer \in Writers
      BY <2>2 DEF CallType
    <3>4. live' = (txn[p].step.command = "resume")
      BY <1>9 DEF Replace
    <3>5. QED
      BY <3>2, <3>3, <3>4, NoneAssumption
  <2>5. txn' \in [Procs -> Transactions]
    <3>1. Unsettled(Procs \ {p}) \in [Procs -> Transactions]
      BY UnsettledType DEF TypeOK
    <3> DEFINE u == Unsettled(Procs \ {p})[p]
    <3>2. u \in Transactions
      BY <3>1
    <3>3. [u EXCEPT !.first = FALSE, !.step = None, !.old = None, !.new = None]
            \in Transactions
      BY <3>2 DEF Transactions
    <3>4. Ended(u, "done") \in Transactions
      BY <3>2, EndedType
    <3>5. QED
      BY <1>9, <3>1, <3>3, <3>4 DEF Replace
  <2>6. PICK l \in {"read", "idle"} : Goto(p, l)
    BY <1>9 DEF Replace
  <2>7. pc \in [Procs -> {"idle", "read", "lock"} \cup Holding]
        /\ \A q \in Procs : pc[q] \in Holding <=> lock = q
    BY DEF TypeOK
  <2>8. /\ pc' \in [Procs -> {"idle", "read", "lock"} \cup Holding]
        /\ \A q \in Procs : pc'[q] \in Holding <=> lock' = q
    BY <1>9, <2>6, <2>7, NoneAssumption DEF Replace, Goto, Holding
  <2>9. QED
    BY <1>9, <2>3, <2>4, <2>5, <2>8 DEF Replace, TypeOK
<1>10. ASSUME NEW p \in Procs, Abandon(p)
       PROVE  TypeOK'
  <2>1. Ended(txn[p], None) \in Transactions
    BY EndedType DEF TypeOK
  <2>2. txn' = [txn EXCEPT ![p] = Ended(txn[p], None)]
    BY <1>10 DEF Abandon, Answer, TypeOK
  <2>3. QED
    BY <1>10, <2>1, <2>2, NoneAssumption DEF Abandon, Answer, Goto, Holding, TypeOK
<1>11. CASE EditText
  <2>1. Len(edits) + 1 \in Nat
    BY DEF TypeOK
  <2>2. current' \in Documents /\ current'.writer = current.writer
    BY <1>11, <2>1, EditedType DEF EditText, TypeOK, Documents
  <2>3. QED
    BY <1>11, <2>2, EditType DEF EditText
<1>12. CASE EditView
  <2>1. Len(edits) + 1 \in Nat
    BY DEF TypeOK
  <2>2. current' \in Documents /\ current'.writer = current.writer
    BY <1>12, <2>1, EditedType DEF EditView, TypeOK, Documents
  <2>3. QED
    BY <1>12, <2>2, EditType DEF EditView
<1>13. CASE Checkout
  <2>1. txn' \in [Procs -> Transactions]
    BY <1>13, UnsettledType DEF Checkout, TypeOK
  <2>2. QED
    BY <1>13, <2>1 DEF Checkout, TypeOK
<1>14. CASE Lapse
  BY <1>14 DEF Lapse, TypeOK
<1>15. CASE UNCHANGED vars
  BY <1>15 DEF vars, TypeOK
<1>16. QED
  BY <1>1, <1>2, <1>3, <1>4, <1>5, <1>6, <1>7, <1>8, <1>9, <1>10, <1>11, <1>12, <1>13,
     <1>14, <1>15 DEF Next, Step

-----------------------------------------------------------------------------
(* The commits under way. *)

\* A step of somebody else that is no edit and commits nothing.
LEMMA OthersKeep ==
  ASSUME NEW q \in Procs, CommitUnderWay(q), pc'[q] = pc[q],
         txn'[q].call = txn[q].call, txn'[q].step = txn[q].step,
         txn'[q].old = txn[q].old, txn'[q].new = txn[q].new,
         current' = current, edits' = edits, history \subseteq history'
  PROVE  CommitUnderWay(q)'
BY DEF CommitUnderWay

\* A step of a process itself, that commits nothing.
LEMMA OwnStep ==
  ASSUME TypeOK, CommitsUnderWay, NEW p \in Procs,
         \A q \in Procs \ {p} : pc'[q] = pc[q] /\ txn'[q] = txn[q],
         current' = current, edits' = edits, history \subseteq history',
         CommitUnderWay(p)'
  PROVE  CommitsUnderWay'
<1>1. ASSUME NEW q \in Procs \ {p}
      PROVE  CommitUnderWay(q)'
  BY <1>1, OthersKeep DEF CommitsUnderWay
<1>2. QED
  BY <1>1 DEF CommitsUnderWay

\* A call that has ended, or that has only been made.
LEMMA OutsideOk ==
  ASSUME NEW q \in Procs, pc'[q] \notin Holding,
         pc'[q] # "idle" => txn'[q].call \in CallType,
         pc'[q] = "lock" => txn'[q].step \in CallType
  PROVE  CommitUnderWay(q)'
BY DEF CommitUnderWay, Holding

\* What an edit does to the list of edits.
LEMMA EditsGrow ==
  ASSUME TypeOK, NEW place, Edit(place)
  PROVE  /\ DOMAIN edits' = DOMAIN edits \cup {Len(edits) + 1}
         /\ \A n \in DOMAIN edits : edits'[n] = edits[n] /\ n # Len(edits) + 1
         /\ edits'[Len(edits) + 1].safe => \A p \in Procs : pc[p] # "replace"
         /\ edits'[Len(edits) + 1].text => place = "custom" /\ ~Bound(current)
<1> DEFINE e == [text |-> place = "custom" /\ ~Bound(current),
                 safe |-> \A p \in Procs : pc[p] # "replace"]
<1>1. edits \in Seq([text : BOOLEAN, safe : BOOLEAN]) /\ edits' = Append(edits, e)
  BY DEF TypeOK, Edit
<1>2. e.safe = (\A p \in Procs : pc[p] # "replace")
      /\ e.text = (place = "custom" /\ ~Bound(current))
  OBVIOUS
<1> HIDE DEF e
<1>3. DOMAIN edits' = DOMAIN edits \cup {Len(edits) + 1}
      /\ \A n \in DOMAIN edits : edits'[n] = edits[n] /\ n # Len(edits) + 1
  BY <1>1
<1>4. edits'[Len(edits) + 1] = e
  BY <1>1
<1>5. QED
  BY <1>2, <1>3, <1>4

LEMMA EditCommits ==
  ASSUME TypeOK, CommitsUnderWay, NEW place, Edit(place), SameCommit(current, current')
  PROVE  CommitsUnderWay'
<1>1. ASSUME NEW q \in Procs
      PROVE  CommitUnderWay(q)'
  <2>1. /\ pc'[q] = pc[q] /\ history' = history
        /\ txn'[q].call = txn[q].call /\ txn'[q].step = txn[q].step
        /\ txn'[q].old = txn[q].old /\ txn'[q].new = txn[q].new
    BY UnsettledType DEF TypeOK, Edit
  <2>2. CommitUnderWay(q)
    BY DEF CommitsUnderWay
  <2>3. pc[q] \in Holding => SameCommit(txn[q].old, current')
    BY <2>2 DEF CommitUnderWay, SameCommit
  <2>4. pc[q] = "replace" =>
          \A n \in DOMAIN edits' : edits'[n].safe =>
            /\ \E d \in history : n \in Contents(d)
            /\ edits'[n].text => n \in Text(txn[q].old)
    <3> SUFFICES ASSUME pc[q] = "replace", NEW n \in DOMAIN edits', edits'[n].safe
                 PROVE  /\ \E d \in history : n \in Contents(d)
                        /\ edits'[n].text => n \in Text(txn[q].old)
      OBVIOUS
    <3>1. n \in DOMAIN edits /\ edits'[n] = edits[n]
      BY EditsGrow
    <3>2. QED
      BY <2>2, <3>1 DEF CommitUnderWay
  <2>5. QED
    BY <2>1, <2>2, <2>3, <2>4 DEF CommitUnderWay
<1>2. QED
  BY <1>1 DEF CommitsUnderWay

LEMMA CommitsInit ==
  ASSUME Init
  PROVE  CommitsUnderWay
BY DEF Init, CommitsUnderWay, CommitUnderWay, Holding

LEMMA CommitsStep ==
  ASSUME IInv, [Next]_vars
  PROVE  CommitsUnderWay'
<1> USE DEF IInv
<1>1. ASSUME NEW p \in Procs, Call(p)
      PROVE  CommitsUnderWay'
  <2>1. PICK c \in Calls(p, current) :
          /\ txn' = [txn EXCEPT ![p] = [Idle EXCEPT !.call = c, !.step = c,
                                          !.calm = c.command = "latest" /\ Fresh(c)]]
          /\ Goto(p, First(c))
    BY <1>1 DEF Call
  <2>2. c \in CallType
    BY CallsType DEF TypeOK
  <2>3. txn'[p].call = c /\ txn'[p].step = c /\ pc'[p] \in {"read", "lock"}
        /\ \A q \in Procs \ {p} : pc'[q] = pc[q] /\ txn'[q] = txn[q]
    BY <2>1 DEF TypeOK, Goto, First, Idle
  <2>4. CommitUnderWay(p)'
    BY <2>2, <2>3, OutsideOk DEF Holding
  <2>5. QED
    BY <1>1, <2>3, <2>4, OwnStep DEF Call
<1>2. ASSUME NEW p \in Procs, Retry(p)
      PROVE  CommitsUnderWay'
  <2>1. txn[p].call \in CallType
    BY <1>2 DEF Retry, TypeOK, Transactions
  <2>2. txn'[p].call = txn[p].call /\ txn'[p].step = txn[p].call
        /\ pc'[p] \in {"read", "lock"}
        /\ \A q \in Procs \ {p} : pc'[q] = pc[q] /\ txn'[q] = txn[q]
    BY <1>2 DEF Retry, TypeOK, Transactions, Goto, First
  <2>3. CommitUnderWay(p)'
    BY <2>1, <2>2, OutsideOk DEF Holding
  <2>4. QED
    BY <1>2, <2>2, <2>3, OwnStep DEF Retry
<1>3. ASSUME NEW p \in Procs, Lock(p)
      PROVE  CommitsUnderWay'
  <2>1. txn'[p].call = txn[p].call /\ txn'[p].step = txn[p].step /\ txn'[p].old = current
        /\ pc'[p] = "check"
        /\ \A q \in Procs \ {p} : pc'[q] = pc[q] /\ txn'[q] = txn[q]
    BY <1>3 DEF Lock, TypeOK, Transactions, Goto
  <2>2. current \in Documents /\ SameCommit(current, current)
    BY DEF TypeOK, SameCommit
  <2>3. txn[p].call \in CallType /\ txn[p].step \in CallType
    BY <1>3 DEF Lock, CommitsUnderWay, CommitUnderWay
  <2>4. CommitUnderWay(p)'
    BY <1>3, <2>1, <2>2, <2>3 DEF CommitUnderWay, Lock, Holding
  <2>5. QED
    BY <1>3, <2>1, <2>4, OwnStep DEF Lock
<1>4. ASSUME NEW p \in Procs, ReadStep(p)
      PROVE  CommitsUnderWay'
  <2>1. txn[p].call \in CallType /\ txn[p].first \in BOOLEAN
    BY <1>4 DEF CommitsUnderWay, CommitUnderWay, ReadStep, TypeOK, Transactions
  <2>2. \A q \in Procs \ {p} : pc'[q] = pc[q] /\ txn'[q] = txn[q]
    BY <1>4 DEF ReadStep, Answer, Goto, TypeOK
  <2>3. CommitUnderWay(p)'
    <3>1. CASE current.schema = Latest
      <4>1. pc'[p] = "idle"
        BY <1>4, <3>1 DEF ReadStep, Answer, Goto, TypeOK
      <4>2. QED
        BY <4>1, OutsideOk DEF Holding
    <3>2. CASE current.schema # Latest
      <4>1. pc'[p] = "lock"
            /\ txn'[p].step = StepOf(txn[p].call, current, txn[p].first)
            /\ txn'[p].call = txn[p].call
        BY <1>4, <3>2 DEF ReadStep, Goto, TypeOK, Transactions
      <4>2. StepOf(txn[p].call, current, txn[p].first) \in CallType
        BY <2>1, <3>2, StepOfType DEF TypeOK
      <4>3. QED
        BY <2>1, <4>1, <4>2, OutsideOk DEF Holding
    <3>3. QED
      BY <3>1, <3>2
  <2>4. QED
    BY <1>4, <2>2, <2>3, OwnStep DEF ReadStep
<1>5. ASSUME NEW p \in Procs, Admit(p)
      PROVE  CommitsUnderWay'
  <2>1. /\ txn'[p].call = txn[p].call /\ txn'[p].step = txn[p].step
        /\ txn'[p].old = txn[p].old
        /\ txn'[p].new = Candidate(txn[p].step, txn[p].old, tree)
        /\ pc'[p] = "snapshot"
        /\ \A q \in Procs \ {p} : pc'[q] = pc[q] /\ txn'[q] = txn[q]
    BY <1>5 DEF Admit, TypeOK, Transactions, Goto
  <2>2. tree \in Trees /\ Checked(txn[p].step, txn[p].old, tree)
    BY <1>5 DEF Admit, Admissible, Checked, TypeOK
  <2>3. pc[p] = "check" /\ CommitUnderWay(p)
    BY <1>5 DEF Admit, CommitsUnderWay
  <2>4. CommitUnderWay(p)'
    BY <1>5, <2>1, <2>2, <2>3 DEF CommitUnderWay, Admit, Holding
  <2>5. QED
    BY <1>5, <2>1, <2>4, OwnStep DEF Admit
<1>6. ASSUME NEW p \in Procs, Replay(p) \/ Refuse(p) \/ Changed(p) \/ Abandon(p)
      PROVE  CommitsUnderWay'
  <2>1. pc'[p] = "idle" /\ \A q \in Procs \ {p} : pc'[q] = pc[q] /\ txn'[q] = txn[q]
    BY <1>6 DEF Replay, Refuse, Changed, Abandon, Answer, Goto, TypeOK
  <2>2. CommitUnderWay(p)'
    BY <2>1, OutsideOk DEF Holding
  <2>3. QED
    BY <1>6, <2>1, <2>2, OwnStep DEF Replay, Refuse, Changed, Abandon
<1>7. ASSUME NEW p \in Procs, Snapshot(p)
      PROVE  CommitsUnderWay'
  <2>1. /\ pc[p] = "snapshot" /\ pc'[p] = "compare" /\ history' = history \cup {txn[p].old}
        /\ \A q \in Procs \ {p} : pc'[q] = pc[q]
    BY <1>7 DEF Snapshot, TypeOK, Goto
  <2>2. CommitUnderWay(p)
    BY DEF CommitsUnderWay
  <2>3. CommitUnderWay(p)'
    BY <1>7, <2>1, <2>2 DEF CommitUnderWay, Snapshot, Holding
  <2>4. QED
    BY <1>7, <2>1, <2>3, OwnStep DEF Snapshot
<1>8. ASSUME NEW p \in Procs, Compare(p)
      PROVE  CommitsUnderWay'
  <2>1. /\ pc[p] = "compare" /\ pc'[p] = "replace" /\ \A q \in Procs \ {p} : pc'[q] = pc[q]
    BY <1>8 DEF Compare, TypeOK, Goto
  <2>2. CommitUnderWay(p)
    BY DEF CommitsUnderWay
  <2>3. current = txn[p].old /\ txn[p].old \in history
    BY <1>8, <2>1, <2>2 DEF Compare, CommitUnderWay
  <2>4. \A n \in DOMAIN edits : edits[n].safe =>
          /\ \E d \in history : n \in Contents(d)
          /\ edits[n].text => n \in Text(txn[p].old)
    BY <2>3 DEF EditsAreKept, TextSurvives
  <2>5. CommitUnderWay(p)'
    BY <1>8, <2>1, <2>2, <2>3, <2>4 DEF CommitUnderWay, Compare, Holding
  <2>6. QED
    BY <1>8, <2>1, <2>5, OwnStep DEF Compare
<1>9. ASSUME NEW p \in Procs, Replace(p)
      PROVE  CommitsUnderWay'
  <2>1. ASSUME NEW q \in Procs, q # p
        PROVE  CommitUnderWay(q)'
    <3>1. pc[q] \notin Holding /\ pc'[q] = pc[q]
      BY <1>9, <2>1 DEF Replace, Goto, TypeOK, Holding
    <3>2. txn'[q] = Unsettled(Procs \ {p})[q]
      BY <1>9, <2>1 DEF Replace, Unsettled
    <3>3. txn'[q].call = txn[q].call /\ txn'[q].step = txn[q].step
      BY <3>2, UnsettledType DEF TypeOK
    <3>4. CommitUnderWay(q)
      BY DEF CommitsUnderWay
    <3>5. QED
      BY <3>1, <3>3, <3>4, OutsideOk DEF CommitUnderWay
  <2>2. CommitUnderWay(p)'
    <3>1. txn[p].call \in CallType
      BY <1>9 DEF Replace, CommitsUnderWay, CommitUnderWay
    <3>2. pc'[p] \in {"read", "idle"}
      BY <1>9 DEF Replace, Goto, TypeOK
    <3>3. pc'[p] = "read" => txn'[p].call = txn[p].call
      <4> DEFINE u == Unsettled(Procs \ {p})
      <4>1. u \in [Procs -> Transactions] /\ u[p].call = txn[p].call
        BY UnsettledType DEF TypeOK
      <4> HIDE DEF u
      <4>2. SUFFICES ASSUME pc'[p] = "read"
                     PROVE  txn'[p].call = txn[p].call
        OBVIOUS
      <4>3. txn[p].call.command = "latest"
        BY <1>9, <4>2 DEF Replace, Goto, TypeOK
      <4>4. txn'[p] = [u[p] EXCEPT !.first = FALSE, !.step = None, !.old = None, !.new = None]
        BY <1>9, <4>1, <4>3 DEF Replace, u
      <4>5. QED
        BY <4>1, <4>4 DEF Transactions
    <3>4. QED
      BY <3>1, <3>2, <3>3, OutsideOk DEF Holding
  <2>3. QED
    BY <2>1, <2>2 DEF CommitsUnderWay
<1>10. CASE EditText
  BY <1>10, EditCommits DEF EditText, SameCommit, TypeOK, Documents
<1>11. CASE EditView
  BY <1>11, EditCommits DEF EditView, SameCommit, TypeOK, Documents
<1>12. CASE Checkout \/ Lapse \/ UNCHANGED vars
  <2>1. ASSUME NEW q \in Procs
        PROVE  CommitUnderWay(q)'
    BY <1>12, UnsettledType, OthersKeep DEF Checkout, Lapse, vars, TypeOK, CommitsUnderWay
  <2>2. QED
    BY <2>1 DEF CommitsUnderWay
<1>13. QED
  BY <1>1, <1>2, <1>3, <1>4, <1>5, <1>6, <1>7, <1>8, <1>9, <1>10, <1>11, <1>12 DEF Next, Step

-----------------------------------------------------------------------------
(* What a commit leaves behind. *)

\* Text that was custom text stays custom text through the candidate.
LEMMA CandidateText ==
  ASSUME NEW c \in CallType, NEW d \in Documents, NEW git, SourceFits(c, d)
  PROVE  Text(d) \subseteq Text(Candidate(c, d, git))
<1> DEFINE schema == IF c.command = "migrate" THEN c.to ELSE d.schema
<1>1. d.schema \in 1 .. Latest /\ c.to \in Steps
  BY DEF Documents, CallType
<1>2. d.schema >= 5 => schema >= 5
  <2>1. CASE c.command = "migrate"
    <3>1. d.schema \in From(c.to)
      BY <2>1 DEF SourceFits
    <3>2. QED
      BY <1>1, <2>1, <3>1 DEF From, Steps, Latest
  <2>2. CASE c.command # "migrate"
    BY <2>2
  <2>3. QED
    BY <2>1, <2>2
<1>3. CASE schema >= 5
  BY <1>3 DEF Text, Candidate, Bound
<1>4. CASE ~(schema >= 5)
  BY <1>2, <1>4 DEF Text, Candidate, Bound
<1>5. QED
  BY <1>3, <1>4

\* The facts about a replacement that the properties rest on.
LEMMA ReplaceFacts ==
  ASSUME IInv, NEW p \in Procs, Replace(p)
  PROVE  LET c == txn[p].step
             d == txn[p].old
         IN /\ c \in CallType /\ d \in Documents /\ d \in history /\ SameCommit(d, current)
            /\ SourceFits(c, d)
            /\ \A n \in DOMAIN edits : edits[n].safe =>
                 /\ \E h \in history : n \in Contents(h)
                 /\ edits[n].text => n \in Text(d)
            /\ history' = history /\ edits' = edits
<1>1. pc[p] = "replace" /\ CommitUnderWay(p)
  BY DEF IInv, CommitsUnderWay, Replace
<1>2. current' = txn[p].new /\ history' = history /\ edits' = edits
  BY DEF Replace
<1>3. QED
  BY <1>1, <1>2 DEF CommitUnderWay, Checked, Holding

LEMMA ReplacePicks ==
  ASSUME IInv, NEW p \in Procs, Replace(p)
  PROVE  \E git \in Trees :
           /\ current' = Candidate(txn[p].step, txn[p].old, git)
           /\ Drift(txn[p].step, txn[p].old, git) => txn[p].step.allow
<1>1. pc[p] = "replace" /\ CommitUnderWay(p) /\ current' = txn[p].new
  BY DEF IInv, CommitsUnderWay, Replace
<1>2. QED
  BY <1>1 DEF CommitUnderWay, Checked

\* What an edit does to the document.
LEMMA EditFacts ==
  ASSUME IInv, EditText \/ EditView
  PROVE  /\ history' = history /\ current'.ops = current.ops /\ current'.git = current.git
         /\ Contents(current) \subseteq Contents(current') /\ Text(current) \subseteq Text(current')
         /\ DOMAIN edits' = DOMAIN edits \cup {Len(edits) + 1}
         /\ \A n \in DOMAIN edits : edits'[n] = edits[n]
         /\ Len(edits) + 1 \in Contents(current')
         /\ edits'[Len(edits) + 1].text => Len(edits) + 1 \in Text(current')
<1>1. current \in Documents
  BY DEF IInv, TypeOK
<1>2. CASE EditText
  <2>1. Edit("custom") /\ current' = [current EXCEPT !.custom = @ \cup {Len(edits) + 1}]
    BY <1>2 DEF EditText
  <2>2. history' = history
    BY <2>1 DEF Edit
  <2>3. /\ current'.schema = current.schema /\ current'.ops = current.ops
        /\ current'.git = current.git /\ current'.bound = current.bound
        /\ current'.view = current.view
        /\ current'.custom = current.custom \cup {Len(edits) + 1}
    BY <1>1, <2>1 DEF Documents
  <2>4. QED
    BY <2>1, <2>2, <2>3, EditsGrow DEF IInv, Contents, Text, Bound
<1>3. CASE EditView
  <2>1. Edit("view") /\ current' = [current EXCEPT !.view = @ \cup {Len(edits) + 1}]
    BY <1>3 DEF EditView
  <2>2. history' = history
    BY <2>1 DEF Edit
  <2>3. /\ current'.schema = current.schema /\ current'.ops = current.ops
        /\ current'.git = current.git /\ current'.bound = current.bound
        /\ current'.custom = current.custom
        /\ current'.view = current.view \cup {Len(edits) + 1}
    BY <1>1, <2>1 DEF Documents
  <2>4. /\ DOMAIN edits' = DOMAIN edits \cup {Len(edits) + 1}
        /\ \A n \in DOMAIN edits : edits'[n] = edits[n]
        /\ edits'[Len(edits) + 1].text => "view" = "custom" /\ ~Bound(current)
    BY <2>1, EditsGrow DEF IInv
  <2>5. QED
    BY <2>2, <2>3, <2>4 DEF Contents, Text, Bound
<1>4. QED
  BY <1>2, <1>3

\* Every other step leaves the document and the edits as they are, and at most
\* adds to the history.
LEMMA QuietFacts ==
  ASSUME [Next]_vars, ~EditText, ~EditView, \A p \in Procs : ~Replace(p)
  PROVE  current' = current /\ edits' = edits /\ history \subseteq history'
BY DEF Next, Step, Call, Retry, Lock, ReadStep, Admit, Replay, Refuse, Snapshot, Compare,
       Changed, Abandon, Checkout, Lapse, Answer, vars

LEMMA KeptStep ==
  ASSUME IInv, [Next]_vars
  PROVE  EditsAreKept' /\ TextSurvives' /\ MigrationsAreApproved'
<1>1. CASE \E p \in Procs : Replace(p)
  <2>1. PICK p \in Procs : Replace(p)
    BY <1>1
  <2> DEFINE c == txn[p].step
             d == txn[p].old
  <2>2. /\ c \in CallType /\ d \in Documents /\ d \in history /\ SameCommit(d, current)
        /\ SourceFits(c, d)
        /\ \A n \in DOMAIN edits : edits[n].safe =>
             /\ \E h \in history : n \in Contents(h)
             /\ edits[n].text => n \in Text(d)
        /\ history' = history /\ edits' = edits
    BY <2>1, ReplaceFacts
  <2>3. PICK git \in Trees : current' = Candidate(c, d, git)
    BY <2>1, ReplacePicks
  <2> HIDE DEF c, d
  <2>4. EditsAreKept'
    BY <2>2 DEF EditsAreKept
  <2>5. TextSurvives'
    BY <2>2, <2>3, CandidateText DEF TextSurvives
  <2>6. MigrationsAreApproved'
    <3> SUFFICES ASSUME NEW o \in current'.ops, o.call.command = "migrate"
                 PROVE  \E h \in history : /\ Digest(h) = o.call.src /\ h.rev + 1 = o.rev
                                           /\ h.schema \in From(o.call.to)
      BY <2>2 DEF MigrationsAreApproved
    <3>1. current'.ops = current.ops \cup {Receipt(c, d)}
      BY <2>2, <2>3 DEF Candidate, SameCommit
    <3>2. CASE o \in current.ops
      BY <3>2 DEF IInv, MigrationsAreApproved
    <3>3. CASE o = Receipt(c, d)
      BY <2>2, <3>3 DEF Receipt, SourceFits
    <3>4. QED
      BY <3>1, <3>2, <3>3
  <2>7. QED
    BY <2>4, <2>5, <2>6
<1>2. CASE EditText \/ EditView
  <2>1. EditsAreKept' /\ TextSurvives'
    BY <1>2, EditFacts DEF IInv, EditsAreKept, TextSurvives
  <2>2. MigrationsAreApproved'
    BY <1>2, EditFacts DEF IInv, MigrationsAreApproved
  <2>3. QED
    BY <2>1, <2>2
<1>3. CASE ~(\E p \in Procs : Replace(p)) /\ ~EditText /\ ~EditView
  <2>1. current' = current /\ edits' = edits /\ history \subseteq history'
    BY <1>3, QuietFacts
  <2>2. QED
    BY <2>1 DEF IInv, EditsAreKept, TextSurvives, MigrationsAreApproved
<1>4. QED
  BY <1>1, <1>2, <1>3

-----------------------------------------------------------------------------
(* Upgrades that nothing stands in the way of. *)

\* A step of --to-latest leads on, to a schema it may start from.
LEMMA TargetFacts ==
  ASSUME NEW d \in Documents, d.schema # Latest
  PROVE  /\ Target[d.schema] \in Steps /\ Target[d.schema] > d.schema
         /\ d.schema \in From(Target[d.schema])
<1>1. d.schema \in {1, 2, 3, 4, 5}
  BY DEF Documents, Latest
<1>2. QED
  BY <1>1 DEF Target, Steps, Latest, From

\* No migration on record has the id of a step that is still to be made.
LEMMA StepIsNew ==
  ASSUME NEW d \in Documents, d.schema # Latest, \A o \in d.ops : o.id[2] <= d.schema,
         NEW c \in CallType, NEW first \in BOOLEAN
  PROVE  Known(StepOf(c, d, first), d) = {}
<1> DEFINE s == StepOf(c, d, first)
           target == Target[d.schema]
<1>1. s.command = "migrate" /\ s.chained /\ s.to = target /\ s.op = c.op
  BY DEF StepOf, CallType
<1>2. target \in Nat /\ target > d.schema /\ d.schema \in Nat
  BY TargetFacts DEF Steps, Latest, Documents
<1>3. StepId(s)[2] = target
  <2> HIDE DEF s, target
  <2>1. QED
    BY <1>1 DEF StepId
<1> HIDE DEF s, target
<1>4. ASSUME NEW o \in d.ops PROVE o.id # StepId(s)
  <2>1. o.id[2] <= d.schema
    OBVIOUS
  <2>2. o.id[2] # target
    <3>1. o.id[2] \in Nat
      BY DEF Documents, Latest
    <3>2. QED
      BY <1>2, <2>1, <3>1
  <2>3. QED
    BY <1>3, <2>2
<1>5. QED
  BY <1>4 DEF Known, s

\* A calm upgrade is not touched by what leaves the document, the lease and the
\* worktree alone.
LEMMA CalmKept ==
  ASSUME NEW q \in Procs, Calm(q), current' = current, tree' = tree, live' = live,
         pc'[q] = pc[q], txn'[q].calm => txn'[q] = txn[q]
  PROVE  Calm(q)'
<1>1. CASE ~txn'[q].calm
  BY <1>1 DEF Calm
<1>2. CASE txn'[q].calm
  <2>1. txn'[q] = txn[q]
    BY <1>2
  <2>2. QED
    BY <2>1 DEF Calm, Admissible, LeaseAllows
<1>3. QED
  BY <1>1, <1>2

\* A step of one process that leaves them alone.
LEMMA CalmStep ==
  ASSUME TypeOK, CalmInv, NEW p \in Procs, NEW t, NEW l, txn' = [txn EXCEPT ![p] = t], Goto(p, l),
         current' = current, tree' = tree, live' = live, Calm(p)'
  PROVE  CalmInv'
<1>1. ASSUME NEW q \in Procs, q # p PROVE Calm(q)'
  <2>1. txn'[q] = txn[q] /\ pc'[q] = pc[q]
    BY <1>1 DEF TypeOK, Goto
  <2>2. QED
    BY <2>1, CalmKept DEF CalmInv
<1>2. OpsAreDone'
  BY DEF CalmInv, OpsAreDone
<1>3. QED
  BY <1>1, <1>2 DEF CalmInv

\* A call that has ended, refused or otherwise.
LEMMA CalmEnd ==
  ASSUME TypeOK, CalmInv, NEW p \in Procs, NEW a, Answer(p, a), txn[p].calm => a # "refused",
         current' = current, tree' = tree, live' = live
  PROVE  CalmInv'
<1>1. txn' = [txn EXCEPT ![p] = Ended(txn[p], a)] /\ Goto(p, "idle")
  BY DEF Answer
<1>2. txn'[p] = Ended(txn[p], a) /\ pc'[p] = "idle"
  BY <1>1 DEF TypeOK, Goto
<1>3. txn'[p].calm => txn[p].calm /\ txn'[p].answer = a
  BY <1>2 DEF Ended, Idle
<1>4. Calm(p)'
  BY <1>2, <1>3 DEF Calm, Holding
<1>5. QED
  BY <1>1, <1>4, CalmStep

\* Every step of one process or of the world keeps it: while an upgrade is calm
\* only its own steps change the document, and they make its next step fit.
LEMMA CalmPreserved ==
  ASSUME IInv, TypeOK', CalmInv, [Next]_vars
  PROVE  CalmInv'
<1>0. TypeOK /\ CommitsUnderWay
  BY DEF IInv
<1>1. ASSUME NEW p \in Procs, Call(p) PROVE CalmInv'
  <2>1. PICK c \in Calls(p, current) :
          /\ txn' = [txn EXCEPT ![p] = [Idle EXCEPT !.call = c, !.step = c,
                                          !.calm = c.command = "latest" /\ Fresh(c)]]
          /\ Goto(p, First(c))
    BY <1>1 DEF Call
  <2>2. /\ txn'[p].call = c /\ txn'[p].first = TRUE /\ txn'[p].answer = None
        /\ txn'[p].calm => c.command = "latest" /\ Fresh(c)
        /\ pc'[p] = First(c)
    BY <1>0, <2>1 DEF TypeOK, Goto, Idle
  <2>3. current' = current /\ tree' = tree /\ live' = live
    BY <1>1 DEF Call
  <2>4. Calm(p)'
    <3> SUFFICES ASSUME txn'[p].calm PROVE Calm(p)'
      BY DEF Calm
    <3>1. c.command = "latest" /\ Fresh(c) /\ pc'[p] = "read"
      BY <2>2 DEF First
    <3>2. current.schema # Latest => Admissible(StepOf(c, current, TRUE), current, tree)
      BY <3>1 DEF Fresh
    <3>3. QED
      BY <2>2, <2>3, <3>1, <3>2, NoneAssumption DEF Calm, Holding, Admissible, LeaseAllows
  <2>5. QED
    BY <1>0, <2>1, <2>3, <2>4, CalmStep
<1>2. ASSUME NEW p \in Procs, Retry(p) PROVE CalmInv'
  <2> DEFINE t == [txn[p] EXCEPT !.step = txn[p].call, !.first = TRUE, !.answer = None, !.calm = FALSE]
  <2>1. txn' = [txn EXCEPT ![p] = t] /\ Goto(p, First(txn[p].call))
        /\ current' = current /\ tree' = tree /\ live' = live
    BY <1>2 DEF Retry
  <2>2. ~txn'[p].calm
    BY <1>0, <2>1 DEF TypeOK, Transactions
  <2>3. Calm(p)'
    BY <2>2 DEF Calm
  <2> HIDE DEF t
  <2>4. QED
    BY <1>0, <2>1, <2>3, CalmStep
<1>3. ASSUME NEW p \in Procs, Lock(p) PROVE CalmInv'
  <2> DEFINE t == [txn[p] EXCEPT !.old = current]
  <2>1. txn' = [txn EXCEPT ![p] = t] /\ Goto(p, "check") /\ pc[p] = "lock"
        /\ current' = current /\ tree' = tree /\ live' = live
    BY <1>3 DEF Lock
  <2>2. /\ txn'[p].calm = txn[p].calm /\ txn'[p].answer = txn[p].answer /\ txn'[p].call = txn[p].call
        /\ txn'[p].step = txn[p].step /\ txn'[p].old = current /\ pc'[p] = "check"
    BY <1>0, <2>1 DEF TypeOK, Transactions, Goto
  <2>3. Calm(p)
    BY DEF CalmInv
  <2>4. Calm(p)'
    BY <2>1, <2>2, <2>3 DEF Calm, Admissible, LeaseAllows, Holding
  <2> HIDE DEF t
  <2>5. QED
    BY <1>0, <2>1, <2>4, CalmStep
<1>4. ASSUME NEW p \in Procs, ReadStep(p) PROVE CalmInv'
  <2>1. current' = current /\ tree' = tree /\ live' = live /\ pc[p] = "read"
    BY <1>4 DEF ReadStep
  <2>2. CASE current.schema = Latest
    BY <1>0, <1>4, <2>1, <2>2, CalmEnd DEF ReadStep
  <2>3. CASE current.schema # Latest
    <3> DEFINE s == StepOf(txn[p].call, current, txn[p].first)
               t == [txn[p] EXCEPT !.step = s]
    <3>1. txn' = [txn EXCEPT ![p] = t] /\ Goto(p, "lock")
      BY <1>4, <2>3 DEF ReadStep
    <3>2. txn[p].call \in CallType
      BY <1>0, <2>1 DEF CommitsUnderWay, CommitUnderWay
    <3>3. s.command = "migrate"
      BY <3>2 DEF StepOf, CallType
    <3> HIDE DEF s
    <3>4. /\ txn'[p].calm = txn[p].calm /\ txn'[p].answer = txn[p].answer /\ txn'[p].call = txn[p].call
          /\ txn'[p].step = s /\ pc'[p] = "lock"
      BY <1>0, <3>1 DEF TypeOK, Transactions, Goto
    <3>5. Calm(p)
      BY DEF CalmInv
    <3>6. txn[p].calm => Admissible(s, current, tree)
      BY <2>1, <2>3, <3>5 DEF Calm, s
    <3>7. Calm(p)'
      BY <2>1, <3>3, <3>4, <3>5, <3>6 DEF Calm, Admissible, LeaseAllows, Holding
    <3> HIDE DEF t
    <3>8. QED
      BY <1>0, <2>1, <3>1, <3>7, CalmStep
  <2>4. QED
    BY <2>2, <2>3
<1>5. ASSUME NEW p \in Procs, Admit(p) PROVE CalmInv'
  <2> DEFINE new == Candidate(txn[p].step, txn[p].old, tree)
             t == [txn[p] EXCEPT !.new = new]
  <2>1. txn' = [txn EXCEPT ![p] = t] /\ Goto(p, "snapshot") /\ pc[p] = "check"
        /\ current' = current /\ tree' = tree /\ live' = live
    BY <1>5 DEF Admit
  <2> HIDE DEF new
  <2>2. /\ txn'[p].calm = txn[p].calm /\ txn'[p].answer = txn[p].answer /\ txn'[p].call = txn[p].call
        /\ txn'[p].step = txn[p].step /\ txn'[p].old = txn[p].old /\ txn'[p].new = new
        /\ pc'[p] = "snapshot"
    BY <1>0, <2>1 DEF TypeOK, Transactions, Goto
  <2>3. Calm(p)
    BY DEF CalmInv
  <2>4. Calm(p)'
    BY <2>1, <2>2, <2>3 DEF Calm, Holding, new
  <2> HIDE DEF t
  <2>5. QED
    BY <1>0, <2>1, <2>4, CalmStep
<1>6. ASSUME NEW p \in Procs, Replay(p) PROVE CalmInv'
  BY <1>0, <1>6, CalmEnd DEF Replay
<1>7. ASSUME NEW p \in Procs, Refuse(p) \/ Changed(p) PROVE CalmInv'
  <2>1. ~txn[p].calm
    BY <1>7 DEF Refuse, Changed, CalmInv, Calm, Holding
  <2>2. Answer(p, "refused") /\ current' = current /\ tree' = tree /\ live' = live
    BY <1>7 DEF Refuse, Changed
  <2>3. QED
    BY <1>0, <2>1, <2>2, CalmEnd
<1>8. ASSUME NEW p \in Procs, Abandon(p) PROVE CalmInv'
  <2>1. Answer(p, None) /\ current' = current /\ tree' = tree /\ live' = live
    BY <1>8 DEF Abandon
  <2>2. txn[p].calm => None # "refused"
    BY NoneAssumption
  <2>3. QED
    BY <1>0, <2>1, <2>2, CalmEnd
<1>9. ASSUME NEW p \in Procs, Snapshot(p) \/ Compare(p) PROVE CalmInv'
  <2>1. PICK l \in {"compare", "replace"} : Goto(p, l)
    BY <1>9 DEF Snapshot, Compare
  <2>2. txn' = [txn EXCEPT ![p] = txn[p]] /\ txn'[p] = txn[p] /\ pc'[p] = l
        /\ current' = current /\ tree' = tree /\ live' = live /\ pc[p] \in {"snapshot", "compare"}
    BY <1>0, <1>9, <2>1 DEF Snapshot, Compare, TypeOK, Goto
  <2>3. Calm(p)
    BY DEF CalmInv
  <2>4. Calm(p)'
    BY <2>2, <2>3 DEF Calm, Holding
  <2>5. QED
    BY <1>0, <2>1, <2>2, <2>4, CalmStep
<1>10. ASSUME NEW p \in Procs, Replace(p) PROVE CalmInv'
  <2> DEFINE c == txn[p].step
             d == txn[p].old
             u == Unsettled(Procs \ {p})
  <2>1. /\ c \in CallType /\ d \in Documents /\ SameCommit(d, current) /\ SourceFits(c, d)
    BY <1>10, ReplaceFacts
  <2>2. PICK git \in Trees : current' = Candidate(c, d, git)
    BY <1>10, ReplacePicks
  <2>3. /\ current'.schema = (IF c.command = "migrate" THEN c.to ELSE d.schema)
        /\ current'.ops = current.ops \cup {Receipt(c, d)} /\ current'.view = {}
    BY <2>1, <2>2 DEF Candidate, SameCommit
  <2>4. current' \in Documents /\ d.schema \in Nat /\ current'.schema \in Nat
    BY <2>1 DEF TypeOK, Documents, Latest
  <2>5. /\ d.schema = current.schema
        /\ d.schema <= current'.schema
        /\ StepId(c)[2] <= current'.schema
    <3>1. CASE c.command = "migrate"
      <4>1. d.schema \in From(c.to) /\ c.to \in Steps
        BY <2>1, <3>1 DEF SourceFits, CallType
      <4>2. d.schema < c.to
        BY <4>1 DEF From, Steps, Latest
      <4>3. StepId(c)[2] \in {0, c.to}
        BY <3>1 DEF StepId
      <4>4. current'.schema = c.to
        BY <2>3, <3>1
      <4> HIDE DEF c, d
      <4>5. c.to \in Nat
        BY <4>1 DEF Steps, Latest
      <4>6. QED
        BY <2>1, <2>4, <4>2, <4>3, <4>4, <4>5 DEF SameCommit
    <3>2. CASE c.command # "migrate"
      <4>1. StepId(c)[2] = 0 /\ current'.schema = d.schema
        BY <2>3, <3>2 DEF StepId
      <4> HIDE DEF c, d
      <4>2. QED
        BY <2>1, <2>4, <4>1 DEF SameCommit
    <3>3. QED
      BY <3>1, <3>2
  <2>6. OpsAreDone'
    <3> SUFFICES ASSUME NEW o \in current'.ops PROVE o.id[2] <= current'.schema
      BY DEF OpsAreDone
    <3>1. CASE o \in current.ops
      <4>1. o.id[2] <= current.schema
        BY <3>1 DEF CalmInv, OpsAreDone
      <4>2. o.id[2] \in Nat
        BY <1>0, <3>1 DEF TypeOK, Documents, Latest
      <4> HIDE DEF c, d
      <4>3. QED
        BY <2>4, <2>5, <4>1, <4>2
    <3>2. CASE o = Receipt(c, d)
      BY <2>5, <3>2 DEF Receipt
    <3>3. QED
      BY <2>3, <3>1, <3>2
  <2>7. u \in [Procs -> Transactions] /\ u[p].call = txn[p].call
        /\ \A q \in Procs \ {p} : ~u[q].calm
    <3>1. \A q \in Procs \ {p} : u[q] = [txn[q] EXCEPT !.calm = FALSE] /\ txn[q] \in Transactions
      BY <1>0 DEF Unsettled, TypeOK
    <3>2. \A q \in Procs \ {p} : ~u[q].calm
      BY <3>1 DEF Transactions
    <3>3. QED
      BY <1>0, <3>2, UnsettledType DEF TypeOK
  <2>8. u[p] = txn[p]
    BY DEF Unsettled
  <2> HIDE DEF u
  <2>9. txn' = [u EXCEPT ![p] = IF txn[p].call.command = "latest"
                                THEN [u[p] EXCEPT !.first = FALSE, !.step = None, !.old = None, !.new = None]
                                ELSE Ended(u[p], "done")]
        /\ Goto(p, IF txn[p].call.command = "latest" THEN "read" ELSE "idle")
        /\ tree' = tree /\ live' = (c.command = "resume") /\ pc[p] = "replace"
    BY <1>10 DEF Replace, u
  <2>10. ASSUME NEW q \in Procs, q # p PROVE Calm(q)'
    <3>1. txn'[q] = u[q]
      BY <2>7, <2>9, <2>10
    <3>2. QED
      BY <2>7, <2>10, <3>1 DEF Calm
  <2>11. Calm(p)'
    <3>1. CASE txn[p].call.command = "latest"
      <4>1. /\ txn'[p].calm = txn[p].calm /\ txn'[p].answer = txn[p].answer
            /\ txn'[p].call = txn[p].call /\ txn'[p].first = FALSE /\ pc'[p] = "read"
        BY <1>0, <2>7, <2>8, <2>9, <3>1 DEF TypeOK, Transactions, Goto
      <4> SUFFICES ASSUME txn[p].calm PROVE Calm(p)'
        BY <4>1 DEF Calm
      <4>2. /\ c.command = "migrate" /\ tree.kind # "error" /\ txn[p].new = Candidate(c, d, tree)
            /\ txn[p].answer # "refused"
        BY <2>9 DEF CalmInv, Calm, Holding
      <4>3. current' = Candidate(c, d, tree)
        BY <1>10, <4>2 DEF Replace
      <4>4. current'.git = tree
        BY <4>3 DEF Candidate
      <4>5. ~live' /\ tree \in Trees /\ txn[p].call \in CallType
        BY <1>0, <2>9, <4>2 DEF TypeOK, CommitsUnderWay, CommitUnderWay
      <4>6. \A o \in current'.ops : o.id[2] <= current'.schema
        BY <2>6 DEF OpsAreDone
      <4> DEFINE s == StepOf(txn[p].call, current', FALSE)
      <4> HIDE DEF c, d
      <4>7. ASSUME current'.schema # Latest
            PROVE  /\ Known(s, current') = {} /\ s.command = "migrate" /\ s.rev = current'.rev
                   /\ ~Drift(s, current', tree) /\ SourceFits(s, current')
        <5>1. Known(s, current') = {}
          BY <2>4, <4>5, <4>6, <4>7, StepIsNew
        <5>2. s.command = "migrate" /\ s.to = Target[current'.schema] /\ s.rev = current'.rev
              /\ s.src = Digest(current')
          BY <4>5 DEF StepOf, CallType
        <5> HIDE DEF s
        <5>3. ~Drift(s, current', tree)
          BY <4>4 DEF Drift, BranchChanged
        <5>4. SourceFits(s, current')
          BY <2>4, <4>7, <5>2, TargetFacts DEF SourceFits
        <5>5. QED
          BY <5>1, <5>2, <5>3, <5>4
      <4>8. (StepOf(txn[p].call, current, txn[p].first))' = s
        BY <4>1
      <4> HIDE DEF s
      <4>9. (current.schema # Latest => Admissible(StepOf(txn[p].call, current, txn[p].first), current, tree))'
        BY <2>3, <2>9, <4>2, <4>5, <4>7, <4>8 DEF Admissible, LeaseAllows
      <4>10. QED
        BY <3>1, <4>1, <4>2, <4>9 DEF Calm, Holding
    <3>2. CASE txn[p].call.command # "latest"
      <4>1. ~txn[p].calm
        BY <2>9, <3>2 DEF CalmInv, Calm
      <4>2. txn'[p] = Ended(u[p], "done")
        BY <2>7, <2>9, <3>2
      <4>3. ~txn'[p].calm
        BY <2>8, <4>1, <4>2 DEF Ended, Idle
      <4>4. QED
        BY <4>3 DEF Calm
    <3>3. QED
      BY <3>1, <3>2
  <2>12. QED
    BY <2>6, <2>10, <2>11 DEF CalmInv
<1>11. CASE EditText \/ EditView \/ Checkout
  <2>1. txn' = Unsettled(Procs)
    BY <1>11 DEF EditText, EditView, Edit, Checkout
  <2>2. ASSUME NEW q \in Procs PROVE Calm(q)'
    <3>1. txn'[q] = [txn[q] EXCEPT !.calm = FALSE] /\ txn[q] \in Transactions
      BY <1>0, <2>1 DEF Unsettled, TypeOK
    <3>2. ~txn'[q].calm
      BY <3>1 DEF Transactions
    <3>3. QED
      BY <3>2 DEF Calm
  <2>3. current'.ops = current.ops /\ current'.schema = current.schema
    BY <1>0, <1>11 DEF EditText, EditView, Checkout, TypeOK, Documents
  <2>4. QED
    BY <2>2, <2>3 DEF CalmInv, OpsAreDone
<1>12. CASE Lapse
  <2>1. ASSUME NEW q \in Procs PROVE Calm(q)'
    <3>1. Calm(q) /\ current' = current /\ tree' = tree /\ txn' = txn /\ pc' = pc /\ live' = FALSE
      BY <1>12 DEF Lapse, CalmInv
    <3>2. CASE pc[q] = "read"
      <4> DEFINE s == StepOf(txn[q].call, current, txn[q].first)
      <4>1. s.command = "migrate"
        <5>1. txn[q].call \in CallType
          BY <1>0, <3>2 DEF CommitsUnderWay, CommitUnderWay
        <5>2. QED
          BY <5>1 DEF StepOf, CallType
      <4>2. (StepOf(txn[q].call, current, txn[q].first))' = s
        BY <3>1
      <4> HIDE DEF s
      <4>3. Admissible(s, current, tree) => Admissible(StepOf(txn[q].call, current, txn[q].first), current, tree)'
        BY <3>1, <4>1, <4>2 DEF Admissible, LeaseAllows
      <4>4. QED
        BY <3>1, <3>2, <4>3 DEF Calm, Holding, s
    <3>3. CASE pc[q] # "read"
      BY <3>1, <3>3 DEF Calm, Admissible, LeaseAllows, Holding
    <3>4. QED
      BY <3>2, <3>3
  <2>2. QED
    BY <1>12, <2>1 DEF Lapse, CalmInv, OpsAreDone
<1>13. CASE UNCHANGED vars
  <2>1. ASSUME NEW q \in Procs PROVE Calm(q)'
    BY <1>13, CalmKept DEF vars, CalmInv
  <2>2. QED
    BY <1>13, <2>1 DEF vars, CalmInv, OpsAreDone
<1>14. QED
  BY <1>1, <1>2, <1>3, <1>4, <1>5, <1>6, <1>7, <1>8, <1>9, <1>10, <1>11, <1>12, <1>13 DEF Next, Step

-----------------------------------------------------------------------------
(* The theorems. *)

LEMMA InductiveInit ==
  ASSUME Init
  PROVE  IInv
<1>1. EditsAreKept /\ TextSurvives
  BY DEF Init, EditsAreKept, TextSurvives
<1>2. MigrationsAreApproved
  BY DEF Init, MigrationsAreApproved
<1>3. QED
  BY <1>1, <1>2, TypeInit, CommitsInit DEF IInv

\* The inductive invariant: the commits under way and what they leave behind
\* hold together or not at all.
THEOREM Inductive == Spec => []IInv
<1>1. Init => IInv
  BY InductiveInit
<1>2. IInv /\ [Next]_vars => IInv'
  BY TypeStep, CommitsStep, KeptStep DEF IInv
<1>3. QED
  BY <1>1, <1>2, PTL DEF Spec

\* Whoever holds the lock, documents, snapshots and calls are what they say.
THEOREM TypeCorrect == Spec => []TypeOK
<1>1. IInv => TypeOK
  BY DEF IInv
<1>2. QED
  BY <1>1, Inductive, PTL

\* The document a commit started from stays the one committed, its candidate is
\* made of it after the checks, and nothing but an unsafe edit can get lost,
\* between any two steps of any number of commits.
THEOREM CommitsAreSound == Spec => []CommitsUnderWay
<1>1. IInv => CommitsUnderWay
  BY DEF IInv
<1>2. QED
  BY <1>1, Inductive, PTL

\* No direct edit of CURRENT.md is lost but in the window between the last
\* comparison of commit and the replacement.
THEOREM EditsKept == Spec => []EditsAreKept
<1>1. IInv => EditsAreKept
  BY DEF IInv
<1>2. QED
  BY <1>1, Inductive, PTL

\* Custom text survives every chain of migrations.
THEOREM TextKept == Spec => []TextSurvives
<1>1. IInv => TextSurvives
  BY DEF IInv
<1>2. QED
  BY <1>1, Inductive, PTL

\* Every migration on record started from the bytes approved for it.
THEOREM ApprovedOnly == Spec => []MigrationsAreApproved
<1>1. IInv => MigrationsAreApproved
  BY DEF IInv
<1>2. QED
  BY <1>1, Inductive, PTL

\* A change of the Git identity reaches the document only with leave, wherever
\* the worktree moves while a command runs.
THEOREM DriftReviewed == Spec => DriftIsReviewed
<1> DEFINE Reviewed ==
      \A o \in current'.ops \ current.ops :
        ~o.call.allow =>
          /\ ~BranchChanged(current.git, current'.git)
          /\ Reviews(o.call, current) => current'.git = current.git
<1>1. ASSUME IInv, [Next]_vars
      PROVE  Reviewed
  <2> SUFFICES ASSUME NEW o \in current'.ops \ current.ops, ~o.call.allow
               PROVE  /\ ~BranchChanged(current.git, current'.git)
                      /\ Reviews(o.call, current) => current'.git = current.git
    OBVIOUS
  <2>1. PICK p \in Procs : Replace(p)
    BY <1>1, EditFacts, QuietFacts
  <2> DEFINE c == txn[p].step
             d == txn[p].old
  <2>2. SameCommit(d, current)
    BY <1>1, <2>1, ReplaceFacts
  <2>3. PICK git \in Trees : current' = Candidate(c, d, git) /\ (Drift(c, d, git) => c.allow)
    BY <1>1, <2>1, ReplacePicks
  <2> HIDE DEF c, d
  <2>4. o = Receipt(c, d) /\ current'.git = git
    BY <2>2, <2>3 DEF Candidate, SameCommit
  <2>5. o.call = c
    BY <2>4 DEF Receipt
  <2>6. ~Drift(c, d, git)
    BY <2>3, <2>5
  <2>7. QED
    BY <2>2, <2>4, <2>5, <2>6 DEF Drift, Reviews, SameCommit
<1>2. QED
  BY <1>1, Inductive, PTL DEF Spec, DriftIsReviewed

\* An upgrade to the latest schema is never refused half way unless somebody
\* else wrote, edited or checked out meanwhile: every step of --to-latest binds
\* the next one to what it has just committed.
THEOREM Smooth == Spec => []UpgradesAreSmooth
<1>1. Init => CalmInv
  <2> SUFFICES ASSUME Init PROVE CalmInv
    OBVIOUS
  <2>1. current.ops = {} /\ \A p \in Procs : ~txn[p].calm
    BY DEF Init, Idle
  <2>2. QED
    BY <2>1 DEF CalmInv, Calm, OpsAreDone
<1>2. IInv /\ IInv' /\ CalmInv /\ [Next]_vars => CalmInv'
  BY CalmPreserved DEF IInv
<1>3. CalmInv => UpgradesAreSmooth
  BY DEF CalmInv, Calm, UpgradesAreSmooth
<1>4. QED
  BY <1>1, <1>2, <1>3, Inductive, PTL DEF Spec
=============================================================================
