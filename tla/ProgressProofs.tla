--------------------------- MODULE ProgressProofs ---------------------------
(***************************************************************************)
(* The progress contract, for any ids, conditions and number of lives: the *)
(* committed document is always valid and its generations tell the lives   *)
(* of a task apart (Inductive); from that follow the type invariant, the   *)
(* meaning of "done", what may leave a document and how, and that moving   *)
(* what is cold out of it leaves it valid, the two known refusals aside.   *)
(***************************************************************************)
EXTENDS ProgressInductive, TLAPS

-----------------------------------------------------------------------------
(* Parts of documents. *)

\* c is d less some of its records.
SubDoc(c, d) ==
  /\ Shape(c) /\ c.current = d.current /\ c.complete = d.complete
  /\ Ids(c.tasks) \subseteq Ids(d.tasks) /\ \A x \in Ids(c.tasks) : c.tasks[x] = d.tasks[x]
  /\ Ids(c.blockers) \subseteq Ids(d.blockers)
  /\ \A x \in Ids(c.blockers) : c.blockers[x] = d.blockers[x]
  /\ Ids(c.scopes) \subseteq Ids(d.scopes) /\ \A x \in Ids(c.scopes) : c.scopes[x] = d.scopes[x]
  /\ Ids(c.evidence) \subseteq Ids(d.evidence)
  /\ \A x \in Ids(c.evidence) : c.evidence[x] = d.evidence[x]
  /\ Ids(c.decisions) \subseteq Ids(d.decisions)
  /\ \A x \in Ids(c.decisions) : c.decisions[x] = d.decisions[x]
  /\ Ids(c.corrections) \subseteq Ids(d.corrections)
  /\ \A x \in Ids(c.corrections) : c.corrections[x] = d.corrections[x]

\* What Less leaves of each collection.
LEMMA LessFields ==
  ASSUME NEW d, NEW m, Shape(d)
  PROVE  LET c == Less(d, m)
         IN  /\ Shape(c) /\ c.current = d.current /\ c.complete = d.complete
             /\ c.tasks = Without(d.tasks, m.tasks)
             /\ c.blockers = Without(d.blockers, m.blockers)
             /\ c.scopes = Without(d.scopes, m.blockers)
             /\ c.evidence = Without(d.evidence, m.evidence)
             /\ c.decisions = Without(d.decisions, m.decisions)
             /\ c.corrections = Without(d.corrections, m.corrections)
  BY DEF Shape, Less

\* A collection less some ids, and with one record written.
LEMMA WithoutFacts ==
  ASSUME NEW f, NEW ids
  PROVE  /\ Ids(Without(f, ids)) = Ids(f) \ ids
         /\ \A x \in Ids(f) \ ids : Without(f, ids)[x] = f[x]
  BY DEF Ids, Without, Restrict

LEMMA SetFacts ==
  ASSUME NEW f, NEW id, NEW record
  PROVE  /\ Ids(Set(f, id, record)) = Ids(f) \cup {id}
         /\ Set(f, id, record)[id] = record
         /\ \A x \in Ids(f) \ {id} : Set(f, id, record)[x] = f[x]
  BY DEF Ids, Set

\* Taking records out gives a part of the document.
LEMMA LessIsSub ==
  ASSUME NEW d, NEW m, Shape(d)
  PROVE  SubDoc(Less(d, m), d)
  BY LessFields, WithoutFacts DEF SubDoc

\* A write installs a valid document, the candidate or a part of it.
LEMMA CommitInstalls ==
  ASSUME NEW d, NEW records, Shape(d), Commit(d, records)
  PROVE  /\ SubDoc(doc', d) /\ Valid(doc') /\ Valid(d)
         /\ archive \cup records \subseteq archive'
         /\ \/ doc' = d /\ archive' = archive \cup records
            \/ /\ doc' = Less(d, Moved(d))
               /\ archive' = archive \cup records \cup Records(d, Moved(d))
<1>1. CASE doc' = d /\ archive' = archive \cup records
  BY <1>1 DEF Commit, SubDoc
<1>2. CASE doc' = Less(d, Moved(d)) /\ archive' = archive \cup records \cup Records(d, Moved(d))
  BY <1>2, LessIsSub DEF Commit
<1>3. QED
  BY <1>1, <1>2 DEF Commit

\* What is typed and in step stays so when records leave.
LEMMA SubKeeps ==
  ASSUME NEW c, NEW d, NEW lives, NEW made,
         SubDoc(c, d), EvidenceValid(c), Typed(d), LivesAgree(d, lives, made)
  PROVE  Typed(c) /\ LivesAgree(c, lives, made)
<1>1. Typed(c)
  BY DEF SubDoc, Typed
<1>2. LivesAgree(c, lives, made)
  <2>1. ASSUME NEW t \in Ids(c.tasks) PROVE c.tasks[t].gen < lives[t]
    BY DEF SubDoc, LivesAgree
  <2>2. ASSUME NEW e \in Ids(c.evidence)
        PROVE  lives[c.evidence[e].task] - made[e]
                 = c.tasks[c.evidence[e].task].gen - c.evidence[e].gen
    <3>1. c.evidence[e].task \in Ids(c.tasks) /\ e \in Ids(d.evidence) /\ c.evidence[e] = d.evidence[e]
      BY DEF SubDoc, EvidenceValid
    <3>2. c.tasks[c.evidence[e].task] = d.tasks[d.evidence[e].task]
      BY <3>1 DEF SubDoc
    <3>3. QED
      BY <3>1, <3>2 DEF LivesAgree
  <2>3. QED
    BY <2>1, <2>2 DEF LivesAgree
<1>3. QED
  BY <1>1, <1>2

\* A candidate that is typed and in step with the lives makes an inductive step.
LEMMA CommitStep ==
  ASSUME NEW d, NEW records, Commit(d, records), Shape(d), Typed(d),
         life' \in [Tasks -> 0 .. MaxLife], during' \in [Evidence -> 0 .. MaxLife],
         LivesAgree(d, life', during')
  PROVE  IInv'
<1>1. SubDoc(doc', d) /\ Valid(doc')
  BY CommitInstalls
<1>2. EvidenceValid(doc') /\ Shape(doc')
  BY <1>1 DEF Valid, SubDoc
<1>3. Typed(doc') /\ LivesAgree(doc', life', during')
  BY <1>1, <1>2, SubKeeps
<1>4. QED
  BY <1>1, <1>2, <1>3 DEF IInv, TypeOK

\* The lives stand where a change leaves the tasks and the evidence.
LEMMA CandidateStep ==
  ASSUME IInv, NEW d, NEW records, Commit(d, records), UNCHANGED <<life, during>>,
         Shape(d), Typed(d), d.tasks = doc.tasks, d.evidence = doc.evidence
  PROVE  IInv'
<1>1. LivesAgree(d, life', during')
  BY DEF IInv, LivesAgree
<1>2. QED
  BY <1>1, CommitStep DEF IInv, TypeOK

-----------------------------------------------------------------------------
(* Every step keeps the inductive invariant. *)

\* A task that begins a life gets the next generation of its id, or the first
\* when no evidence in the document names it.
LEMMA UpsertTaskStep ==
  ASSUME IInv, NEW t \in Tasks, UpsertTask(t)
  PROVE  IInv'
<1>1. PICK status \in Status : \E deps \in SUBSET Tasks, acc \in SUBSET Conditions :
        LET begins == t \notin Ids(doc.tasks) \/ Reopens(t, status)
            task == [status |-> status, deps |-> deps, acc |-> acc, gen |-> Generation(t, status)]
        IN  /\ t \in Ids(doc.tasks) => doc.tasks[t].acc \subseteq acc
            /\ begins => life[t] < MaxLife
            /\ Commit([doc EXCEPT !.tasks = Set(@, t, task)], {})
            /\ life' = IF begins THEN [life EXCEPT ![t] = @ + 1] ELSE life
            /\ UNCHANGED during
  BY DEF UpsertTask
<1>2. PICK deps \in SUBSET Tasks, acc \in SUBSET Conditions :
        LET begins == t \notin Ids(doc.tasks) \/ Reopens(t, status)
            task == [status |-> status, deps |-> deps, acc |-> acc, gen |-> Generation(t, status)]
        IN  /\ t \in Ids(doc.tasks) => doc.tasks[t].acc \subseteq acc
            /\ begins => life[t] < MaxLife
            /\ Commit([doc EXCEPT !.tasks = Set(@, t, task)], {})
            /\ life' = IF begins THEN [life EXCEPT ![t] = @ + 1] ELSE life
            /\ UNCHANGED during
  BY <1>1
<1> DEFINE begins == t \notin Ids(doc.tasks) \/ Reopens(t, status)
           task == [status |-> status, deps |-> deps, acc |-> acc, gen |-> Generation(t, status)]
           d == [doc EXCEPT !.tasks = Set(@, t, task)]
<1>3. /\ begins => life[t] < MaxLife
      /\ Commit(d, {})
      /\ life' = IF begins THEN [life EXCEPT ![t] = @ + 1] ELSE life
      /\ during' = during
  BY <1>2
<1>4. /\ Shape(d) /\ d.tasks = Set(doc.tasks, t, task)
      /\ d.blockers = doc.blockers /\ d.scopes = doc.scopes /\ d.evidence = doc.evidence
      /\ d.decisions = doc.decisions /\ d.corrections = doc.corrections
  BY DEF IInv, Shape
<1>5. /\ Ids(d.tasks) = Ids(doc.tasks) \cup {t} /\ d.tasks[t] = task
      /\ \A u \in Ids(doc.tasks) \ {t} : d.tasks[u] = doc.tasks[u]
  BY <1>4, SetFacts
<1>6. /\ life \in [Tasks -> 0 .. MaxLife] /\ during \in [Evidence -> 0 .. MaxLife] /\ Typed(doc)
      /\ LivesAgree(doc, life, during) /\ EvidenceValid(doc) /\ MaxLife \in Nat
  BY MaxLifeAssumption DEF IInv, TypeOK, Valid
<1>7. /\ life' \in [Tasks -> 0 .. MaxLife] /\ \A u \in Tasks \ {t} : life'[u] = life[u]
      /\ life'[t] = IF begins THEN life[t] + 1 ELSE life[t]
  BY <1>3, <1>6
<1>8. /\ t \notin Ids(doc.tasks) => task.gen = 0
      /\ t \in Ids(doc.tasks) /\ begins => task.gen = doc.tasks[t].gen + 1
      /\ t \in Ids(doc.tasks) /\ ~begins => task.gen = doc.tasks[t].gen
  BY DEF Generation
<1>9. \A u \in Ids(doc.tasks) : doc.tasks[u].gen \in Nat /\ doc.tasks[u].gen < life[u]
  BY <1>6 DEF Typed, LivesAgree, Generations
<1>10. task.gen \in Nat /\ task.gen < life'[t] /\ life'[t] \in 0 .. MaxLife
  BY <1>6, <1>7, <1>8, <1>9
<1>11. task \in [status : Status, deps : SUBSET Tasks, acc : SUBSET Conditions, gen : Generations]
  <2>1. task.gen \in Generations
    BY <1>6, <1>10 DEF Generations
  <2>2. task.gen = Generation(t, status)
    OBVIOUS
  <2>3. QED
    BY <2>1, <2>2
<1> HIDE DEF task, d, begins
<1>12. Typed(d)
  BY <1>4, <1>5, <1>6, <1>11 DEF Typed
<1>13. LivesAgree(d, life', during')
  <2>1. ASSUME NEW u \in Ids(d.tasks) PROVE d.tasks[u].gen < life'[u]
    <3>1. CASE u = t
      BY <3>1, <1>5, <1>10
    <3>2. CASE u # t
      BY <3>2, <1>5, <1>6, <1>7, <1>9 DEF Typed
    <3>3. QED
      BY <3>1, <3>2
  <2>2. ASSUME NEW e \in Ids(d.evidence)
        PROVE  life'[d.evidence[e].task] - during'[e]
                 = d.tasks[d.evidence[e].task].gen - d.evidence[e].gen
    <3> DEFINE u == doc.evidence[e].task
    <3>1. /\ u \in Ids(doc.tasks) /\ u \in Tasks /\ e \in Evidence /\ e \in Ids(doc.evidence)
          /\ d.evidence[e] = doc.evidence[e] /\ doc.evidence[e].gen \in Nat
      BY <1>4, <1>6 DEF EvidenceValid, Typed, Generations
    <3>2. life[u] - during[e] = doc.tasks[u].gen - doc.evidence[e].gen
      BY <3>1, <1>6 DEF LivesAgree
    <3>3. life'[u] - life[u] = d.tasks[u].gen - doc.tasks[u].gen
      <4>1. CASE u = t
        BY <4>1, <3>1, <1>5, <1>6, <1>7, <1>8, <1>9
      <4>2. CASE u # t
        BY <4>2, <3>1, <1>5, <1>6, <1>7, <1>9
      <4>3. QED
        BY <4>1, <4>2
    <3>4. life'[u] \in Nat /\ life[u] \in Nat /\ during[e] \in Nat /\ d.tasks[u].gen \in Nat
          /\ doc.tasks[u].gen \in Nat
      BY <3>1, <1>5, <1>6, <1>7, <1>9, <1>10
    <3>5. QED
      BY <3>1, <3>2, <3>3, <3>4, <1>3
  <2>3. QED
    BY <2>1, <2>2 DEF LivesAgree
<1>14. QED
  BY <1>3, <1>4, <1>6, <1>7, <1>12, <1>13, CommitStep

\* Blockers, scopes, decisions, corrections and the project leave the lives alone.
LEMMA UpsertBlockerStep ==
  ASSUME IInv, NEW b \in Blockers, UpsertBlocker(b)
  PROVE  IInv'
<1>1. PICK t \in Tasks, open \in BOOLEAN :
        /\ Commit([doc EXCEPT !.blockers = Set(@, b, [task |-> t, open |-> open])], {})
        /\ UNCHANGED <<life, during>>
  BY DEF UpsertBlocker
<1> DEFINE record == [task |-> t, open |-> open]
           d == [doc EXCEPT !.blockers = Set(@, b, record)]
<1>2. /\ Shape(d) /\ d.blockers = Set(doc.blockers, b, record)
      /\ d.tasks = doc.tasks /\ d.evidence = doc.evidence
      /\ d.decisions = doc.decisions /\ d.corrections = doc.corrections
  BY DEF IInv, Shape
<1>3. record \in [task : Tasks, open : BOOLEAN] /\ Typed(doc)
  BY DEF IInv, TypeOK
<1> HIDE DEF record
<1>4. Typed(d)
  BY <1>2, <1>3, SetFacts DEF Typed
<1>5. Commit(d, {}) /\ UNCHANGED <<life, during>>
  BY <1>1 DEF record
<1> HIDE DEF d
<1>6. QED
  BY <1>2, <1>4, <1>5, CandidateStep

LEMMA SetScopesStep ==
  ASSUME IInv, SetScopes
  PROVE  IInv'
<1>1. PICK scopes : Commit([doc EXCEPT !.scopes = scopes], {}) /\ UNCHANGED <<life, during>>
  BY DEF SetScopes
<1> DEFINE d == [doc EXCEPT !.scopes = scopes]
<1>2. /\ Shape(d) /\ d.blockers = doc.blockers
      /\ d.tasks = doc.tasks /\ d.evidence = doc.evidence
      /\ d.decisions = doc.decisions /\ d.corrections = doc.corrections
  BY DEF IInv, Shape
<1>3. Typed(d)
  BY <1>2 DEF Typed, IInv, TypeOK
<1> HIDE DEF d
<1>4. QED
  BY <1>1, <1>2, <1>3, CandidateStep DEF d

\* New evidence is of the life and the generation its task has now.
LEMMA AddEvidenceStep ==
  ASSUME IInv, NEW e \in Evidence, AddEvidence(e)
  PROVE  IInv'
<1>1. PICK t \in Ids(doc.tasks), pass \in BOOLEAN :
        \E acc \in SUBSET doc.tasks[t].acc :
          /\ Commit([doc EXCEPT !.evidence = Set(@, e, [task |-> t, pass |-> pass, acc |-> acc,
                                                        gen |-> doc.tasks[t].gen])], {})
          /\ during' = [during EXCEPT ![e] = life[t]]
  BY DEF AddEvidence
<1>2. PICK acc \in SUBSET doc.tasks[t].acc :
        /\ Commit([doc EXCEPT !.evidence = Set(@, e, [task |-> t, pass |-> pass, acc |-> acc,
                                                      gen |-> doc.tasks[t].gen])], {})
        /\ during' = [during EXCEPT ![e] = life[t]]
  BY <1>1
<1> DEFINE made == [task |-> t, pass |-> pass, acc |-> acc, gen |-> doc.tasks[t].gen]
           d == [doc EXCEPT !.evidence = Set(@, e, made)]
<1>3. /\ Shape(d) /\ d.evidence = Set(doc.evidence, e, made)
      /\ d.tasks = doc.tasks /\ d.blockers = doc.blockers
      /\ d.decisions = doc.decisions /\ d.corrections = doc.corrections
  BY DEF IInv, Shape
<1>4. /\ Ids(d.evidence) = Ids(doc.evidence) \cup {e} /\ d.evidence[e] = made
      /\ \A x \in Ids(doc.evidence) \ {e} : d.evidence[x] = doc.evidence[x]
  BY <1>3, SetFacts
<1>5. /\ life \in [Tasks -> 0 .. MaxLife] /\ during \in [Evidence -> 0 .. MaxLife] /\ Typed(doc)
      /\ LivesAgree(doc, life, during) /\ EvidenceValid(doc) /\ MaxLife \in Nat /\ life' = life
  BY MaxLifeAssumption DEF IInv, TypeOK, Valid, AddEvidence
<1>6. /\ t \in Tasks /\ doc.tasks[t].gen \in Generations /\ doc.tasks[t].acc \in SUBSET Conditions
  BY <1>5 DEF Typed
<1>7. made \in [task : Tasks, pass : BOOLEAN, acc : SUBSET Conditions, gen : Generations]
  BY <1>6
<1>8. Commit(d, {}) /\ during' = [during EXCEPT ![e] = life[t]]
  BY <1>2
<1>9. made.task = t /\ made.gen = doc.tasks[t].gen
  OBVIOUS
<1> HIDE DEF made, d
<1>10. Typed(d)
  BY <1>3, <1>4, <1>5, <1>7 DEF Typed
<1>11. /\ during' \in [Evidence -> 0 .. MaxLife] /\ during'[e] = life[t]
       /\ \A x \in Evidence \ {e} : during'[x] = during[x]
  BY <1>5, <1>6, <1>8
<1>12. LivesAgree(d, life', during')
  <2>1. \A u \in Ids(d.tasks) : d.tasks[u].gen < life'[u]
    BY <1>3, <1>5 DEF LivesAgree
  <2>2. ASSUME NEW x \in Ids(d.evidence)
        PROVE  life'[d.evidence[x].task] - during'[x]
                 = d.tasks[d.evidence[x].task].gen - d.evidence[x].gen
    <3>1. CASE x = e
      <4>1. life[t] \in Nat /\ doc.tasks[t].gen \in Nat
        BY <1>5, <1>6 DEF Generations
      <4>2. QED
        BY <3>1, <4>1, <1>3, <1>4, <1>5, <1>9, <1>11
    <3>2. CASE x # e
      <4>1. x \in Ids(doc.evidence) /\ x \in Evidence /\ d.evidence[x] = doc.evidence[x]
        BY <3>2, <1>4, <1>5 DEF Typed
      <4>2. QED
        BY <3>2, <4>1, <1>3, <1>5, <1>11 DEF LivesAgree
    <3>3. QED
      BY <3>1, <3>2
  <2>3. QED
    BY <2>1, <2>2 DEF LivesAgree
<1>13. QED
  BY <1>3, <1>5, <1>8, <1>10, <1>11, <1>12, CommitStep

LEMMA AddDecisionStep ==
  ASSUME IInv, NEW x \in Decisions, AddDecision(x)
  PROVE  IInv'
<1>1. PICK T \in SUBSET Ids(doc.tasks) : Commit([doc EXCEPT !.decisions = Set(@, x, T)], {})
  BY DEF AddDecision
<1> DEFINE d == [doc EXCEPT !.decisions = Set(@, x, T)]
<1>2. /\ Shape(d) /\ d.decisions = Set(doc.decisions, x, T) /\ d.tasks = doc.tasks
      /\ d.blockers = doc.blockers /\ d.evidence = doc.evidence /\ d.corrections = doc.corrections
  BY DEF IInv, Shape
<1>3. Typed(d)
  BY <1>2, SetFacts DEF Typed, IInv, TypeOK
<1> HIDE DEF d
<1>4. QED
  BY <1>1, <1>2, <1>3, CandidateStep DEF d, AddDecision

LEMMA AddCorrectionStep ==
  ASSUME IInv, NEW c \in Corrections, AddCorrection(c)
  PROVE  IInv'
<1>1. PICK made : /\ Commit([doc EXCEPT !.corrections = Set(@, c, made)], {})
                  /\ made.kind \in Kinds /\ made.type \in Types
  BY DEF AddCorrection
<1> DEFINE d == [doc EXCEPT !.corrections = Set(@, c, made)]
<1>2. /\ Shape(d) /\ d.corrections = Set(doc.corrections, c, made) /\ d.tasks = doc.tasks
      /\ d.blockers = doc.blockers /\ d.evidence = doc.evidence /\ d.decisions = doc.decisions
  BY DEF IInv, Shape
<1>3. Typed(d)
  BY <1>1, <1>2, SetFacts DEF Typed, IInv, TypeOK
<1> HIDE DEF d
<1>4. QED
  BY <1>1, <1>2, <1>3, CandidateStep DEF d, AddCorrection

LEMMA SetProjectStep ==
  ASSUME IInv, SetProject
  PROVE  IInv'
<1>1. PICK current, complete :
        Commit([doc EXCEPT !.current = current, !.complete = complete], {}) /\ UNCHANGED <<life, during>>
  BY DEF SetProject
<1> DEFINE d == [doc EXCEPT !.current = current, !.complete = complete]
<1>2. /\ Shape(d) /\ d.tasks = doc.tasks /\ d.blockers = doc.blockers /\ d.evidence = doc.evidence
      /\ d.decisions = doc.decisions /\ d.corrections = doc.corrections
  BY DEF IInv, Shape
<1>3. Typed(d)
  BY <1>2 DEF Typed, IInv, TypeOK
<1> HIDE DEF d
<1>4. QED
  BY <1>1, <1>2, <1>3, CandidateStep DEF d

LEMMA ArchiveDecisionsStep ==
  ASSUME IInv, ArchiveDecisions
  PROVE  IInv'
<1>1. PICK X \in SUBSET Ids(doc.decisions) :
        /\ Commit([doc EXCEPT !.decisions = Without(@, X)], Record("decisions", X, doc.decisions))
        /\ UNCHANGED <<life, during>>
  BY DEF ArchiveDecisions
<1> DEFINE d == [doc EXCEPT !.decisions = Without(@, X)]
<1>2. /\ Shape(d) /\ d.decisions = Without(doc.decisions, X) /\ d.tasks = doc.tasks
      /\ d.blockers = doc.blockers /\ d.evidence = doc.evidence /\ d.corrections = doc.corrections
  BY DEF IInv, Shape
<1>3. Typed(d)
  BY <1>2, WithoutFacts DEF Typed, IInv, TypeOK
<1> HIDE DEF d
<1>4. QED
  BY <1>1, <1>2, <1>3, CandidateStep DEF d

\* A part of the document that leaves the lives alone: prune and compact.
LEMMA PartStep ==
  ASSUME IInv, NEW d, NEW records, SubDoc(d, doc), Commit(d, records), UNCHANGED <<life, during>>
  PROVE  IInv'
<1>1. EvidenceValid(d)
  BY DEF Commit, Valid
<1>2. Typed(d) /\ LivesAgree(d, life, during)
  BY <1>1, SubKeeps DEF IInv, TypeOK
<1>3. QED
  BY <1>2, CommitStep DEF SubDoc, IInv, TypeOK

LEMMA PruneStep ==
  ASSUME IInv, Prune
  PROVE  IInv'
<1>1. PICK T : Commit(Less(doc, Pruned(T)), {}) /\ UNCHANGED <<life, during>>
  BY DEF Prune
<1>2. QED
  BY <1>1, LessIsSub, PartStep DEF IInv

LEMMA CompactStep ==
  ASSUME IInv, Compact
  PROVE  IInv'
<1>1. SubDoc(doc, doc)
  BY DEF SubDoc, IInv
<1>2. QED
  BY <1>1, PartStep DEF Compact

\* The empty document is valid.
LEMMA InitInductive == Init => IInv
<1> SUFFICES ASSUME Init PROVE IInv
  OBVIOUS
<1>1. /\ Ids(doc.tasks) = {} /\ Ids(doc.blockers) = {} /\ Ids(doc.scopes) = {}
      /\ Ids(doc.evidence) = {} /\ Ids(doc.decisions) = {} /\ Ids(doc.corrections) = {}
      /\ doc.current = None /\ doc.complete = FALSE /\ Shape(doc)
  BY DEF Init, Ids, Shape
<1>2. TypeOK /\ LivesAgree(doc, life, during)
  BY <1>1, MaxLifeAssumption DEF Init, TypeOK, Typed, LivesAgree
<1>3. Valid(doc)
  <2> DEFINE N == (SUBSET {}) \ {{}}
  <2>0. N = {}
    OBVIOUS
  <2>1. TasksValid(doc)
    <3>1. Acyclic(doc)
      <4>1. (SUBSET Ids(doc.tasks)) \ {{}} = {}
        BY <2>0, <1>1
      <4>2. QED
        BY <4>1, Zenon DEF Acyclic
    <3>2. QED
      BY <1>1, <3>1 DEF TasksValid
  <2>2. BlockersValid(doc) /\ DecisionsValid(doc) /\ EvidenceValid(doc)
    BY <1>1 DEF BlockersValid, DecisionsValid, EvidenceValid
  <2>3. CorrectionsValid(doc)
    <3>1. (SUBSET Ids(doc.evidence)) \ {{}} = {}
      BY <2>0, <1>1
    <3>2. QED
      BY <1>1, <3>1, Zenon DEF CorrectionsValid
  <2>4. GateValid(doc) /\ ProjectValid(doc)
    BY <1>1 DEF GateValid, ProjectValid
  <2>5. QED
    BY <2>1, <2>2, <2>3, <2>4 DEF Valid
<1>4. QED
  BY <1>1, <1>2, <1>3 DEF IInv

\* Every committed document is valid, and the generations its gate compares run in
\* step with the lives of its tasks (progress.validate, progress.apply).
THEOREM Inductive == Spec => []IInv
<1>1. IInv /\ [Next]_vars => IInv'
  <2> SUFFICES ASSUME IInv, [Next]_vars PROVE IInv'
    OBVIOUS
  <2>1. CASE UNCHANGED vars
    BY <2>1 DEF vars, IInv, TypeOK
  <2>2. ASSUME NEW t \in Tasks, UpsertTask(t) PROVE IInv'
    BY <2>2, UpsertTaskStep
  <2>3. ASSUME NEW b \in Blockers, UpsertBlocker(b) PROVE IInv'
    BY <2>3, UpsertBlockerStep
  <2>4. CASE SetScopes
    BY <2>4, SetScopesStep
  <2>5. ASSUME NEW e \in Evidence, AddEvidence(e) PROVE IInv'
    BY <2>5, AddEvidenceStep
  <2>6. ASSUME NEW x \in Decisions, AddDecision(x) PROVE IInv'
    BY <2>6, AddDecisionStep
  <2>7. ASSUME NEW c \in Corrections, AddCorrection(c) PROVE IInv'
    BY <2>7, AddCorrectionStep
  <2>8. CASE SetProject
    BY <2>8, SetProjectStep
  <2>9. CASE ArchiveDecisions
    BY <2>9, ArchiveDecisionsStep
  <2>10. CASE Prune
    BY <2>10, PruneStep
  <2>11. CASE Compact
    BY <2>11, CompactStep
  <2>12. QED
    BY <2>1, <2>2, <2>3, <2>4, <2>5, <2>6, <2>7, <2>8, <2>9, <2>10, <2>11 DEF Next
<1>2. QED
  BY <1>1, InitInductive, PTL DEF Spec

\* The document, the lives and what evidence remembers of them have their types.
THEOREM TypeCorrect == Spec => []TypeOK
<1>1. IInv => TypeOK
  BY DEF IInv
<1>2. QED
  BY <1>1, Inductive, PTL

\* Evidence that is not behind in generation is not behind in life.
LEMMA LivesTell == IInv => DoneInThisLife
<1> SUFFICES ASSUME IInv, NEW t \in Ids(doc.tasks), doc.tasks[t].status = "done",
                    NEW a \in doc.tasks[t].acc
             PROVE  \E e \in LiveEvidence(doc) :
                      /\ doc.evidence[e].task = t /\ doc.evidence[e].pass /\ a \in doc.evidence[e].acc
                      /\ during[e] = life[t]
  BY DEF DoneInThisLife
<1>1. a \in Covered(doc, t)
  BY DEF IInv, Valid, GateValid
<1>2. PICK e \in LiveEvidence(doc) :
        /\ doc.evidence[e].task = t /\ doc.evidence[e].pass /\ a \in doc.evidence[e].acc
        /\ doc.evidence[e].gen = doc.tasks[t].gen
  BY <1>1 DEF Covered
<1>3. e \in Ids(doc.evidence) /\ e \in Evidence /\ t \in Tasks
  BY DEF LiveEvidence, IInv, TypeOK, Typed
<1>4. life[t] - during[e] = doc.tasks[t].gen - doc.evidence[e].gen
  BY <1>2, <1>3 DEF IInv, LivesAgree
<1>5. life[t] \in Nat /\ during[e] \in Nat /\ doc.tasks[t].gen \in Nat
  BY <1>3 DEF IInv, TypeOK, Typed, Generations
<1>6. QED
  BY <1>2, <1>4, <1>5

\* A task that is done has live evidence for each of its conditions that was made
\* in its present life, whatever was reopened, pruned, archived and made again.
THEOREM DoneThisLife == Spec => []DoneInThisLife
  BY LivesTell, Inductive, PTL

-----------------------------------------------------------------------------
(* What may leave a document. *)

\* What a step makes of the document before it commits: the candidate d, the
\* records moved to the archive with it, and the tasks T that it prunes.
Candidate(d, records, T) ==
  /\ Shape(d) /\ Commit(d, records)
  /\ T \subseteq Ids(doc.tasks) \ Ids(d.tasks)
  /\ \A e \in Ids(doc.evidence) :
       doc.evidence[e].task \in T \/ (e \in Ids(d.evidence) /\ d.evidence[e] = doc.evidence[e])
  /\ \A x \in Ids(doc.decisions) :
       \/ doc.decisions[x] \cap T # {}
       \/ Record("decisions", {x}, doc.decisions) \subseteq records
       \/ (x \in Ids(d.decisions) /\ d.decisions[x] = doc.decisions[x])
  /\ \A x \in Ids(d.decisions) \ Ids(doc.decisions) : x \notin ArchivedIds("decisions")
  /\ \A r \in records : r.collection = "decisions" /\ r.id \notin Ids(d.decisions)
  /\ \A c \in Ids(doc.corrections) :
       c \in Ids(d.corrections) /\ d.corrections[c] = doc.corrections[c]

\* Each action commits such a candidate.
LEMMA UpsertTaskCandidate ==
  ASSUME Shape(doc), NEW t, UpsertTask(t)
  PROVE  \E d : Candidate(d, {}, {})
<1>1. PICK record : Commit([doc EXCEPT !.tasks = Set(@, t, record)], {})
  BY DEF UpsertTask
<1> DEFINE d == [doc EXCEPT !.tasks = Set(@, t, record)]
<1>2. /\ Shape(d) /\ d.evidence = doc.evidence /\ d.decisions = doc.decisions
      /\ d.corrections = doc.corrections
  BY DEF Shape
<1>3. Commit(d, {})
  BY <1>1
<1> HIDE DEF d
<1>4. QED
  BY <1>2, <1>3 DEF Candidate

LEMMA UpsertBlockerCandidate ==
  ASSUME Shape(doc), NEW b, UpsertBlocker(b)
  PROVE  \E d : Candidate(d, {}, {})
<1>1. PICK record : Commit([doc EXCEPT !.blockers = Set(@, b, record)], {})
  BY DEF UpsertBlocker
<1> DEFINE d == [doc EXCEPT !.blockers = Set(@, b, record)]
<1>2. /\ Shape(d) /\ d.evidence = doc.evidence /\ d.decisions = doc.decisions
      /\ d.corrections = doc.corrections
  BY DEF Shape
<1>3. Commit(d, {})
  BY <1>1
<1> HIDE DEF d
<1>4. QED
  BY <1>2, <1>3 DEF Candidate

LEMMA SetScopesCandidate ==
  ASSUME Shape(doc), SetScopes
  PROVE  \E d : Candidate(d, {}, {})
<1>1. PICK scopes : Commit([doc EXCEPT !.scopes = scopes], {})
  BY DEF SetScopes
<1> DEFINE d == [doc EXCEPT !.scopes = scopes]
<1>2. /\ Shape(d) /\ d.evidence = doc.evidence /\ d.decisions = doc.decisions
      /\ d.corrections = doc.corrections
  BY DEF Shape
<1>3. Commit(d, {})
  BY <1>1
<1> HIDE DEF d
<1>4. QED
  BY <1>2, <1>3 DEF Candidate

LEMMA AddEvidenceCandidate ==
  ASSUME Shape(doc), NEW e, AddEvidence(e)
  PROVE  \E d : Candidate(d, {}, {})
<1>1. PICK record : Commit([doc EXCEPT !.evidence = Set(@, e, record)], {})
  BY DEF AddEvidence
<1> DEFINE d == [doc EXCEPT !.evidence = Set(@, e, record)]
<1>2. /\ Shape(d) /\ d.evidence = Set(doc.evidence, e, record) /\ d.decisions = doc.decisions
      /\ d.corrections = doc.corrections
  BY DEF Shape
<1>3. Commit(d, {}) /\ e \notin Ids(doc.evidence)
  BY <1>1 DEF AddEvidence
<1> HIDE DEF d
<1>4. QED
  BY <1>2, <1>3, SetFacts DEF Candidate

LEMMA AddDecisionCandidate ==
  ASSUME Shape(doc), NEW x, AddDecision(x)
  PROVE  \E d : Candidate(d, {}, {})
<1>1. PICK T : Commit([doc EXCEPT !.decisions = Set(@, x, T)], {})
  BY DEF AddDecision
<1> DEFINE d == [doc EXCEPT !.decisions = Set(@, x, T)]
<1>2. /\ Shape(d) /\ d.evidence = doc.evidence /\ d.decisions = Set(doc.decisions, x, T)
      /\ d.corrections = doc.corrections
  BY DEF Shape
<1>3. Commit(d, {}) /\ x \notin Ids(doc.decisions) /\ x \notin ArchivedIds("decisions")
  BY <1>1 DEF AddDecision
<1> HIDE DEF d
<1>4. QED
  BY <1>2, <1>3, SetFacts DEF Candidate

LEMMA AddCorrectionCandidate ==
  ASSUME Shape(doc), NEW c, AddCorrection(c)
  PROVE  \E d : Candidate(d, {}, {})
<1>1. PICK record : Commit([doc EXCEPT !.corrections = Set(@, c, record)], {})
  BY DEF AddCorrection
<1> DEFINE d == [doc EXCEPT !.corrections = Set(@, c, record)]
<1>2. /\ Shape(d) /\ d.evidence = doc.evidence /\ d.decisions = doc.decisions
      /\ d.corrections = Set(doc.corrections, c, record)
  BY DEF Shape
<1>3. Commit(d, {}) /\ c \notin Ids(doc.corrections)
  BY <1>1 DEF AddCorrection
<1> HIDE DEF d
<1>4. QED
  BY <1>2, <1>3, SetFacts DEF Candidate

LEMMA SetProjectCandidate ==
  ASSUME Shape(doc), SetProject
  PROVE  \E d : Candidate(d, {}, {})
<1>1. PICK current, complete : Commit([doc EXCEPT !.current = current, !.complete = complete], {})
  BY DEF SetProject
<1> DEFINE d == [doc EXCEPT !.current = current, !.complete = complete]
<1>2. /\ Shape(d) /\ d.evidence = doc.evidence /\ d.decisions = doc.decisions
      /\ d.corrections = doc.corrections
  BY DEF Shape
<1>3. Commit(d, {})
  BY <1>1
<1> HIDE DEF d
<1>4. QED
  BY <1>2, <1>3 DEF Candidate

LEMMA ArchiveDecisionsCandidate ==
  ASSUME Shape(doc), ArchiveDecisions
  PROVE  \E d, records : Candidate(d, records, {})
<1>1. PICK X : Commit([doc EXCEPT !.decisions = Without(@, X)], Record("decisions", X, doc.decisions))
  BY DEF ArchiveDecisions
<1> DEFINE d == [doc EXCEPT !.decisions = Without(@, X)]
           records == Record("decisions", X, doc.decisions)
<1>2. /\ Shape(d) /\ d.evidence = doc.evidence /\ d.decisions = Without(doc.decisions, X)
      /\ d.corrections = doc.corrections
  BY DEF Shape
<1>3. Commit(d, records)
  BY <1>1
<1>4. /\ \A r \in records : r.collection = "decisions" /\ r.id \in X
      /\ \A x \in X : Record("decisions", {x}, doc.decisions) \subseteq records
  BY DEF Record
<1> HIDE DEF d, records
<1>5. Candidate(d, records, {})
  BY <1>2, <1>3, <1>4, WithoutFacts DEF Candidate
<1>6. QED
  BY <1>5

LEMMA PruneCandidate ==
  ASSUME Shape(doc), Prune
  PROVE  \E d, T : Candidate(d, {}, T)
<1>1. PICK T \in SUBSET Ids(doc.tasks) : Commit(Less(doc, Pruned(T)), {})
  BY DEF Prune
<1> DEFINE d == Less(doc, Pruned(T))
<1>2. /\ Pruned(T).tasks = T /\ Pruned(T).corrections = {}
      /\ \A e \in Pruned(T).evidence : doc.evidence[e].task \in T
      /\ \A x \in Pruned(T).decisions : doc.decisions[x] \cap T # {}
  BY DEF Pruned
<1>3. /\ Shape(d) /\ d.tasks = Without(doc.tasks, Pruned(T).tasks)
      /\ d.evidence = Without(doc.evidence, Pruned(T).evidence)
      /\ d.decisions = Without(doc.decisions, Pruned(T).decisions)
      /\ d.corrections = Without(doc.corrections, Pruned(T).corrections)
  BY LessFields
<1>4. Commit(d, {})
  BY <1>1
<1> HIDE DEF d
<1>5. /\ Ids(d.tasks) = Ids(doc.tasks) \ T
      /\ \A e \in Ids(doc.evidence) :
           doc.evidence[e].task \in T \/ (e \in Ids(d.evidence) /\ d.evidence[e] = doc.evidence[e])
      /\ Ids(d.decisions) \subseteq Ids(doc.decisions)
      /\ \A x \in Ids(doc.decisions) : 
           doc.decisions[x] \cap T # {} \/ (x \in Ids(d.decisions) /\ d.decisions[x] = doc.decisions[x])
      /\ \A c \in Ids(doc.corrections) :
           c \in Ids(d.corrections) /\ d.corrections[c] = doc.corrections[c]
  BY <1>2, <1>3, WithoutFacts
<1>6. Candidate(d, {}, T)
  BY <1>3, <1>4, <1>5 DEF Candidate
<1>7. QED
  BY <1>6

LEMMA NextCandidate ==
  ASSUME Shape(doc), Next
  PROVE  \E d, records, T : Candidate(d, records, T)
<1>1. CASE Compact
  <2>1. Candidate(doc, {}, {})
    BY <1>1 DEF Compact, Candidate
  <2>2. QED
    BY <2>1
<1>2. QED
  BY <1>1, UpsertTaskCandidate, UpsertBlockerCandidate, SetScopesCandidate, AddEvidenceCandidate,
     AddDecisionCandidate, AddCorrectionCandidate, SetProjectCandidate,
     ArchiveDecisionsCandidate, PruneCandidate DEF Next

\* No id of a decision in the document comes to be in the archive, or the reverse.
LEMMA ApartStep ==
  ASSUME NEW d, NEW records, NEW T, Candidate(d, records, T), DecisionIdsAreForever
  PROVE  DecisionIdsAreForever'
<1> SUFFICES ASSUME NEW x \in Ids(doc'.decisions), NEW r \in archive',
                    r.collection = "decisions", r.id = x
             PROVE  FALSE
  BY DEF DecisionIdsAreForever, ArchivedIds
<1>1. x \in Ids(d.decisions)
  BY CommitInstalls DEF SubDoc, Candidate
<1>2. r \notin archive
  BY <1>1 DEF ArchivedIds, Candidate, DecisionIdsAreForever
<1>3. r \notin records
  BY <1>1 DEF Candidate
<1>4. r \in Records(d, Moved(d)) /\ doc' = Less(d, Moved(d))
  BY <1>2, <1>3, CommitInstalls DEF Candidate
<1>5. r.id \in Moved(d).decisions
  BY <1>4 DEF Records, Record
<1>6. QED
  BY <1>4, <1>5, LessFields, WithoutFacts DEF Candidate

\* A decision id denotes one decision in the document and its archive together
\* (_apply_progress_patch looks in both; archival takes it out of the document).
THEOREM DecisionsForever == Spec => []DecisionIdsAreForever
<1>1. Init => DecisionIdsAreForever
  BY DEF Init, DecisionIdsAreForever, Ids
<1>2. IInv /\ DecisionIdsAreForever /\ [Next]_vars => DecisionIdsAreForever'
  <2>1. CASE UNCHANGED vars
    BY <2>1 DEF vars, DecisionIdsAreForever, ArchivedIds
  <2>2. QED
    BY <2>1, NextCandidate, ApartStep DEF IInv
<1>3. QED
  BY <1>1, <1>2, Inductive, PTL DEF Spec

\* A correction moves to the archive only together with the evidence it is about.
LEMMA AboutMoves ==
  ASSUME NEW d, NEW c \in Moved(d).corrections, d.corrections[c].type = "evidence",
         d.corrections[c].target \in Ids(d.evidence)
  PROVE  d.corrections[c].target \in Moved(d).evidence
<1>1. c \in Ids(d.corrections) /\ CorrectionTasks(d)[c] \subseteq Cold(d)
  BY DEF Moved
<1>2. c \in Annotated(d, c)
  BY <1>1 DEF Annotated
<1>3. d.evidence[d.corrections[c].target].task \in OwnTasks(d, d.corrections[c])
  BY DEF OwnTasks
<1>4. OwnTasks(d, d.corrections[c]) \subseteq CorrectionTasks(d)[c]
  BY <1>1, <1>2 DEF CorrectionTasks
<1>5. QED
  BY <1>1, <1>3, <1>4 DEF Moved

\* So evidence that stays keeps the correction that withdrew it.
LEMMA WithdrawnStep ==
  ASSUME NEW d, NEW records, NEW T, Candidate(d, records, T)
  PROVE  StaysWithdrawn
<1> SUFFICES ASSUME NEW y \in Withdrawn(doc), y \in Ids(doc'.evidence)
             PROVE  y \in Withdrawn(doc')
  BY DEF StaysWithdrawn
<1>1. PICK c \in Ids(doc.corrections) :
        /\ doc.corrections[c].type = "evidence" /\ doc.corrections[c].target = y
        /\ doc.corrections[c].kind \in {"revocation", "supersession"}
  BY DEF Withdrawn
<1>2. c \in Ids(d.corrections) /\ d.corrections[c] = doc.corrections[c]
  BY DEF Candidate
<1>3. SubDoc(doc', d)
  BY CommitInstalls DEF Candidate
<1>4. c \in Ids(doc'.corrections)
  <2>1. CASE doc' = d
    BY <2>1, <1>2
  <2>2. CASE doc' = Less(d, Moved(d))
    <3>1. y \in Ids(d.evidence) /\ y \notin Moved(d).evidence
      BY <2>2, <1>3, LessFields, WithoutFacts DEF SubDoc, Candidate
    <3>2. c \notin Moved(d).corrections
      BY <3>1, <1>1, <1>2, AboutMoves
    <3>3. QED
      BY <2>2, <3>2, <1>2, LessFields, WithoutFacts DEF Candidate
  <2>3. QED
    BY <2>1, <2>2, CommitInstalls DEF Candidate
<1>5. doc'.corrections[c] = doc.corrections[c]
  BY <1>2, <1>3, <1>4 DEF SubDoc
<1>6. QED
  BY <1>1, <1>4, <1>5 DEF Withdrawn

\* Evidence once revoked or superseded stays so for as long as it is in the
\* document, over every prune and archival.
THEOREM Withdrawal == Spec => WithdrawnForGood
<1>1. IInv /\ [Next]_vars => [StaysWithdrawn]_vars
  BY NextCandidate, WithdrawnStep DEF IInv
<1>2. QED
  BY <1>1, Inductive, PTL DEF Spec, WithdrawnForGood

\* What a committed candidate loses to the archive is there verbatim.
LEMMA MovedIsKept ==
  ASSUME NEW d, NEW records, Shape(d), Commit(d, records)
  PROVE  /\ \A e \in Ids(d.evidence) \ Ids(doc'.evidence) : Kept("evidence", e, d.evidence[e])
         /\ \A x \in Ids(d.decisions) \ Ids(doc'.decisions) : Kept("decisions", x, d.decisions[x])
         /\ \A c \in Ids(d.corrections) \ Ids(doc'.corrections) :
              Kept("corrections", c, d.corrections[c])
<1>1. CASE doc' = d
  BY <1>1
<1>2. CASE doc' = Less(d, Moved(d)) /\ archive' = archive \cup records \cup Records(d, Moved(d))
  <2>1. /\ Ids(d.evidence) \ Ids(doc'.evidence) \subseteq Moved(d).evidence
        /\ Ids(d.decisions) \ Ids(doc'.decisions) \subseteq Moved(d).decisions
        /\ Ids(d.corrections) \ Ids(doc'.corrections) \subseteq Moved(d).corrections
    BY <1>2, LessFields, WithoutFacts
  <2>2. QED
    BY <1>2, <2>1 DEF Kept, Records, Record
<1>3. QED
  BY <1>1, <1>2, CommitInstalls

\* What leaves before the commit was pruned with its task or put on record.
LEMMA KeptStep ==
  ASSUME NEW d, NEW records, NEW T, Candidate(d, records, T)
  PROVE  KeptOrPruned
<1> DEFINE pruned == {t \in Ids(doc.tasks) \ Ids(doc'.tasks) :
                        Record("tasks", {t}, doc.tasks) \cap (archive' \ archive) = {}}
<1>0. Shape(d) /\ Commit(d, records)
  BY DEF Candidate
<1>1. T \subseteq pruned
  <2> SUFFICES ASSUME NEW t \in T, NEW r \in archive' \ archive, r \in Record("tasks", {t}, doc.tasks)
               PROVE  FALSE
    BY <1>0, CommitInstalls DEF Candidate, SubDoc
  <2>1. r.collection = "tasks" /\ r.id = t
    BY DEF Record
  <2>2. r \notin records
    BY <2>1 DEF Candidate
  <2>3. r \in Records(d, Moved(d))
    BY <2>2, <1>0, CommitInstalls
  <2>4. t \in Cold(d)
    BY <2>1, <2>3 DEF Records, Record, Moved
  <2>5. t \in Ids(d.tasks)
    BY <2>4 DEF Cold
  <2>6. QED
    BY <2>5 DEF Candidate
<1>2. ASSUME NEW e \in Ids(doc.evidence) \ Ids(doc'.evidence)
      PROVE  Kept("evidence", e, doc.evidence[e]) \/ doc.evidence[e].task \in pruned
  BY <1>0, <1>1, MovedIsKept DEF Candidate
<1>3. ASSUME NEW x \in Ids(doc.decisions) \ Ids(doc'.decisions)
      PROVE  Kept("decisions", x, doc.decisions[x]) \/ doc.decisions[x] \cap pruned # {}
  <2>1. CASE Record("decisions", {x}, doc.decisions) \subseteq records
    BY <2>1, <1>0, CommitInstalls DEF Kept, Record
  <2>2. CASE x \in Ids(d.decisions) /\ d.decisions[x] = doc.decisions[x]
    BY <2>2, <1>0, MovedIsKept
  <2>3. QED
    BY <2>1, <2>2, <1>1 DEF Candidate
<1>4. ASSUME NEW c \in Ids(doc.corrections) \ Ids(doc'.corrections)
      PROVE  Kept("corrections", c, doc.corrections[c])
  BY <1>0, MovedIsKept DEF Candidate
<1>5. QED
  BY <1>2, <1>3, <1>4 DEF KeptOrPruned

\* Evidence and decisions leave a document for its archive, verbatim, or with a task
\* that was pruned; corrections only for the archive.
THEOREM NothingLost == Spec => NothingVanishes
<1>1. IInv /\ [Next]_vars => [KeptOrPruned]_vars
  BY NextCandidate, KeptStep DEF IInv
<1>2. QED
  BY <1>1, Inductive, PTL DEF Spec, NothingVanishes

-----------------------------------------------------------------------------
(* Archival leaves a valid document valid. *)

\* What is cold is a set of finished tasks that nothing outside it refers to.
LEMMA ColdIsFinished ==
  ASSUME NEW d
  PROVE  /\ Cold(d) \subseteq Ids(d.tasks) /\ d.current \notin Cold(d)
  BY DEF Cold

\* The union of sets that nothing outside refers to is one itself.
LEMMA ColdIsClosed ==
  ASSUME NEW d
  PROVE  /\ \A t \in Ids(d.tasks) \ Cold(d) : d.tasks[t].deps \cap Cold(d) = {}
         /\ \A b \in Ids(d.scopes) :
              d.blockers[b].open /\ d.blockers[b].task \notin Cold(d) => d.scopes[b] \cap Cold(d) = {}
         /\ \A S \in BoundSets(d) : ~(S \subseteq Cold(d)) => S \cap Cold(d) = {}
<1>1. ASSUME NEW z \in Cold(d)
      PROVE  \E C : C \subseteq Cold(d) /\ z \in C /\ Drop(d, C) = {}
  BY DEF Cold
<1>2. ASSUME NEW t \in Ids(d.tasks) \ Cold(d), NEW z \in d.tasks[t].deps \cap Cold(d)
      PROVE  FALSE
  <2>1. PICK C : C \subseteq Cold(d) /\ z \in C /\ Drop(d, C) = {}
    BY <1>1, <1>2
  <2>2. z \in UNION {d.tasks[u].deps \cap C : u \in Ids(d.tasks) \ C}
    BY <1>2, <2>1
  <2>3. QED
    BY <2>1, <2>2 DEF Drop
<1>3. ASSUME NEW b \in Ids(d.scopes), d.blockers[b].open, d.blockers[b].task \notin Cold(d),
             NEW z \in d.scopes[b] \cap Cold(d)
      PROVE  FALSE
  <2>1. PICK C : C \subseteq Cold(d) /\ z \in C /\ Drop(d, C) = {}
    BY <1>1, <1>3
  <2>2. z \in UNION {d.scopes[x] \cap C : x \in {y \in Ids(d.scopes) :
                       d.blockers[y].open /\ d.blockers[y].task \notin C}}
    BY <1>3, <2>1
  <2>3. QED
    BY <2>1, <2>2 DEF Drop
<1>4. ASSUME NEW S \in BoundSets(d), ~(S \subseteq Cold(d)), NEW z \in S \cap Cold(d)
      PROVE  FALSE
  <2>1. PICK C : C \subseteq Cold(d) /\ z \in C /\ Drop(d, C) = {}
    BY <1>1, <1>4
  <2>2. z \in UNION {X \cap C : X \in {x \in BoundSets(d) : x \ C # {}}}
    BY <1>4, <2>1
  <2>3. QED
    BY <2>1, <2>2 DEF Drop
<1>5. QED
  BY <1>2, <1>3, <1>4

\* A correction that stays is about records that stay.
LEMMA BoundTogether ==
  ASSUME NEW d, NEW c \in Ids(d.corrections), c \notin Moved(d).corrections
  PROVE  /\ CorrectionTasks(d)[c] \cap Cold(d) = {}
         /\ OwnTasks(d, d.corrections[c]) \cap Cold(d) = {}
         /\ d.corrections[c].type = "correction" /\ d.corrections[c].target \in Ids(d.corrections)
              => d.corrections[c].target \notin Moved(d).corrections
<1>1. CorrectionTasks(d)[c] \in BoundSets(d)
  BY DEF BoundSets, CorrectionTasks, Range
<1>2. CorrectionTasks(d)[c] \cap Cold(d) = {}
  BY <1>1, ColdIsClosed DEF Moved
<1>3. OwnTasks(d, d.corrections[c]) \subseteq CorrectionTasks(d)[c]
  <2>1. c \in Annotated(d, c)
    BY DEF Annotated
  <2>2. QED
    BY <2>1 DEF CorrectionTasks
<1>4. ASSUME d.corrections[c].type = "correction", d.corrections[c].target \in Ids(d.corrections)
      PROVE  d.corrections[c].target \notin Moved(d).corrections
  <2> DEFINE y == d.corrections[c].target
  <2>1. Annotated(d, y) \subseteq Annotated(d, c)
    BY <1>4 DEF Annotated
  <2>2. CorrectionTasks(d)[y] \subseteq CorrectionTasks(d)[c]
    BY <1>4, <2>1 DEF CorrectionTasks
  <2>3. QED
    BY <1>2, <2>2 DEF Moved
<1>5. QED
  BY <1>2, <1>3, <1>4

\* What archival leaves of each collection.
LEMMA LeftFields ==
  ASSUME NEW d, Shape(d)
  PROVE  LET c == Less(d, Moved(d))
         IN  /\ SubDoc(c, d)
             /\ Ids(c.tasks) = Ids(d.tasks) \ Cold(d)
             /\ Ids(c.blockers) = {b \in Ids(d.blockers) :
                  d.blockers[b].open /\ d.blockers[b].task \notin Cold(d)}
             /\ Ids(c.scopes) = Ids(d.scopes) \ Moved(d).blockers
             /\ Ids(c.evidence) = {e \in Ids(d.evidence) : d.evidence[e].task \notin Cold(d)}
             /\ Ids(c.decisions) = Ids(d.decisions) \ Moved(d).decisions
             /\ Ids(c.corrections) = Ids(d.corrections) \ Moved(d).corrections
<1> DEFINE m == Moved(d)
           c == Less(d, m)
<1>1. /\ Ids(c.tasks) = Ids(d.tasks) \ m.tasks /\ Ids(c.blockers) = Ids(d.blockers) \ m.blockers
      /\ Ids(c.scopes) = Ids(d.scopes) \ m.blockers /\ Ids(c.evidence) = Ids(d.evidence) \ m.evidence
      /\ Ids(c.decisions) = Ids(d.decisions) \ m.decisions
      /\ Ids(c.corrections) = Ids(d.corrections) \ m.corrections
  BY LessFields, WithoutFacts
<1>2. /\ m.tasks = Cold(d) /\ m.evidence = {e \in Ids(d.evidence) : d.evidence[e].task \in Cold(d)}
      /\ m.blockers = {b \in Ids(d.blockers) : ~d.blockers[b].open \/ d.blockers[b].task \in Cold(d)}
  BY DEF Moved
<1>3. SubDoc(c, d)
  BY LessIsSub
<1> HIDE DEF m, c
<1>4. Ids(c.blockers) = {b \in Ids(d.blockers) : d.blockers[b].open /\ d.blockers[b].task \notin Cold(d)}
  BY <1>1, <1>2
<1>5. Ids(c.evidence) = {e \in Ids(d.evidence) : d.evidence[e].task \notin Cold(d)}
  BY <1>1, <1>2
<1>6. QED
  BY <1>1, <1>2, <1>3, <1>4, <1>5 DEF m, c

\* What it leaves satisfies each part of the contract: nothing that stays depends
\* on, is scoped to, decides about or corrects something that leaves.
LEMMA LeftTasks ==
  ASSUME NEW d, Shape(d), TasksValid(d)
  PROVE  TasksValid(Less(d, Moved(d)))
<1> DEFINE c == Less(d, Moved(d))
<1>1. /\ Ids(c.tasks) = Ids(d.tasks) \ Cold(d) /\ c.current = d.current
      /\ \A t \in Ids(c.tasks) : c.tasks[t] = d.tasks[t]
  BY LeftFields DEF SubDoc
<1> HIDE DEF c
<1>2. c.current \in Ids(c.tasks) \cup {None}
  BY <1>1, ColdIsFinished DEF TasksValid
<1>3. ASSUME NEW t \in Ids(c.tasks)
      PROVE  /\ c.tasks[t].deps \subseteq Ids(c.tasks)
             /\ c.tasks[t].status \in {"doing", "done"} =>
                  \A u \in c.tasks[t].deps : c.tasks[u].status = "done"
  <2>1. c.tasks[t].deps \subseteq Ids(c.tasks)
    BY <1>1, ColdIsClosed DEF TasksValid
  <2>2. QED
    BY <1>1, <2>1 DEF TasksValid
<1>4. Acyclic(c)
  <2> SUFFICES ASSUME NEW S \in (SUBSET Ids(c.tasks)) \ {{}}
               PROVE  \E t \in S : c.tasks[t].deps \cap S = {}
    BY DEF Acyclic
  <2>1. S \in (SUBSET Ids(d.tasks)) \ {{}}
    BY <1>1
  <2>2. PICK t \in S : d.tasks[t].deps \cap S = {}
    BY <2>1 DEF TasksValid, Acyclic
  <2>3. QED
    BY <2>2, <1>1
<1>5. QED
  BY <1>2, <1>3, <1>4 DEF TasksValid, c

LEMMA LeftBlockers ==
  ASSUME NEW d, Shape(d), BlockersValid(d)
  PROVE  BlockersValid(Less(d, Moved(d)))
<1> DEFINE c == Less(d, Moved(d))
<1>1. /\ Ids(c.tasks) = Ids(d.tasks) \ Cold(d)
      /\ Ids(c.blockers) = {b \in Ids(d.blockers) : d.blockers[b].open /\ d.blockers[b].task \notin Cold(d)}
      /\ \A b \in Ids(c.blockers) : c.blockers[b] = d.blockers[b]
      /\ \A b \in Ids(c.scopes) : c.scopes[b] = d.scopes[b] /\ b \in Ids(d.scopes)
  BY LeftFields DEF SubDoc
<1>2. Ids(c.scopes) \subseteq Ids(c.blockers)
  BY LessIsSub, LessFields, WithoutFacts DEF BlockersValid
<1> HIDE DEF c
<1>3. \A b \in Ids(c.scopes) : d.scopes[b] \cap Cold(d) = {}
  BY <1>1, <1>2, ColdIsClosed
<1>4. \A b \in Ids(c.scopes) : d.scopes[b] \subseteq Ids(d.tasks) \cup {"project"}
  BY <1>1 DEF BlockersValid
<1>5. \A b \in Ids(c.scopes) : c.scopes[b] \subseteq Ids(c.tasks) \cup {"project"}
  BY <1>1, <1>3, <1>4
<1>6. \A b \in Ids(c.scopes) : c.scopes[b] \cap {"project", c.blockers[b].task} # {}
  BY <1>1, <1>2 DEF BlockersValid
<1>7. \A b \in Ids(c.blockers) : c.blockers[b].task \in Ids(c.tasks)
  BY <1>1 DEF BlockersValid
<1>8. QED
  BY <1>2, <1>5, <1>6, <1>7 DEF BlockersValid, c

LEMMA LeftEvidence ==
  ASSUME NEW d, Shape(d), EvidenceValid(d)
  PROVE  EvidenceValid(Less(d, Moved(d)))
  BY LeftFields DEF SubDoc, EvidenceValid

LEMMA LeftDecisions ==
  ASSUME NEW d, Shape(d), DecisionsValid(d)
  PROVE  DecisionsValid(Less(d, Moved(d)))
<1> DEFINE c == Less(d, Moved(d))
<1>1. /\ Ids(c.tasks) = Ids(d.tasks) \ Cold(d)
      /\ Ids(c.decisions) = Ids(d.decisions) \ Moved(d).decisions
      /\ \A x \in Ids(c.decisions) : c.decisions[x] = d.decisions[x]
  BY LeftFields DEF SubDoc
<1> HIDE DEF c
<1>2. ASSUME NEW x \in Ids(c.decisions)
      PROVE  c.decisions[x] \subseteq Ids(c.tasks)
  <2>1. d.decisions[x] \in BoundSets(d)
    BY <1>1 DEF BoundSets, Range, Ids
  <2>2. d.decisions[x] = {} \/ ~(d.decisions[x] \subseteq Cold(d))
    BY <1>1 DEF Moved
  <2>3. d.decisions[x] \cap Cold(d) = {}
    BY <2>1, <2>2, ColdIsClosed
  <2>4. QED
    BY <1>1, <2>3 DEF DecisionsValid
<1>3. QED
  BY <1>2 DEF DecisionsValid, c

LEMMA LeftCorrections ==
  ASSUME NEW d, Shape(d), Typed(d), CorrectionsValid(d)
  PROVE  CorrectionsValid(Less(d, Moved(d)))
<1> DEFINE c == Less(d, Moved(d))
           By(doc0, e) == {doc0.corrections[x].replacement :
                            x \in {y \in Supersessions(doc0) : doc0.corrections[y].target = e}}
<1>1. /\ Ids(c.evidence) = {e \in Ids(d.evidence) : d.evidence[e].task \notin Cold(d)}
      /\ Ids(c.decisions) = Ids(d.decisions) \ Moved(d).decisions
      /\ Ids(c.corrections) = Ids(d.corrections) \ Moved(d).corrections
      /\ \A e \in Ids(c.evidence) : c.evidence[e] = d.evidence[e]
      /\ \A x \in Ids(c.decisions) : c.decisions[x] = d.decisions[x]
      /\ \A x \in Ids(c.corrections) : c.corrections[x] = d.corrections[x]
  BY LeftFields DEF SubDoc
<1> HIDE DEF c
<1>2. ASSUME NEW x \in Ids(c.corrections)
      PROVE  /\ c.corrections[x].target \in TargetIds(c, c.corrections[x].type)
             /\ c.corrections[x].sha = Target(c, c.corrections[x])
             /\ c.corrections[x].type = "correction" => c.corrections[x].kind = "correction"
             /\ c.corrections[x].kind = "supersession" =>
                  c.corrections[x].type = "evidence" /\ c.corrections[x].replacement \in Ids(c.evidence)
  <2> DEFINE r == d.corrections[x]
  <2>1. x \in Ids(d.corrections) /\ x \notin Moved(d).corrections /\ c.corrections[x] = r
    BY <1>1
  <2>2. OwnTasks(d, r) \cap Cold(d) = {}
    BY <2>1, BoundTogether
  <2>3. /\ r.target \in TargetIds(d, r.type) /\ r.sha = Target(d, r)
        /\ r.type = "correction" => r.kind = "correction"
        /\ r.kind = "supersession" => r.type = "evidence" /\ r.replacement \in Ids(d.evidence)
    BY <2>1 DEF CorrectionsValid
  <2> HIDE DEF r
  <2>4. r.kind = "supersession" => r.replacement \in Ids(c.evidence)
    <3> SUFFICES ASSUME r.kind = "supersession" PROVE r.replacement \in Ids(c.evidence)
      OBVIOUS
    <3>1. r.replacement \in Ids(d.evidence) /\ r.replacement # None
      BY <2>3, NoneAssumption DEF Typed
    <3>2. d.evidence[r.replacement].task \in OwnTasks(d, r)
      BY <3>1 DEF OwnTasks
    <3>3. QED
      BY <1>1, <2>2, <3>1, <3>2
  <2>5. r.target \in TargetIds(c, r.type) /\ r.sha = Target(c, r)
    <3>1. CASE r.type = "evidence"
      <4>1. r.target \in Ids(d.evidence) /\ r.sha = d.evidence[r.target]
        BY <3>1, <2>3 DEF TargetIds, Target
      <4>2. d.evidence[r.target].task \in OwnTasks(d, r)
        BY <3>1 DEF OwnTasks
      <4>3. QED
        BY <1>1, <2>2, <3>1, <4>1, <4>2 DEF TargetIds, Target
    <3>2. CASE r.type = "decision"
      <4>1. r.target \in Ids(d.decisions) /\ r.sha = d.decisions[r.target]
        BY <3>2, <2>3 DEF TargetIds, Target
      <4>2. d.decisions[r.target] \subseteq OwnTasks(d, r)
        BY <3>2 DEF OwnTasks
      <4>3. r.target \notin Moved(d).decisions
        BY <2>2, <4>2 DEF Moved
      <4>4. QED
        BY <1>1, <3>2, <4>1, <4>3 DEF TargetIds, Target
    <3>3. CASE r.type = "correction"
      <4>1. r.target \in Ids(d.corrections) /\ r.sha = d.corrections[r.target]
        BY <3>3, <2>3 DEF TargetIds, Target
      <4>2. r.target \notin Moved(d).corrections
        BY <2>1, <3>3, <4>1, BoundTogether DEF r
      <4>3. QED
        BY <1>1, <3>3, <4>1, <4>2 DEF TargetIds, Target
    <3>4. r.type \in Types
      BY <2>1 DEF Typed, r
    <3>5. QED
      BY <3>1, <3>2, <3>3, <3>4 DEF Types
  <2>6. QED
    BY <2>1, <2>3, <2>4, <2>5
<1>3. \A e : By(c, e) \subseteq By(d, e)
  BY <1>1 DEF Supersessions
<1>4. \A e \in Ids(d.evidence) : \A x, y \in By(d, e) : x = y
  BY DEF CorrectionsValid
<1>5. ASSUME NEW S \in (SUBSET Ids(d.evidence)) \ {{}}
      PROVE  \E e \in S : By(d, e) \cap S = {}
  BY DEF CorrectionsValid
<1> HIDE DEF By
<1>6. \A e \in Ids(c.evidence) : \A x, y \in By(c, e) : x = y
  BY <1>1, <1>3, <1>4
<1>7. ASSUME NEW S \in (SUBSET Ids(c.evidence)) \ {{}}
      PROVE  \E e \in S : By(c, e) \cap S = {}
  <2>1. S \in (SUBSET Ids(d.evidence)) \ {{}}
    BY <1>1
  <2>2. PICK e \in S : By(d, e) \cap S = {}
    BY <1>5, <2>1
  <2>3. QED
    BY <1>3, <2>2
<1>8. CorrectionsValid(c)
  BY <1>2, <1>6, <1>7 DEF CorrectionsValid, By
<1>9. QED
  BY <1>8 DEF c

\* A task that stays keeps its evidence and meets no new blocker, but it may lose
\* the blocker it is blocked by.
LEMMA LeftGate ==
  ASSUME NEW d, Shape(d), GateValid(d), BlockersValid(d)
  PROVE  LET c == Less(d, Moved(d))
         IN  \/ GateValid(c)
             \/ \E t \in Ids(c.tasks) : c.tasks[t].status = "blocked" /\ ~Blocked(c, t)
<1> DEFINE c == Less(d, Moved(d))
<1>1. /\ Ids(c.tasks) = Ids(d.tasks) \ Cold(d)
      /\ Ids(c.evidence) = {e \in Ids(d.evidence) : d.evidence[e].task \notin Cold(d)}
      /\ Ids(c.blockers) \subseteq Ids(d.blockers) /\ Ids(c.corrections) \subseteq Ids(d.corrections)
      /\ \A t \in Ids(c.tasks) : c.tasks[t] = d.tasks[t]
      /\ \A e \in Ids(c.evidence) : c.evidence[e] = d.evidence[e]
      /\ \A b \in Ids(c.blockers) : c.blockers[b] = d.blockers[b]
      /\ \A b \in Ids(c.scopes) : c.scopes[b] = d.scopes[b]
      /\ \A x \in Ids(c.corrections) : c.corrections[x] = d.corrections[x]
  BY LeftFields DEF SubDoc
<1>2. \A b \in Ids(c.blockers) : b \in Ids(c.scopes) <=> b \in Ids(d.scopes)
  BY LessFields, WithoutFacts
<1> HIDE DEF c
<1>3. \A t : Blocked(c, t) => Blocked(d, t)
  BY <1>1, <1>2 DEF Blocked, Blocks
<1>4. Withdrawn(c) \subseteq Withdrawn(d)
  BY <1>1 DEF Withdrawn
<1>5. ASSUME NEW t \in Ids(c.tasks), NEW a \in Covered(d, t)
      PROVE  a \in Covered(c, t)
  <2>1. PICK e \in LiveEvidence(d) :
          /\ d.evidence[e].task = t /\ d.evidence[e].pass /\ a \in d.evidence[e].acc
          /\ d.evidence[e].gen = d.tasks[t].gen
    BY <1>5 DEF Covered
  <2>2. e \in Ids(c.evidence)
    BY <1>1, <2>1 DEF LiveEvidence
  <2>3. e \in LiveEvidence(c)
    BY <1>4, <2>1, <2>2 DEF LiveEvidence
  <2>4. QED
    BY <1>1, <2>1, <2>2, <2>3 DEF Covered
<1>6. ASSUME NEW t \in Ids(c.tasks), c.tasks[t].status = "done"
      PROVE  ~Blocked(c, t) /\ c.tasks[t].acc # {} /\ c.tasks[t].acc \subseteq Covered(c, t)
  <2>1. ~Blocked(d, t) /\ d.tasks[t].acc # {} /\ d.tasks[t].acc \subseteq Covered(d, t)
    BY <1>1, <1>6 DEF GateValid
  <2>2. QED
    BY <1>1, <1>3, <1>5, <2>1
<1>7. GateValid(c) \/ \E t \in Ids(c.tasks) : c.tasks[t].status = "blocked" /\ ~Blocked(c, t)
  BY <1>6 DEF GateValid
<1>8. QED
  BY <1>7 DEF c

\* Only the gate and the project can refuse, and only in the two ways known.
LEMMA RefusalsExplained == IInv => ArchivalRefusalsAreExplained
<1> SUFFICES ASSUME IInv PROVE ArchivalRefusalsAreExplained
  OBVIOUS
<1> DEFINE left == Less(doc, Moved(doc))
<1>1. Shape(doc) /\ Typed(doc) /\ Valid(doc)
  BY DEF IInv, TypeOK
<1>2. /\ TasksValid(left) /\ BlockersValid(left) /\ DecisionsValid(left) /\ EvidenceValid(left)
      /\ CorrectionsValid(left)
  BY <1>1, LeftTasks, LeftBlockers, LeftDecisions, LeftEvidence, LeftCorrections DEF Valid
<1>3. \/ GateValid(left)
      \/ \E t \in Ids(left.tasks) : left.tasks[t].status = "blocked" /\ ~Blocked(left, t)
  BY <1>1, LeftGate DEF Valid
<1>4. ProjectValid(left) \/ (doc.complete /\ Ids(left.tasks) = {})
  <2>1. SubDoc(left, doc)
    BY <1>1, LessIsSub
  <2>2. QED
    BY <1>1, <2>1 DEF Valid, ProjectValid, SubDoc
<1> HIDE DEF left
<1>5. QED
  BY <1>2, <1>3, <1>4, Zenon DEF Valid, ArchivalRefusalsAreExplained, left

\* Moving what is cold out of a committed document leaves it valid, unless the
\* project is complete and loses all its tasks or a blocked task its blocker
\* (plan_archive and the validation of what it leaves).
THEOREM ArchivalRefusals == Spec => []ArchivalRefusalsAreExplained
  BY RefusalsExplained, Inductive, PTL
=============================================================================
