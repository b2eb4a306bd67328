------------------------------ MODULE Progress ------------------------------
(***************************************************************************)
(* The progress contract of a v6 document: tasks with dependencies,        *)
(* acceptance conditions and generations, blockers with scopes, evidence,  *)
(* decisions, corrections, and the cold archive.  One action per kind of   *)
(* change; a change that leaves an invalid document is refused, which here *)
(* means that it is not enabled.  A patch is one record; a patch of several*)
(* is covered only where each record leaves a valid document behind, since *)
(* the code validates once, at the end.                                    *)
(*                                                                         *)
(* Every write may find its candidate at the size trigger and then archive *)
(* what is cold, in the same commit.                                       *)
(***************************************************************************)
EXTENDS Integers, Functions

CONSTANTS Tasks, Blockers, Evidence, Decisions, Corrections, \* record ids
          Conditions,  \* acceptance conditions
          MaxLife,     \* how often a task id is created or reopened (bound)
          None

ASSUME MaxLifeAssumption == MaxLife \in Nat \ {0}
ASSUME NoneAssumption == None \notin Tasks \cup Evidence

VARIABLES doc,      \* the resolved document
          archive,  \* the archived records
          life,     \* history: how often each task was created or reopened
          during    \* history: the life of its task each evidence was made in

vars == <<doc, archive, life, during>>

Status == {"todo", "doing", "blocked", "done", "cancelled"}
Final == {"done", "cancelled"}
Kinds == {"correction", "revocation", "supersession"}
Types == {"evidence", "decision", "correction"}

\* The ids of a collection that are in the document.
Ids(collection) == DOMAIN collection

Set(f, id, record) == [x \in DOMAIN f \cup {id} |-> IF x = id THEN record ELSE f[x]]
Without(f, ids) == Restrict(f, DOMAIN f \ ids)

-----------------------------------------------------------------------------
(* What a document says. *)

\* The record a correction is about.
Target(d, c) ==
  CASE c.type = "evidence"   -> d.evidence[c.target]
    [] c.type = "decision"   -> d.decisions[c.target]
    [] c.type = "correction" -> d.corrections[c.target]

TargetIds(d, type) ==
  CASE type = "evidence"   -> Ids(d.evidence)
    [] type = "decision"   -> Ids(d.decisions)
    [] type = "correction" -> Ids(d.corrections)

Withdrawn(d) ==
  {d.corrections[c].target : c \in {x \in Ids(d.corrections) :
     d.corrections[x].type = "evidence" /\ d.corrections[x].kind \in {"revocation", "supersession"}}}

LiveEvidence(d) == Ids(d.evidence) \ Withdrawn(d)

\* A blocker without a scope entry holds up the task it is declared for.
Blocks(d, b, t) ==
  /\ d.blockers[b].open
  /\ IF b \in Ids(d.scopes) THEN d.scopes[b] \cap {"project", t} # {} ELSE d.blockers[b].task = t

Blocked(d, t) == \E b \in Ids(d.blockers) : Blocks(d, b, t)

Covered(d, t) ==
  UNION {d.evidence[e].acc : e \in {x \in LiveEvidence(d) :
    d.evidence[x].task = t /\ d.evidence[x].pass /\ d.evidence[x].gen = d.tasks[t].gen}}

-----------------------------------------------------------------------------
(* Which documents are valid. *)

\* Every nonempty set of tasks has one that depends on no other of the set.
Acyclic(d) ==
  \A S \in (SUBSET Ids(d.tasks)) \ {{}} : \E t \in S : d.tasks[t].deps \cap S = {}

TasksValid(d) ==
  /\ d.current \in Ids(d.tasks) \cup {None}
  /\ \A t \in Ids(d.tasks) :
       /\ d.tasks[t].deps \subseteq Ids(d.tasks)
       /\ d.tasks[t].status \in {"doing", "done"} =>
            \A u \in d.tasks[t].deps : d.tasks[u].status = "done"
  /\ Acyclic(d)

BlockersValid(d) ==
  /\ Ids(d.scopes) \subseteq Ids(d.blockers)
  /\ \A b \in Ids(d.blockers) : d.blockers[b].task \in Ids(d.tasks)
  /\ \A b \in Ids(d.scopes) :
       /\ d.scopes[b] \subseteq Ids(d.tasks) \cup {"project"}
       /\ d.scopes[b] \cap {"project", d.blockers[b].task} # {}

EvidenceValid(d) ==
  \A e \in Ids(d.evidence) :
    LET r == d.evidence[e]
    IN  r.task \in Ids(d.tasks) /\ r.gen <= d.tasks[r.task].gen /\ r.acc \subseteq d.tasks[r.task].acc

Supersessions(d) == {c \in Ids(d.corrections) : d.corrections[c].kind = "supersession"}

\* A correction is bound to the exact bytes of its target, one record has one
\* replacement, and replacements do not run in circles.
CorrectionsValid(d) ==
  LET cs == d.corrections
      replacedBy(e) == {cs[c].replacement : c \in {x \in Supersessions(d) : cs[x].target = e}}
  IN  /\ \A c \in Ids(cs) :
           /\ cs[c].target \in TargetIds(d, cs[c].type) /\ cs[c].sha = Target(d, cs[c])
           /\ cs[c].type = "correction" => cs[c].kind = "correction"
           /\ cs[c].kind = "supersession" =>
                cs[c].type = "evidence" /\ cs[c].replacement \in Ids(d.evidence)
      /\ \A e \in Ids(d.evidence) : \A x, y \in replacedBy(e) : x = y
      /\ \A S \in (SUBSET Ids(d.evidence)) \ {{}} : \E e \in S : replacedBy(e) \cap S = {}

GateValid(d) ==
  \A t \in Ids(d.tasks) :
    /\ d.tasks[t].status = "blocked" => Blocked(d, t)
    /\ d.tasks[t].status = "done" =>
         ~Blocked(d, t) /\ d.tasks[t].acc # {} /\ d.tasks[t].acc \subseteq Covered(d, t)

DecisionsValid(d) == \A x \in Ids(d.decisions) : d.decisions[x] \subseteq Ids(d.tasks)

ProjectValid(d) ==
  d.complete => Ids(d.tasks) # {} /\ \A t \in Ids(d.tasks) : d.tasks[t].status \in Final

Valid(d) ==
  /\ TasksValid(d) /\ BlockersValid(d) /\ DecisionsValid(d) /\ EvidenceValid(d)
  /\ CorrectionsValid(d) /\ GateValid(d) /\ ProjectValid(d)

-----------------------------------------------------------------------------
(* The cold part of a document. *)

\* Mutant of OwnTasks: a correction belongs to its replacement only.
OwnTasksOfReplacement(d, c) ==
  IF c.kind = "supersession" THEN {d.evidence[c.replacement].task}
  ELSE IF c.type = "evidence" THEN {d.evidence[c.target].task}
  ELSE IF c.type = "decision" THEN d.decisions[c.target] ELSE {}

\* The tasks a correction names itself, through target and replacement.
OwnTasks(d, c) ==
  (CASE c.type = "evidence" -> {d.evidence[c.target].task}
     [] c.type = "decision" -> d.decisions[c.target]
     [] OTHER               -> {})
  \cup IF c.replacement = None THEN {} ELSE {d.evidence[c.replacement].task}

\* The corrections that one annotates, directly or through another, and itself.
Annotated(d, c) ==
  LET cs == d.corrections
      Closed(C) == \A x \in C : cs[x].type = "correction" => cs[x].target \in C
  IN  {y \in Ids(cs) : \A C \in SUBSET Ids(cs) : c \in C /\ Closed(C) => y \in C}

\* The tasks a correction is bound to, also through those it annotates.
CorrectionTasks(d) ==
  [c \in Ids(d.corrections) |->
     UNION {OwnTasks(d, d.corrections[x]) : x \in Annotated(d, c)}]

\* Sets of tasks that something in the document binds together.
BoundSets(d) == Range(d.decisions) \cup Range(CorrectionTasks(d))

\* Mutant of Drop: decisions and corrections do not hold anything.
DropDependenciesOnly(d, cold) == UNION {d.tasks[t].deps \cap cold : t \in Ids(d.tasks) \ cold}

\* Cold candidates that something hot still refers to.
Drop(d, cold) ==
  LET needed  == UNION {d.tasks[t].deps \cap cold : t \in Ids(d.tasks) \ cold}
      blocked == UNION {d.scopes[b] \cap cold : b \in {x \in Ids(d.scopes) :
                   d.blockers[x].open /\ d.blockers[x].task \notin cold}}
      bound   == UNION {S \cap cold : S \in {x \in BoundSets(d) : x \ cold # {}}}
  IN  needed \cup blocked \cup bound

\* plan_archive drops finished tasks until none has to stay, which leaves the
\* largest set of them that nothing outside it refers to.
Cold(d) ==
  LET finished == {t \in Ids(d.tasks) : d.tasks[t].status \in Final /\ t # d.current}
  IN  UNION {C \in (SUBSET finished) \ {{}} : Drop(d, C) = {}}

Moved(d) ==
  LET cold == Cold(d)
  IN  [tasks |-> cold,
       blockers |-> {b \in Ids(d.blockers) : ~d.blockers[b].open \/ d.blockers[b].task \in cold},
       evidence |-> {e \in Ids(d.evidence) : d.evidence[e].task \in cold},
       decisions |-> {x \in Ids(d.decisions) : d.decisions[x] # {} /\ d.decisions[x] \subseteq cold},
       corrections |-> LET bound == CorrectionTasks(d)
                       IN  {c \in Ids(d.corrections) : bound[c] # {} /\ bound[c] \subseteq cold}]

\* The document less some of its records; a scope entry goes with its blocker.
Less(d, m) ==
  [d EXCEPT !.tasks = Without(@, m.tasks),
            !.blockers = Without(@, m.blockers),
            !.scopes = Without(@, m.blockers),
            !.evidence = Without(@, m.evidence),
            !.decisions = Without(@, m.decisions),
            !.corrections = Without(@, m.corrections)]

Record(collection, ids, f) ==
  {[collection |-> collection, id |-> id, record |-> f[id]] : id \in ids}

\* Mutant of Records: corrections leave without a trace.
RecordsWithoutCorrections(d, m) ==
  Record("tasks", m.tasks, d.tasks) \cup Record("blockers", m.blockers, d.blockers)
  \cup Record("evidence", m.evidence, d.evidence) \cup Record("decisions", m.decisions, d.decisions)

\* Archived records are kept verbatim.
Records(d, m) ==
  Record("tasks", m.tasks, d.tasks) \cup Record("blockers", m.blockers, d.blockers)
  \cup Record("evidence", m.evidence, d.evidence) \cup Record("decisions", m.decisions, d.decisions)
  \cup Record("corrections", m.corrections, d.corrections)

ArchivedIds(collection) == {r.id : r \in {x \in archive : x.collection = collection}}

-----------------------------------------------------------------------------
(* Changes. *)

\* The end of every write: the candidate must be valid, and if it is found at
\* the trigger what is cold in it is archived, which must leave it valid.
Commit(d, records) ==
  /\ Valid(d)
  /\ \/ doc' = d /\ archive' = archive \cup records
     \/ LET m == Moved(d)
        IN  /\ Valid(Less(d, m))
            /\ doc' = Less(d, m)
            /\ archive' = archive \cup records \cup Records(d, m)

Reopens(t, status) ==
  t \in Ids(doc.tasks) /\ doc.tasks[t].status \in Final /\ status # doc.tasks[t].status

\* Mutants of Generation: reopening does not count, or counts twice.
GenerationKept(t, status) == IF t \notin Ids(doc.tasks) THEN 0 ELSE doc.tasks[t].gen
GenerationTwice(t, status) ==
  IF t \notin Ids(doc.tasks) THEN 0
  ELSE IF Reopens(t, status) THEN doc.tasks[t].gen + 2 ELSE doc.tasks[t].gen

Generation(t, status) ==
  IF t \notin Ids(doc.tasks) THEN 0
  ELSE IF Reopens(t, status) THEN doc.tasks[t].gen + 1 ELSE doc.tasks[t].gen

\* A condition once accepted stays.
UpsertTask(t) ==
  \E status \in Status, deps \in SUBSET Tasks, acc \in SUBSET Conditions :
    LET begins == t \notin Ids(doc.tasks) \/ Reopens(t, status)
        task == [status |-> status, deps |-> deps, acc |-> acc, gen |-> Generation(t, status)]
    IN  /\ t \in Ids(doc.tasks) => doc.tasks[t].acc \subseteq acc
        /\ begins => life[t] < MaxLife
        /\ Commit([doc EXCEPT !.tasks = Set(@, t, task)], {})
        /\ life' = IF begins THEN [life EXCEPT ![t] = @ + 1] ELSE life
        /\ UNCHANGED during

UpsertBlocker(b) ==
  \E t \in Tasks, open \in BOOLEAN :
    /\ Commit([doc EXCEPT !.blockers = Set(@, b, [task |-> t, open |-> open])], {})
    /\ UNCHANGED <<life, during>>

\* extensions.blocker_scope is replaced as a whole.
SetScopes ==
  \E B \in SUBSET Ids(doc.blockers) :
    \E scopes \in [B -> (SUBSET (Ids(doc.tasks) \cup {"project"})) \ {{}}] :
      /\ Commit([doc EXCEPT !.scopes = scopes], {})
      /\ UNCHANGED <<life, during>>

\* Evidence is new, and takes the generation its task has now.
AddEvidence(e) ==
  /\ e \notin Ids(doc.evidence)
  /\ \E t \in Ids(doc.tasks), pass \in BOOLEAN :
       \E acc \in SUBSET doc.tasks[t].acc :
         /\ Commit([doc EXCEPT !.evidence = Set(@, e, [task |-> t, pass |-> pass, acc |-> acc,
                                                       gen |-> doc.tasks[t].gen])], {})
         /\ during' = [during EXCEPT ![e] = life[t]]
  /\ UNCHANGED life

\* Mutant of AddDecision: only the document is asked whether the id is new.
AddDecisionHot(x) ==
  /\ x \notin Ids(doc.decisions)
  /\ \E T \in SUBSET Ids(doc.tasks) : Commit([doc EXCEPT !.decisions = Set(@, x, T)], {})
  /\ UNCHANGED <<life, during>>

AddDecision(x) ==
  /\ x \notin Ids(doc.decisions) \cup ArchivedIds("decisions")
  /\ \E T \in SUBSET Ids(doc.tasks) : Commit([doc EXCEPT !.decisions = Set(@, x, T)], {})
  /\ UNCHANGED <<life, during>>

AddCorrection(c) ==
  /\ c \notin Ids(doc.corrections)
  /\ \E kind \in Kinds, type \in Types :
       \E target \in TargetIds(doc, type),
          replacement \in IF kind = "supersession" THEN Ids(doc.evidence) ELSE {None} :
         LET made == [kind |-> kind, type |-> type, target |-> target, replacement |-> replacement,
                      sha |-> Target(doc, [type |-> type, target |-> target])]
         IN  Commit([doc EXCEPT !.corrections = Set(@, c, made)], {})
  /\ UNCHANGED <<life, during>>

SetProject ==
  \E current \in Tasks \cup {None}, complete \in BOOLEAN :
    /\ Commit([doc EXCEPT !.current = current, !.complete = complete], {})
    /\ UNCHANGED <<life, during>>

\* archive_decisions: not while a correction in the document is about one.
ArchiveDecisions ==
  \E X \in (SUBSET Ids(doc.decisions)) \ {{}} :
    /\ \A c \in Ids(doc.corrections) :
         ~(doc.corrections[c].type = "decision" /\ doc.corrections[c].target \in X)
    /\ Commit([doc EXCEPT !.decisions = Without(@, X)], Record("decisions", X, doc.decisions))
    /\ UNCHANGED <<life, during>>

\* A prune names a set of tasks and all that belongs to any of them.
Pruned(T) ==
  [tasks |-> T,
   blockers |-> {b \in Ids(doc.blockers) : doc.blockers[b].task \in T},
   evidence |-> {e \in Ids(doc.evidence) : doc.evidence[e].task \in T},
   decisions |-> {x \in Ids(doc.decisions) : doc.decisions[x] \cap T # {}},
   corrections |-> {}]

Prune ==
  \E T \in (SUBSET Ids(doc.tasks)) \ {{}} :
    LET m == Pruned(T)
    IN  /\ doc.current \notin T
        /\ \A t \in Ids(doc.tasks) \ T : doc.tasks[t].deps \cap T = {}
        /\ \A c \in Ids(doc.corrections) :
             /\ doc.corrections[c].type = "evidence" => doc.corrections[c].target \notin m.evidence
             /\ doc.corrections[c].type = "decision" => doc.corrections[c].target \notin m.decisions
        /\ Commit(Less(doc, m), {})
        /\ UNCHANGED <<life, during>>

\* A write without a change of the records, such as compact.
Compact == Commit(doc, {}) /\ UNCHANGED <<life, during>>

Init ==
  /\ doc = [tasks |-> <<>>, blockers |-> <<>>, scopes |-> <<>>, evidence |-> <<>>,
            decisions |-> <<>>, corrections |-> <<>>, current |-> None, complete |-> FALSE]
  /\ archive = {}
  /\ life = [t \in Tasks |-> 0]
  /\ during = [e \in Evidence |-> 0]

Next ==
  \/ \E t \in Tasks : UpsertTask(t)
  \/ \E b \in Blockers : UpsertBlocker(b)
  \/ SetScopes
  \/ \E e \in Evidence : AddEvidence(e)
  \/ \E x \in Decisions : AddDecision(x)
  \/ \E c \in Corrections : AddCorrection(c)
  \/ SetProject \/ ArchiveDecisions \/ Prune \/ Compact

Spec == Init /\ [][Next]_vars

-----------------------------------------------------------------------------
(* Properties. *)

Generations == 0 .. MaxLife - 1

Typed(d) ==
  /\ Ids(d.tasks) \subseteq Tasks /\ Ids(d.blockers) \subseteq Blockers
  /\ Ids(d.evidence) \subseteq Evidence /\ Ids(d.decisions) \subseteq Decisions
  /\ Ids(d.corrections) \subseteq Corrections
  /\ \A t \in Ids(d.tasks) :
       d.tasks[t] \in [status : Status, deps : SUBSET Tasks, acc : SUBSET Conditions,
                       gen : Generations]
  /\ \A e \in Ids(d.evidence) :
       d.evidence[e] \in [task : Tasks, pass : BOOLEAN, acc : SUBSET Conditions,
                          gen : Generations]
  /\ \A b \in Ids(d.blockers) : d.blockers[b] \in [task : Tasks, open : BOOLEAN]
  /\ \A c \in Ids(d.corrections) : d.corrections[c].kind \in Kinds /\ d.corrections[c].type \in Types

TypeOK ==
  Typed(doc) /\ life \in [Tasks -> 0 .. MaxLife] /\ during \in [Evidence -> 0 .. MaxLife]

\* What makes a task done was recorded since the task was created or last
\* reopened, also when its id was pruned or archived and used again: the
\* generations the gate compares never confuse two lives of a task.
DoneInThisLife ==
  \A t \in Ids(doc.tasks) : doc.tasks[t].status = "done" =>
    \A a \in doc.tasks[t].acc :
      \E e \in LiveEvidence(doc) :
        /\ doc.evidence[e].task = t /\ doc.evidence[e].pass /\ a \in doc.evidence[e].acc
        /\ during[e] = life[t]

\* Evidence that was revoked or superseded never counts again while it is in the
\* document: no prune and no archival takes the correction away from it.
StaysWithdrawn == Withdrawn(doc) \cap Ids(doc'.evidence) \subseteq Withdrawn(doc')

WithdrawnForGood == [][StaysWithdrawn]_vars

Kept(collection, id, record) == [collection |-> collection, id |-> id, record |-> record] \in archive'

\* Evidence and decisions leave the document for the archive, verbatim, or because
\* the prune of a task they belong to removed them, and a pruned task is not
\* archived by the same write; corrections leave for the archive only.  (Tasks and
\* blockers may be changed and archived in one write, so what is archived of them
\* need not be what the document had.)
KeptOrPruned ==
  LET pruned == {t \in Ids(doc.tasks) \ Ids(doc'.tasks) :
                   Record("tasks", {t}, doc.tasks) \cap (archive' \ archive) = {}}
  IN  /\ \A e \in Ids(doc.evidence) \ Ids(doc'.evidence) :
           Kept("evidence", e, doc.evidence[e]) \/ doc.evidence[e].task \in pruned
      /\ \A x \in Ids(doc.decisions) \ Ids(doc'.decisions) :
           Kept("decisions", x, doc.decisions[x]) \/ doc.decisions[x] \cap pruned # {}
      /\ \A c \in Ids(doc.corrections) \ Ids(doc'.corrections) :
           Kept("corrections", c, doc.corrections[c])

NothingVanishes == [][KeptOrPruned]_vars

\* A decision id denotes one decision in the document and its archive together.
DecisionIdsAreForever == Ids(doc.decisions) \cap ArchivedIds("decisions") = {}

\* "everything bound only to them" (plan_archive): an open blocker leaves for the
\* archive only if the tasks its scope names leave with it.
OpenBlockersStay ==
  [][\A b \in Ids(doc.scopes) \ Ids(doc'.blockers) :
       doc.blockers[b].open /\ Kept("blockers", b, doc.blockers[b]) =>
         doc.scopes[b] \cap Ids(doc'.tasks) = {}]_vars

\* Moving what is cold out of a committed document leaves it valid, so that the
\* write that meets the trigger goes through; but a complete project without a
\* current task loses all its tasks, and a blocked task may lose its blocker.
ArchivalRefusalsAreExplained ==
  LET left == Less(doc, Moved(doc))
  IN  \/ Valid(left)
      \/ doc.complete /\ Ids(left.tasks) = {}
      \/ \E t \in Ids(left.tasks) : left.tasks[t].status = "blocked" /\ ~Blocked(left, t)
=============================================================================
