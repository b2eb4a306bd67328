-------------------------- MODULE MigrationInductive --------------------------
(***************************************************************************)
(* The inductive invariants of Migration: what holds while commits are     *)
(* under way and of what they leave behind, and where an upgrade is that   *)
(* nothing stands in the way of.                                           *)
(***************************************************************************)
EXTENDS Migration

IInv == TypeOK /\ CommitsUnderWay /\ EditsAreKept /\ TextSurvives /\ MigrationsAreApproved

\* Every migration on record has been made: the document is past its target.
OpsAreDone == \A o \in current.ops : o.id[2] <= current.schema

\* A calm upgrade is where nothing can refuse it: the step it will make, or is
\* making, is admissible in the document there is.
Calm(p) ==
  LET t == txn[p] IN
  t.calm =>
    /\ t.answer # "refused"
    /\ pc[p] # "idle" => t.call.command = "latest"
    /\ pc[p] = "read" /\ current.schema # Latest =>
         Admissible(StepOf(t.call, current, t.first), current, tree)
    /\ pc[p] = "lock" => t.step.command = "migrate" /\ Admissible(t.step, current, tree)
    /\ pc[p] \in Holding =>
         t.step.command = "migrate" /\ t.old = current /\ tree.kind # "error"
    /\ pc[p] = "check" => Admissible(t.step, t.old, tree)
    /\ pc[p] \in {"snapshot", "compare", "replace"} => t.new = Candidate(t.step, t.old, tree)

CalmInv == OpsAreDone /\ \A p \in Procs : Calm(p)
===============================================================================
