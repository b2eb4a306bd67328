-------------------------- MODULE ProgressInductive --------------------------
(***************************************************************************)
(* The inductive invariant of Progress: the committed document is valid,   *)
(* and the generations the gate compares run in step with the lives of the *)
(* tasks.  ProgressProofs shows that every step preserves it.              *)
(***************************************************************************)
EXTENDS Progress

\* A document has these parts and no others.
Shape(d) ==
  DOMAIN d = {"tasks", "blockers", "scopes", "evidence", "decisions", "corrections",
              "current", "complete"}

\* A task's generation lags its lives, and a piece of evidence is as many lives
\* of its task old as it is generations behind it.
LivesAgree(d, lives, made) ==
  /\ \A t \in Ids(d.tasks) : d.tasks[t].gen < lives[t]
  /\ \A e \in Ids(d.evidence) :
       LET t == d.evidence[e].task
       IN  lives[t] - made[e] = d.tasks[t].gen - d.evidence[e].gen

IInv == Shape(doc) /\ TypeOK /\ Valid(doc) /\ LivesAgree(doc, life, during)
=============================================================================
