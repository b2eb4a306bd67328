----------------------------- MODULE MCMigration -----------------------------
(* Instances of Migration for the model checker. *)
EXTENDS MigrationInductive, TLC

CONSTANTS p1, p2, b1, b2

\* Two branches of a worktree.
Worktrees ==
  {[kind |-> "git", branch |-> b1, print |-> 1], [kind |-> "git", branch |-> b2, print |-> 1]}

\* Two callers upgrade, one of them also writes.
Callers == p1 :> {"latest"} @@ p2 :> {"latest", "resume"}
=============================================================================
