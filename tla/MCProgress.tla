----------------------------- MODULE MCProgress -----------------------------
(* Instances of Progress for the model checker. *)
EXTENDS ProgressInductive, TLC

Symmetry ==
  Permutations(Tasks) \cup Permutations(Blockers) \cup Permutations(Evidence)
  \cup Permutations(Decisions) \cup Permutations(Corrections) \cup Permutations(Conditions)
=============================================================================
