------------------------------ MODULE MCRelay ------------------------------
(* Instances of Relay for the model checker. *)
EXTENDS RelayInductive, TLC

Symmetry == Permutations(Procs) \cup Permutations(Records) \cup Permutations(Writers)
=============================================================================
