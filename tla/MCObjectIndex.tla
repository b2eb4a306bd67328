--------------------------- MODULE MCObjectIndex ---------------------------
(* Instances of ObjectIndex for the model checker. *)
EXTENDS ObjectIndexInductive

\* Every third record takes two chunks, of which the first is always the same.
OneInThree == [n \in 1 .. MaxMade |-> IF n % 3 = 0 THEN <<0, n>> ELSE <<n>>]
=============================================================================
