------------------------------ MODULE MCPages ------------------------------
(* Instances of Pages for the model checker. *)
EXTENDS PagesInductive, TLC

CONSTANTS t1, t2, a, b, c

Effective(t, x) == [task |-> t, cond |-> x, effective |-> TRUE]

\* Two tasks; three conditions to page through; evidence for some of them.
Opening ==
  {[rev |-> 1, tasks |-> <<t1, t2>>, acceptance |-> (t1 :> rows @@ t2 :> <<a>>),
    evidence |-> ev] :
     rows \in {<<a, b>>, <<a, b, c>>},
     ev \in {<<>>, <<Effective(t1, a), Effective(t1, b), Effective(t2, a)>>}}
=============================================================================
