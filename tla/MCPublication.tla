--------------------------- MODULE MCPublication ---------------------------
(* Instances of Publication for the model checker. *)
EXTENDS Publication, TLC

CONSTANTS u1, u2, a

\* Up to the names of the two publishers and of the two payloads there are
\* three ways for the inodes to agree or differ.
RaceInit ==
  /\ Init
  /\ content[u1] = a
  /\ content[u2] # a => content[Before] = a

RaceSpec == RaceInit /\ [][Next]_vars /\ Fairness
=============================================================================
