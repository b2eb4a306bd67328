------------------------------- MODULE Ledger -------------------------------
(***************************************************************************)
(* What project-continuity promises the writers of one project: a ledger   *)
(* of operations.  Every accepted operation is recorded once, under the    *)
(* revision it produced, it was based on the revision just before it, and  *)
(* while a lease is live only its holder adds to the ledger.  Processes,   *)
(* locks, files, snapshots and compaction are all absent: module Relay     *)
(* implements this specification.                                          *)
(***************************************************************************)
EXTENDS Operations

VARIABLES revision,  \* the revision of the committed document
          receipts,  \* every operation ever accepted
          holder,    \* the writer the lease names, or None
          until,     \* the tick at which that lease lapses
          now        \* the clock

ledgerVars == <<revision, receipts, holder, until, now>>

Lapsed == holder = None \/ until <= now

\* A holder's lease may lapse while its commit is under way; nobody else can
\* have taken it in between, so the commit is still the holder's.
Permitted(hash) ==
  \/ hash.cmd \in Takers /\ (Lapsed \/ holder = hash.writer)
  \/ hash.cmd \in Holders /\ holder = hash.writer
  \/ hash.cmd = "recover" /\ Lapsed

Init ==
  /\ revision = 0
  /\ receipts = {}
  /\ holder = None
  /\ until = 0
  /\ now = 0

Accept(id, hash) ==
  /\ hash.exp = revision
  /\ \A r \in receipts : r.id # id
  /\ Permitted(hash)
  /\ revision' = revision + 1
  /\ receipts' = receipts \cup {[id |-> id, hash |-> hash, rev |-> revision + 1]}
  /\ IF hash.cmd \in Keepers
     THEN holder' = hash.writer /\ until' \in 0 .. now + LeaseLen
     ELSE holder' = None /\ until' = 0
  /\ UNCHANGED now

Tick ==
  /\ now' = now + 1
  /\ UNCHANGED <<revision, receipts, holder, until>>

Next ==
  \/ \E hash \in Requests(revision) : \E id \in Ids(hash) : Accept(id, hash)
  \/ Tick

Spec == Init /\ [][Next]_ledgerVars
=============================================================================
