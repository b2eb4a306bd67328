----------------------------- MODULE Publication -----------------------------
(***************************************************************************)
(* One content-addressed name: publishers that link a finished temporary   *)
(* file to it and then unlink the temporary, readers that take no lock,    *)
(* a collector that removes the file while no publisher is at work, kills, *)
(* and hard links made by somebody else.  Between link and unlink the file *)
(* has two links; whoever meets it then looks for the temporary name and   *)
(* waits, under a deadline, until it is gone.  POSIX only: on Windows no   *)
(* window is ever recognised.                                              *)
(*                                                                         *)
(* Relay takes the publication of a file for one step; this module is what *)
(* that step consists of.                                                  *)
(***************************************************************************)
EXTENDS Naturals

CONSTANTS Publishers,  \* calls of immutable_bytes for the name
          Readers,     \* calls of read_bytes for the name
          Payloads,    \* what the file may hold
          Before,      \* the file an earlier call may have left behind
          Attempts,    \* PUBLISH_WAIT_ATTEMPTS
          None

Callers == Publishers \cup Readers
Inodes == Publishers \cup {Before}

ASSUME CallersAssumption == Publishers \cap Readers = {}
ASSUME InodesAssumption == Before \notin Callers /\ None \notin Inodes
ASSUME AttemptsAssumption == Attempts \in Nat \ {0}

VARIABLES target,    \* the inode under the name, or None
          tmp,       \* the inodes that still have their temporary name
          foreign,   \* the inodes somebody else has linked
          content,   \* what each inode holds, and so what each publisher wants
          removed,   \* whether the collector has removed the file
          pc,        \* where each call is, at last its outcome
          phase,     \* whether it publishes or reads
          seen,      \* the inode it last looked at
          tries,     \* its attempts, up to Attempts
          late      \* whether its deadline has passed

vars == <<target, tmp, foreign, content, removed, pc, phase, seen, tries, late>>
fileVars == <<target, tmp, foreign, content, removed>>

\* Refusals by name, apart from the two a deadline or a different payload give.
Alarms == {"links", "changed", "gone"}
Outcomes == Alarms \cup {"ok", "missing", "window", "conflict", "dead"}

\* st_nlink = 1, for a path that has just been looked up or an open file.
Single(i) == target = i /\ i \notin tmp \cup foreign

Goto(p, step) == pc' = [pc EXCEPT ![p] = step]

\* The temporary name goes with the attempt, however it ends.
Cleanup(p) == tmp' = tmp \ {p}

-----------------------------------------------------------------------------
Start(p) ==
  /\ pc[p] = "idle"
  /\ Goto(p, "look")
  /\ UNCHANGED <<fileVars, phase, seen, tries, late>>

\* Mutant of Settled: an identical file will do whatever its link count.
SettledAnyLinks(i) == i \notin foreign

\* An existing file is compared only once it has a single link.
Settled(i) == Single(i)

\* immutable_bytes looks at the name before it writes anything.
LookToPublish(p) ==
  /\ pc[p] = "look" /\ phase[p] = "publish"
  /\ IF target = None
     THEN Goto(p, IF p \in tmp THEN "wait" ELSE "write") /\ UNCHANGED <<phase, seen, tries, late>>
     ELSE IF Settled(target)
     THEN \* compare: a call of read_bytes, with a deadline of its own
          /\ phase' = [phase EXCEPT ![p] = "read"]
          /\ tries' = [tries EXCEPT ![p] = 1]
          /\ late' = [late EXCEPT ![p] = FALSE]
          /\ UNCHANGED <<pc, seen>>
     ELSE /\ seen' = [seen EXCEPT ![p] = target]
          /\ Goto(p, "list")
          /\ UNCHANGED <<phase, tries, late>>
  /\ UNCHANGED fileVars

\* A publisher whose comparison fails has given up: its temporary goes too.
End(p, outcome) == Goto(p, outcome) /\ Cleanup(p) /\ UNCHANGED <<target, foreign, content, removed>>

LookToRead(p) ==
  /\ pc[p] = "look" /\ phase[p] = "read"
  /\ IF target = None
     THEN End(p, IF p \in Readers THEN "missing" ELSE "gone") /\ UNCHANGED seen
     ELSE /\ seen' = [seen EXCEPT ![p] = target]
          /\ Goto(p, IF Settled(target) THEN "open" ELSE "list")
          /\ UNCHANGED fileVars
  /\ UNCHANGED <<phase, tries, late>>

\* _require_live_window: is the extra link the temporary name of this inode?
List(p) ==
  /\ pc[p] = "list"
  /\ Goto(p, IF seen[p] \in tmp THEN "wait" ELSE "restat")
  /\ UNCHANGED <<fileVars, phase, seen, tries, late>>

\* Mutant of Restat: no second look, a window that has just closed is refused.
RestatNever(p) ==
  /\ pc[p] = "restat"
  /\ End(p, "links")
  /\ UNCHANGED <<phase, seen, tries, late>>

\* If not, the temporary name may have gone since the link count was read.
Restat(p) ==
  /\ pc[p] = "restat"
  /\ IF target \notin {None, seen[p]}
     THEN End(p, "changed")
     ELSE Goto(p, IF target = None \/ Single(target) THEN "wait" ELSE "relist")
          /\ UNCHANGED fileVars
  /\ UNCHANGED <<phase, seen, tries, late>>

Relist(p) ==
  /\ pc[p] = "relist"
  /\ IF seen[p] \in tmp THEN Goto(p, "wait") /\ UNCHANGED fileVars ELSE End(p, "links")
  /\ UNCHANGED <<phase, seen, tries, late>>

\* Mutant of Wait: no deadline.
WaitForever(p) ==
  /\ pc[p] = "wait"
  /\ Goto(p, "look")
  /\ IF phase[p] = "publish" THEN Cleanup(p) ELSE UNCHANGED tmp
  /\ UNCHANGED <<target, foreign, content, removed, phase, seen, tries, late>>

\* Give up past the deadline, but never before the last attempt; otherwise
\* sleep and start the attempt again.
Wait(p) ==
  /\ pc[p] = "wait"
  /\ IF late[p] /\ tries[p] >= Attempts
     THEN End(p, "window") /\ UNCHANGED tries
     ELSE /\ Goto(p, "look")
          /\ tries' = [tries EXCEPT ![p] = IF @ < Attempts THEN @ + 1 ELSE @]
          /\ IF phase[p] = "publish" THEN Cleanup(p) ELSE UNCHANGED tmp
          /\ UNCHANGED <<target, foreign, content, removed>>
  /\ UNCHANGED <<phase, seen, late>>

\* PUBLISH_WAIT_SECONDS go by.
Expire(p) ==
  /\ pc[p] \notin Outcomes \cup {"idle"}
  /\ ~late[p]
  /\ late' = [late EXCEPT ![p] = TRUE]
  /\ UNCHANGED <<fileVars, pc, phase, seen, tries>>

Write(p) ==
  /\ pc[p] = "write"
  /\ tmp' = tmp \cup {p}
  /\ Goto(p, "link")
  /\ UNCHANGED <<target, foreign, content, removed, phase, seen, tries, late>>

\* Mutant of Link: the temporary replaces what is there.
LinkOver(p) ==
  /\ pc[p] = "link"
  /\ target' = p
  /\ Goto(p, "unlink")
  /\ UNCHANGED <<tmp, foreign, content, removed, phase, seen, tries, late>>

\* os.link is exclusive: the loser of the race looks at what the winner left.
Link(p) ==
  /\ pc[p] = "link"
  /\ IF target = None
     THEN target' = p /\ Goto(p, "unlink")
     ELSE UNCHANGED target /\ Goto(p, "look")
  /\ UNCHANGED <<tmp, foreign, content, removed, phase, seen, tries, late>>

Unlink(p) ==
  /\ pc[p] = "unlink"
  /\ End(p, "ok")
  /\ UNCHANGED <<phase, seen, tries, late>>

Open(p) ==
  /\ pc[p] = "open"
  /\ IF target = None THEN End(p, "gone")
     ELSE IF target # seen[p] THEN End(p, "changed")
     ELSE Goto(p, IF Settled(target) THEN "close" ELSE "list") /\ UNCHANGED fileVars
  /\ UNCHANGED <<phase, seen, tries, late>>

\* The file has been read: its change time tells whether a link came or went.
Close(p) ==
  /\ pc[p] = "close"
  /\ IF ~Settled(seen[p]) THEN End(p, "changed")
     ELSE IF p \in Publishers /\ content[seen[p]] # content[p] THEN End(p, "conflict")
     ELSE End(p, "ok")
  /\ UNCHANGED <<phase, seen, tries, late>>

-----------------------------------------------------------------------------
(* The rest of the world. *)

Die(p) ==
  /\ pc[p] \notin Outcomes \cup {"idle"}
  /\ Goto(p, "dead")
  /\ UNCHANGED <<fileVars, phase, seen, tries, late>>

\* Mutant of Remove: the collector does not hold the lock.
RemoveUnlocked ==
  /\ target # None /\ Single(target)
  /\ target' = None
  /\ removed' = TRUE
  /\ UNCHANGED <<tmp, foreign, content, pc, phase, seen, tries, late>>

\* gc --apply holds the relay lock, as every publisher does; it removes a
\* file with a single link only.
Remove ==
  /\ \A p \in Publishers : pc[p] \in Outcomes \cup {"idle"}
  /\ target # None /\ Single(target)
  /\ target' = None
  /\ removed' = TRUE
  /\ UNCHANGED <<tmp, foreign, content, pc, phase, seen, tries, late>>

ForeignLink ==
  /\ target # None
  /\ foreign' = foreign \cup {target}
  /\ UNCHANGED <<target, tmp, content, removed, pc, phase, seen, tries, late>>

-----------------------------------------------------------------------------
\* There may be a file already, settled or left in its window by a kill.
Init ==
  /\ target \in {None, Before}
  /\ tmp \in IF target = None THEN {{}} ELSE {{}, {Before}}
  /\ foreign = {}
  /\ content \in [Inodes -> Payloads]
  /\ removed = FALSE
  /\ pc = [p \in Callers |-> "idle"]
  /\ phase = [p \in Callers |-> IF p \in Publishers THEN "publish" ELSE "read"]
  /\ seen = [p \in Callers |-> None]
  /\ tries = [p \in Callers |-> 1]
  /\ late = [p \in Callers |-> FALSE]

Run(p) ==
  \/ LookToPublish(p) \/ LookToRead(p) \/ List(p) \/ Restat(p) \/ Relist(p) \/ Wait(p)
  \/ Write(p) \/ Link(p) \/ Unlink(p) \/ Open(p) \/ Close(p)

\* Every call may end, and nothing has to happen after that.
Finished == (\A p \in Callers : pc[p] \in Outcomes) /\ UNCHANGED vars

Next ==
  \/ \E p \in Callers : Start(p) \/ Run(p) \/ Expire(p) \/ Die(p)
  \/ Remove \/ ForeignLink \/ Finished

Spec == Init /\ [][Next]_vars

\* A started call is scheduled until it ends, and its deadline comes.
Fairness == \A p \in Callers : WF_vars(Run(p)) /\ WF_vars(Expire(p))

FairSpec == Spec /\ Fairness

-----------------------------------------------------------------------------
(* Properties. *)

Steps == {"idle", "look", "list", "restat", "relist", "wait", "write", "link", "unlink",
          "open", "close"}

TypeOK ==
  /\ target \in Inodes \cup {None}
  /\ tmp \subseteq Inodes /\ foreign \subseteq Inodes
  /\ content \in [Inodes -> Payloads]
  /\ removed \in BOOLEAN
  /\ pc \in [Callers -> Steps \cup Outcomes]
  /\ phase \in [Callers -> {"publish", "read"}]
  /\ seen \in [Callers -> Inodes \cup {None}]
  /\ tries \in [Callers -> 1 .. Attempts]
  /\ late \in [Callers -> BOOLEAN]

\* A publisher reports success only when the file is there with its payload
\* and no publisher, living or dead, still holds a second link to it: what it
\* has published cannot be refused to readers later on.
SuccessIsSettled ==
  [][\A p \in Publishers :
       pc[p] # "ok" /\ pc'[p] = "ok" =>
         /\ target' # None
         /\ content[target'] = content[p]
         /\ target' \notin tmp']_vars

\* A published file is never replaced, and once settled it stays settled until
\* the collector takes it.
WriteOnce ==
  [][/\ target # None => target' \in {target, None}
     /\ target # None /\ target \notin tmp => target \notin tmp']_vars

\* Publication alone, even with publishers killed at any point, makes nobody
\* refuse a file by name: that takes a foreign link or a removal.
NoFalseAlarm == (\E p \in Callers : pc[p] \in Alarms) => foreign # {} \/ removed

\* A publisher is refused by name only after a foreign link: between the moment
\* it finds the file and the moment it has compared it, the collector, which
\* removes files under the same lock, does not take it away.
PublishersAreUndisturbed == (\E p \in Publishers : pc[p] \in Alarms) => foreign # {}

\* Every call ends, whatever the others do.
Termination == \A p \in Callers : pc[p] # "idle" ~> pc[p] \in Outcomes
=============================================================================
