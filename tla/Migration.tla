------------------------------ MODULE Migration ------------------------------
(***************************************************************************)
(* Upgrading a relay while others write, edit and check out: the steps of  *)
(* migrate and migrate --to-latest, the writers' commands they compete     *)
(* with, an editor that changes CURRENT.md by hand and takes no lock, and  *)
(* the Git identity a commit compares and stamps.                          *)
(*                                                                         *)
(* Relay has the files behind a document; here a commit is the sequence    *)
(* storage.commit makes of CURRENT.md and its history, system call by      *)
(* system call where an edit can fall in between.                          *)
(***************************************************************************)
EXTENDS Naturals, Sequences

CONSTANTS Procs, Writers,
          OpIds,      \* operation ids given by the callers
          Commands,   \* the commands each process calls
          Trees,      \* the Git identities the worktree may have
          Schemas,    \* the schemas the first document may have
          MaxRev,     \* bound: no call is made from this revision on
          MaxEdits,   \* bound on direct edits
          None

\* Everything a caller may ask for; latest is migrate --to-latest.
AllCommands == {"migrate", "latest", "recover", "resume", "acquire", "save"}

\* The baseline of a document that records none.
Legacy == [kind |-> "legacy", branch |-> None, print |-> None]

ASSUME CommandsAssumption == Commands \in [Procs -> SUBSET AllCommands]
ASSUME TreesAssumption == Legacy \notin Trees
ASSUME SchemasAssumption == Schemas \subseteq 1 .. 4
ASSUME NoneAssumption == None \notin Procs \cup Writers \cup {"done", "replayed", "refused"}

VARIABLES current,  \* CURRENT.md
          live,     \* its lease is active
          history,  \* the history snapshots
          tree,     \* the Git identity of the worktree
          lock,     \* the process that holds the relay lock
          pc, txn,  \* where each process is and what it is doing
          edits     \* the direct edits made so far

vars == <<current, live, history, tree, lock, pc, txn, edits>>

-----------------------------------------------------------------------------
(* Documents.  custom holds the edits in the custom text of the file, view  *)
(* those in its derived view; bound holds the text that was moved to        *)
(* objects, after which custom is a generated stub.                         *)

Bound(d) == d.schema >= 5

\* The custom text that counts.
Text(d) == IF Bound(d) THEN d.bound ELSE d.custom

Contents(d) == d.custom \cup d.bound \cup d.view

\* What the SHA-256 of a document tells apart.
Digest(d) == [rev |-> d.rev, custom |-> d.custom, view |-> d.view]

-----------------------------------------------------------------------------
(* The chain of schemas. *)

Latest == 6

\* NEXT_MIGRATION: version 3 is left out on the way from 2 to 4.
Target == <<2, 4, 4, 5, 6>>

\* The schema a step starts from.
From(to) == CASE to = 2 -> {1} [] to = 3 -> {2} [] to = 4 -> {2, 3}
              [] to = 5 -> {4} [] to = 6 -> {5}

Steps == 2 .. Latest

-----------------------------------------------------------------------------
(* Calls.  Every caller expects the revision, and a migration the bytes, it *)
(* saw when it made up its mind.                                            *)

Calls(p, d) ==
  {[command |-> command, to |-> to, chained |-> FALSE, writer |-> w, allow |-> allow, op |-> o,
    rev |-> d.rev, src |-> IF command \in {"migrate", "latest"} THEN Digest(d) ELSE None] :
     command \in Commands[p], to \in Steps, w \in Writers, allow \in BOOLEAN, o \in OpIds}

\* Only migrate has a target of its own.
Sensible(c) == c.command # "migrate" => c.to = Latest

\* A step of --to-latest has an operation id of its own; a migration called
\* directly, like every other command, keeps the id it was given.
StepId(c) == IF c.command = "migrate" /\ c.chained THEN <<c.op, c.to>> ELSE <<c.op, 0>>

\* Mutant of StepOf: later steps keep what the caller saw.
StepOfCaller(c, d, first) ==
  [c EXCEPT !.command = "migrate", !.to = Target[d.schema], !.chained = TRUE]

\* One step of --to-latest from the document just read: the first is bound to
\* what the caller saw, later ones to that document.
StepOf(c, d, first) ==
  [c EXCEPT !.command = "migrate", !.to = Target[d.schema], !.chained = TRUE,
            !.rev = IF first THEN c.rev ELSE d.rev,
            !.src = IF first THEN c.src ELSE Digest(d)]

-----------------------------------------------------------------------------
(* What mutate checks, in its order, and the document it makes. *)

Known(c, d) == {o \in d.ops : o.id = StepId(c)}

BranchChanged(git, t) == git.kind = "git" /\ (t.kind # "git" \/ t.branch # git.branch)

Reviews(c, d) ==
  c.command \in {"resume", "acquire"} \/ (c.command = "migrate" /\ d.schema >= 2)

Drift(c, d, t) == (Reviews(c, d) /\ d.git # t) \/ BranchChanged(d.git, t)

LeaseAllows(c, d) ==
  CASE c.command = "migrate" -> ~live
    [] c.command = "recover" -> ~live
    [] c.command \in {"resume", "acquire"} -> live => d.writer = c.writer
    [] c.command = "save" -> live /\ d.writer = c.writer

\* Mutant of SourceFits: the source hash is not compared.
SourceFitsAny(c, d) ==
  IF c.command = "migrate" THEN d.schema \in From(c.to) ELSE d.schema # 1

SourceFits(c, d) ==
  IF c.command = "migrate" THEN c.src = Digest(d) /\ d.schema \in From(c.to)
  ELSE d.schema # 1

Admissible(c, d, t) ==
  /\ Known(c, d) = {}
  /\ c.rev = d.rev
  /\ d.view = {} \/ c.command = "recover"
  /\ t.kind # "error"
  /\ Drift(c, d, t) => c.allow
  /\ LeaseAllows(c, d)
  /\ SourceFits(c, d)

Receipt(c, d) == [id |-> StepId(c), call |-> c, rev |-> d.rev + 1]

\* Mutant of Candidate: the text of the file is not moved to objects.
CandidateUnbound(c, d, t) ==
  LET schema == IF c.command = "migrate" THEN c.to ELSE d.schema
  IN [schema |-> schema, rev |-> d.rev + 1,
      writer |-> IF c.command = "resume" THEN c.writer ELSE None,
      git |-> t, ops |-> d.ops \cup {Receipt(c, d)},
      custom |-> IF schema >= 5 THEN {} ELSE d.custom, bound |-> d.bound, view |-> {}]

\* The view is rendered anew, and the stub from the bound text; resume is the
\* command here that keeps the lease.
Candidate(c, d, t) ==
  LET schema == IF c.command = "migrate" THEN c.to ELSE d.schema
  IN [schema |-> schema, rev |-> d.rev + 1,
      writer |-> IF c.command = "resume" THEN c.writer ELSE None,
      git |-> t, ops |-> d.ops \cup {Receipt(c, d)},
      custom |-> IF schema >= 5 THEN {} ELSE d.custom,
      bound |-> IF schema >= 5 THEN Text(d) ELSE {},
      view |-> {}]

-----------------------------------------------------------------------------
(* The calls. *)

Idle == [call |-> None, step |-> None, first |-> TRUE, old |-> None, new |-> None,
         answer |-> None, calm |-> FALSE]

Goto(p, l) == pc' = [pc EXCEPT ![p] = l]

\* A caller that may expect success: nothing stands in the way of its first
\* step, and it has not called before.
Fresh(c) ==
  current.schema # Latest =>
    /\ Known(StepOf(c, current, TRUE), current) = {}
    /\ Admissible(StepOf(c, current, TRUE), current, tree)

\* Whatever one process or the world does may be in the way of the others.
Unsettled(who) == [p \in Procs |-> IF p \in who THEN [txn[p] EXCEPT !.calm = FALSE] ELSE txn[p]]

First(c) == IF c.command = "latest" THEN "read" ELSE "lock"

Call(p) ==
  /\ pc[p] = "idle" /\ current.rev < MaxRev
  /\ \E c \in Calls(p, current) :
       /\ Sensible(c)
       /\ txn' = [txn EXCEPT ![p] =
            [Idle EXCEPT !.call = c, !.step = c, !.calm = c.command = "latest" /\ Fresh(c)]]
       /\ Goto(p, First(c))
  /\ UNCHANGED <<current, live, history, tree, lock, edits>>

\* The same command line once more.
Retry(p) ==
  /\ pc[p] = "idle" /\ current.rev < MaxRev
  /\ txn[p].call # None
  /\ txn' = [txn EXCEPT ![p] = [@ EXCEPT !.step = txn[p].call, !.first = TRUE,
                                         !.answer = None, !.calm = FALSE]]
  /\ Goto(p, First(txn[p].call))
  /\ UNCHANGED <<current, live, history, tree, lock, edits>>

\* What is left of a call: a migration may be called again.
Ended(t, a) ==
  IF t.call.command \in {"migrate", "latest"}
  THEN [Idle EXCEPT !.call = t.call, !.answer = a, !.calm = t.calm] ELSE Idle

Answer(p, a) ==
  /\ txn' = [txn EXCEPT ![p] = Ended(@, a)]
  /\ Goto(p, "idle")

\* migrate_latest reads CURRENT.md without the lock, before every step.
ReadStep(p) ==
  /\ pc[p] = "read"
  /\ IF current.schema = Latest THEN Answer(p, "done")
     ELSE /\ txn' = [txn EXCEPT ![p].step = StepOf(txn[p].call, current, txn[p].first)]
          /\ Goto(p, "lock")
  /\ UNCHANGED <<current, live, history, tree, lock, edits>>

\* Mutant of Lock: the lock does not exclude.
LockShared(p) ==
  /\ pc[p] = "lock"
  /\ lock' = p
  /\ txn' = [txn EXCEPT ![p].old = current]
  /\ Goto(p, "check")
  /\ UNCHANGED <<current, live, history, tree, edits>>

Lock(p) ==
  /\ pc[p] = "lock"
  /\ lock = None
  /\ lock' = p
  /\ txn' = [txn EXCEPT ![p].old = current]
  /\ Goto(p, "check")
  /\ UNCHANGED <<current, live, history, tree, edits>>

\* The identity compared is the identity stamped.
Admit(p) ==
  /\ pc[p] = "check"
  /\ LET t == txn[p] IN
     /\ Admissible(t.step, t.old, tree)
     /\ txn' = [txn EXCEPT ![p].new = Candidate(t.step, t.old, tree)]
  /\ Goto(p, "snapshot")
  /\ UNCHANGED <<current, live, history, tree, lock, edits>>

\* A receipt with the same input answers; --to-latest ends there.
Replay(p) ==
  /\ pc[p] = "check"
  /\ \E o \in Known(txn[p].step, txn[p].old) : o.call = txn[p].step
  /\ Answer(p, "replayed")
  /\ lock' = None
  /\ UNCHANGED <<current, live, history, tree, edits>>

\* Mutant of Refuse: the lock is kept.
RefuseLocked(p) ==
  /\ pc[p] = "check"
  /\ \A o \in Known(txn[p].step, txn[p].old) : o.call # txn[p].step
  /\ ~Admissible(txn[p].step, txn[p].old, tree)
  /\ Answer(p, "refused")
  /\ UNCHANGED <<current, live, history, tree, lock, edits>>

Refuse(p) ==
  /\ pc[p] = "check"
  /\ \A o \in Known(txn[p].step, txn[p].old) : o.call # txn[p].step
  /\ ~Admissible(txn[p].step, txn[p].old, tree)
  /\ Answer(p, "refused")
  /\ lock' = None
  /\ UNCHANGED <<current, live, history, tree, edits>>

\* commit: CURRENT.md is compared, the snapshot written, CURRENT.md compared
\* again, and only then replaced.
Snapshot(p) ==
  /\ pc[p] = "snapshot"
  /\ current = txn[p].old
  /\ history' = history \cup {txn[p].old}
  /\ Goto(p, "compare")
  /\ UNCHANGED <<current, live, tree, lock, txn, edits>>

\* Mutant of Compare: CURRENT.md is not compared again.
CompareNot(p) ==
  /\ pc[p] = "compare"
  /\ Goto(p, "replace")
  /\ UNCHANGED <<current, live, history, tree, lock, txn, edits>>

Compare(p) ==
  /\ pc[p] = "compare"
  /\ current = txn[p].old
  /\ Goto(p, "replace")
  /\ UNCHANGED <<current, live, history, tree, lock, txn, edits>>

Changed(p) ==
  /\ pc[p] \in {"snapshot", "compare"}
  /\ current # txn[p].old
  /\ Answer(p, "refused")
  /\ lock' = None
  /\ UNCHANGED <<current, live, history, tree, edits>>

\* Mutant of Replace: the identity is captured again for the stamp.
ReplaceStamped(p) ==
  /\ pc[p] = "replace"
  /\ current' = [txn[p].new EXCEPT !.git = tree]
  /\ live' = (txn[p].step.command = "resume")
  /\ lock' = None
  /\ Goto(p, IF txn[p].call.command = "latest" THEN "read" ELSE "idle")
  /\ txn' = [Unsettled(Procs \ {p}) EXCEPT ![p] = Ended(@, None)]
  /\ UNCHANGED <<history, tree, edits>>

\* --to-latest goes on to the next step, the other commands are done.
Replace(p) ==
  /\ pc[p] = "replace"
  /\ current' = txn[p].new
  /\ live' = (txn[p].step.command = "resume")
  /\ lock' = None
  /\ LET more == txn[p].call.command = "latest" IN
     /\ Goto(p, IF more THEN "read" ELSE "idle")
     /\ txn' = [Unsettled(Procs \ {p}) EXCEPT
                  ![p] = IF more THEN [@ EXCEPT !.first = FALSE, !.step = None,
                                                !.old = None, !.new = None]
                         ELSE Ended(@, "done")]
  /\ UNCHANGED <<history, tree, edits>>

\* Killed, or stopped by an error of the file system.
Abandon(p) ==
  /\ pc[p] # "idle"
  /\ Answer(p, None)
  /\ lock' = IF lock = p THEN None ELSE lock
  /\ UNCHANGED <<current, live, history, tree, edits>>

-----------------------------------------------------------------------------
(* The world. *)

\* An edit is safe unless it falls between the last comparison and the
\* replacement of CURRENT.md.
Edit(place) ==
  /\ Len(edits) < MaxEdits
  /\ edits' = Append(edits, [text |-> place = "custom" /\ ~Bound(current),
                             safe |-> \A p \in Procs : pc[p] # "replace"])
  /\ txn' = Unsettled(Procs)
  /\ UNCHANGED <<live, history, tree, lock, pc>>

\* In the custom text, or in the stub that stands for it.
EditText ==
  /\ Edit("custom")
  /\ current' = [current EXCEPT !.custom = @ \cup {Len(edits) + 1}]

EditView ==
  /\ current.schema # 1
  /\ Edit("view")
  /\ current' = [current EXCEPT !.view = @ \cup {Len(edits) + 1}]

Checkout ==
  /\ tree' \in Trees \ {tree}
  /\ txn' = Unsettled(Procs)
  /\ UNCHANGED <<current, live, history, lock, pc, edits>>

Lapse ==
  /\ live
  /\ live' = FALSE
  /\ UNCHANGED <<current, history, tree, lock, pc, txn, edits>>

\* The first document has a schema of Schemas; that older tools left documents
\* of the older schemas in this form is assumed.
Init ==
  /\ tree \in Trees
  /\ \E schema \in Schemas, git \in {Legacy, tree} :
       /\ (schema = 1 <=> git = Legacy) /\ git.kind # "error"
       /\ current = [schema |-> schema, rev |-> 0, writer |-> None, git |-> git,
                     ops |-> {}, custom |-> {}, bound |-> {}, view |-> {}]
  /\ live = FALSE /\ history = {} /\ lock = None /\ edits = <<>>
  /\ pc = [p \in Procs |-> "idle"]
  /\ txn = [p \in Procs |-> Idle]

Step(p) ==
  \/ ReadStep(p) \/ Admit(p) \/ Replay(p) \/ Refuse(p)
  \/ Snapshot(p) \/ Compare(p) \/ Changed(p) \/ Replace(p)

Next ==
  \/ \E p \in Procs : Call(p) \/ Retry(p) \/ Lock(p) \/ Step(p) \/ Abandon(p)
  \/ EditText \/ EditView \/ Checkout \/ Lapse

Spec == Init /\ [][Next]_vars

-----------------------------------------------------------------------------
(* Properties. *)

Digests == [rev : Nat, custom : SUBSET Nat, view : SUBSET Nat]

CallType ==
  [command : AllCommands, to : Steps, chained : BOOLEAN, writer : Writers, allow : BOOLEAN, op : OpIds,
   rev : Nat, src : Digests \cup {None}]

Documents ==
  [schema : 1 .. Latest, rev : Nat, writer : Writers \cup {None}, git : Trees \cup {Legacy},
   ops : SUBSET [id : OpIds \X (0 .. Latest), call : CallType, rev : Nat],
   custom : SUBSET Nat, bound : SUBSET Nat, view : SUBSET Nat]

Transactions ==
  [call : CallType \cup {None}, step : CallType \cup {None}, first : BOOLEAN,
   old : Documents \cup {None}, new : Documents \cup {None},
   answer : {None, "done", "replayed", "refused"}, calm : BOOLEAN]

Holding == {"check", "snapshot", "compare", "replace"}

TypeOK ==
  /\ current \in Documents
  /\ live \in BOOLEAN /\ (live => current.writer # None)
  /\ history \subseteq Documents
  /\ tree \in Trees
  /\ pc \in [Procs -> {"idle", "read", "lock"} \cup Holding]
  /\ txn \in [Procs -> Transactions]
  /\ edits \in Seq([text : BOOLEAN, safe : BOOLEAN])
  /\ lock \in Procs \cup {None}
  /\ \A p \in Procs : pc[p] \in Holding <=> lock = p

\* A direct edit of CURRENT.md is never lost: the document or a snapshot has
\* its bytes, unless it fell between the last comparison of commit and the
\* replacement.
EditsAreKept ==
  \A n \in DOMAIN edits :
    edits[n].safe => \E d \in history \cup {current} : n \in Contents(d)

\* Custom text written before it was moved to objects stays the custom text
\* through every migration and every other command.
TextSurvives ==
  \A n \in DOMAIN edits : edits[n].safe /\ edits[n].text => n \in Text(current)

\* Every migration step started from the very bytes that were approved for it,
\* they are still in the history, and they had the schema the step is for.
MigrationsAreApproved ==
  \A o \in current.ops : o.call.command = "migrate" =>
    \E d \in history : /\ Digest(d) = o.call.src /\ d.rev + 1 = o.rev
                       /\ d.schema \in From(o.call.to)

SameCommit(d, e) ==
  /\ d.schema = e.schema /\ d.rev = e.rev /\ d.writer = e.writer /\ d.git = e.git
  /\ d.ops = e.ops /\ d.bound = e.bound

Checked(c, d, t) == (Drift(c, d, t) => c.allow) /\ SourceFits(c, d)

CommitUnderWay(p) ==
  LET t == txn[p] IN
  /\ pc[p] # "idle" => t.call \in CallType
  /\ pc[p] \in {"lock"} \cup Holding => t.step \in CallType
  /\ pc[p] \in Holding => t.old \in Documents /\ SameCommit(t.old, current)
  /\ pc[p] \in {"snapshot", "compare", "replace"} =>
       \E git \in Trees : t.new = Candidate(t.step, t.old, git) /\ Checked(t.step, t.old, git)
  /\ pc[p] \in {"compare", "replace"} => t.old \in history
  /\ pc[p] = "replace" =>
       \A n \in DOMAIN edits : edits[n].safe =>
         /\ \E d \in history : n \in Contents(d)
         /\ edits[n].text => n \in Text(t.old)

\* Between the steps of a commit: the document it started from is still the one
\* committed, whatever was edited; the candidate was made of it after the
\* checks; its snapshot is there once it has been written; and when CURRENT.md
\* is about to be replaced nothing but an unsafe edit can get lost.
CommitsUnderWay == \A p \in Procs : CommitUnderWay(p)

\* An upgrade nothing stood in the way of, and during which nobody else wrote,
\* edited or checked out, is not refused half way.
UpgradesAreSmooth == \A p \in Procs : txn[p].calm => txn[p].answer # "refused"

\* Nobody resumes, takes over or migrates from a Git identity other than the
\* recorded one, and nobody writes on another branch, without having allowed
\* it, wherever the worktree moves while the command runs.
DriftIsReviewed ==
  [][\A o \in current'.ops \ current.ops :
       ~o.call.allow =>
         /\ ~BranchChanged(current.git, current'.git)
         /\ Reviews(o.call, current) => current'.git = current.git]_vars
=============================================================================
