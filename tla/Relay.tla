-------------------------------- MODULE Relay --------------------------------
(***************************************************************************)
(* The transaction protocol of one relay directory: concurrent command     *)
(* processes that take the relay lock, read CURRENT.md, admit or refuse a  *)
(* request, plan a candidate document, publish the immutable files it      *)
(* refers to, archive the previous document and replace CURRENT.md;        *)
(* garbage collection under the same lock; readers that take no lock; and  *)
(* errors and kills between any two of those steps.                        *)
(*                                                                         *)
(* Files are content addressed in the code, so here a file's name is the   *)
(* structural value of its content.                                        *)
(***************************************************************************)
EXTENDS Operations, Sequences, FiniteSets

CONSTANTS Procs,        \* command processes
          Readers,      \* status / handoff / export processes
          Keep,         \* receipts a compaction leaves in the document
          SegMin,       \* surplus receipts an automatic compaction waits for
          SegMax,       \* receipts in one archive segment
          Sizes,        \* the sizes a candidate may come out at
          KeepHistory,  \* the snapshots gc --keep-history retains
          MaxRev,       \* bound on revisions
          MaxTime       \* bound on the clock

ASSUME ProcsAssumption == None \notin Procs
ASSUME ReceiptAssumption ==
  Keep \in Nat /\ SegMin \in Nat \ {0} /\ SegMax \in Nat \ {0}
ASSUME SizesAssumption == Sizes \subseteq {"below", "trigger", "limit"}
ASSUME KeepHistoryAssumption == KeepHistory \in Nat \ {0}
ASSUME BoundsAssumption == MaxRev \in Nat /\ MaxTime \in Nat

VARIABLES current,   \* CURRENT.md: a document, or None before init
          history,   \* .relay/history: the archived documents
          files,     \* the names under .relay/objects and .relay/receipts
          wedged,    \* those left with a second link by a killed publisher
          lock,      \* who holds CURRENT.md.lock
          pc,        \* where each command process is
          txn,       \* the transaction each has planned so far
          sweep,     \* what each garbage collection has still to remove
          now,       \* the clock
          view       \* what each reader is doing

storeVars == <<history, files, wedged>>
procVars == <<lock, pc, txn, sweep>>
vars == <<current, history, files, wedged, lock, pc, txn, sweep, now, view>>

-----------------------------------------------------------------------------
(* Documents and the files they depend on. *)

Document == [rev : Nat, writer : Writers \cup {None}, until : Nat,
             ops : Seq(Receipt), chain : Seq(Seq(Receipt)), data : SUBSET Records]

ASSUME DocumentAssumption == None \notin Document

Object(r) == <<"object", r>>
Index(S) == <<"index", S>>
Segment(c) == <<"segment", c>>

\* Every record's object and the index over them; the index of an empty
\* document still binds its acceptance map.
ObjectFiles(d) == {Object(r) : r \in d.data} \cup {Index(d.data)}

\* A segment's header names its predecessor, so its name covers the chain so far.
SegmentFiles(d) == {Segment(SubSeq(d.chain, 1, i)) : i \in 1 .. Len(d.chain)}

Elements(s) == {s[i] : i \in DOMAIN s}
Archived(d) == UNION {Elements(s) : s \in Elements(d.chain)}
Receipts(d) == Elements(d.ops) \cup Archived(d)

Readable(F) == F \subseteq files \ wedged

-----------------------------------------------------------------------------
(* The lease and the request. *)

Live(d) == d.writer # None /\ d.until > now

\* Mutant of LeaseAllows: a taker does not look at the live lease.
LeaseIgnored(h, d) ==
  \/ h.cmd \in Takers
  \/ h.cmd \in Holders /\ d.writer = h.writer /\ Live(d)
  \/ h.cmd = "recover" /\ ~Live(d)

LeaseAllows(h, d) ==
  \/ h.cmd \in Takers /\ (~Live(d) \/ d.writer = h.writer)
  \/ h.cmd \in Holders /\ d.writer = h.writer /\ Live(d)
  \/ h.cmd = "recover" /\ ~Live(d)

\* Mutant of Known: a retry is looked up among the inline receipts only.
KnownInline(id, d) == {r \in Elements(d.ops) : r.id = id}

Known(id, d) == {r \in Receipts(d) : r.id = id}

\* recover --snapshot takes the document that was archived at revision h.arg
\* and needs all of its objects; everything else resolves CURRENT itself.
Source(h, d) ==
  IF h.cmd = "recover" /\ h.arg # None
  THEN {s \in history : s.rev = h.arg}
  ELSE {d}

\* Mutant of Patched: the revision recover names is taken for a patch.
PatchedAlways(h, data) ==
  CASE h.arg = None -> data
    [] h.cmd = "prune" -> data \ {h.arg}
    [] OTHER -> data \cup {h.arg}

Patched(h, data) ==
  CASE h.arg = None \/ h.cmd = "recover" -> data
    [] h.cmd = "prune" -> data \ {h.arg}
    [] OTHER -> data \cup {h.arg}

\* Mutant of Rebased: a recovery brings back the snapshot's receipts as well.
RebasedWholesale(h, d, s) == [s EXCEPT !.data = Patched(h, s.data), !.rev = d.rev]

\* What the command makes of the document: only the managed progress comes
\* from the source, the receipts and their chain stay the committed ones.
Rebased(h, d, s) == [d EXCEPT !.data = Patched(h, s.data)]

-----------------------------------------------------------------------------
(* Receipt compaction. *)

Surplus(ops) == IF Len(ops) > Keep THEN Len(ops) - Keep ELSE 0

\* Mutant of Segments: the last, partial segment is forgotten.
WholeSegments(ops, n) ==
  [i \in 1 .. n \div SegMax |-> SubSeq(ops, (i - 1) * SegMax + 1, i * SegMax)]

\* The first n receipts in segments of SegMax, oldest first.
Segments(ops, n) ==
  [i \in 1 .. (n + SegMax - 1) \div SegMax |->
     SubSeq(ops, (i - 1) * SegMax + 1, IF i * SegMax < n THEN i * SegMax ELSE n)]

\* compact forces it; otherwise it waits for a full batch, unless the
\* candidate would not fit at all.  --no-auto-compact acts like "below".
Compacts(cmd, size, ops) ==
  \/ cmd = "compact"
  \/ size = "trigger" /\ Surplus(ops) >= SegMin
  \/ size = "limit"

\* Mutant of Compact: the new segments replace the chain.
CompactAfresh(d) ==
  [d EXCEPT !.ops = SubSeq(d.ops, Surplus(d.ops) + 1, Len(d.ops)),
            !.chain = Segments(d.ops, Surplus(d.ops))]

Compact(d) ==
  LET n == Surplus(d.ops)
  IN  [d EXCEPT !.ops = SubSeq(d.ops, n + 1, Len(d.ops)),
                !.chain = d.chain \o Segments(d.ops, n)]

-----------------------------------------------------------------------------
(* A command's steps. *)

Release(p) == lock' = None /\ pc' = [pc EXCEPT ![p] = "idle"]

\* Mutant of Acquire: the lock does not exclude.
AcquireShared(p) ==
  /\ pc[p] = "idle"
  /\ lock' = p
  /\ pc' = [pc EXCEPT ![p] = "plan"]
  /\ UNCHANGED <<current, storeVars, txn, sweep, now, view>>

Acquire(p) ==
  /\ pc[p] = "idle"
  /\ lock = None
  /\ lock' = p
  /\ pc' = [pc EXCEPT ![p] = "plan"]
  /\ UNCHANGED <<current, storeVars, txn, sweep, now, view>>

\* init: refused when CURRENT.md exists.
Initialize(p) ==
  /\ pc[p] = "plan"
  /\ current = None
  /\ txn' = [txn EXCEPT ![p] = [hash |-> None, id |-> None, old |-> None,
       new |-> [rev |-> 0, writer |-> None, until |-> 0,
                ops |-> <<>>, chain |-> <<>>, data |-> {}]]]
  /\ pc' = [pc EXCEPT ![p] = "publish"]
  /\ UNCHANGED <<current, storeVars, lock, sweep, now, view>>

\* Mutant of Admissible: the expected revision is not compared.
AdmissibleStale(id, h) ==
  /\ Readable(SegmentFiles(current))
  /\ Known(id, current) = {}
  /\ LeaseAllows(h, current)
  /\ \E s \in Source(h, current) : Readable(ObjectFiles(s))

\* The checks of mutate up to the planning of the candidate: the archived
\* receipts must be readable, the operation must be new, the revision must be
\* the expected one and the lease must allow the command.
Admissible(id, h) ==
  /\ Readable(SegmentFiles(current))
  /\ Known(id, current) = {}
  /\ h.exp = current.rev
  /\ LeaseAllows(h, current)
  /\ \E s \in Source(h, current) : Readable(ObjectFiles(s))

Admit(p) ==
  /\ pc[p] = "plan"
  /\ current # None
  /\ current.rev < MaxRev
  /\ \E h \in Requests(current.rev) : \E id \in Ids(h) :
       /\ Admissible(id, h)
       /\ \E s \in Source(h, current) :
            /\ Readable(ObjectFiles(s))
            /\ txn' = [txn EXCEPT ![p] =
                 [hash |-> h, id |-> id, old |-> current, new |-> Rebased(h, current, s)]]
  /\ pc' = [pc EXCEPT ![p] = "stamp"]
  /\ UNCHANGED <<current, storeVars, lock, sweep, now, view>>

\* A replayed operation is answered from its receipt; everything else the
\* checks turn down is refused, as is init once CURRENT.md exists.  Neither
\* writes anything.
Decline(p) ==
  /\ pc[p] = "plan"
  /\ current # None
  /\ \E h \in Requests(current.rev) : \E id \in Ids(h) : ~Admissible(id, h)
  /\ Release(p)
  /\ UNCHANGED <<current, storeVars, txn, sweep, now, view>>

\* The clock is read again, the receipt is appended, the lease is stamped or
\* released and the receipts are compacted when the candidate asks for it.
Stamp(p) ==
  /\ pc[p] = "stamp"
  /\ LET t == txn[p]
         receipt == [id |-> t.id, hash |-> t.hash, rev |-> t.old.rev + 1]
         keeps == t.hash.cmd \in Keepers
         full == [t.new EXCEPT !.rev = t.old.rev + 1,
                               !.ops = Append(t.new.ops, receipt),
                               !.writer = IF keeps THEN t.hash.writer ELSE None,
                               !.until = IF keeps THEN now + LeaseLen ELSE 0]
     IN  \E size \in Sizes :
           txn' = [txn EXCEPT ![p].new =
                     IF Compacts(t.hash.cmd, size, full.ops) THEN Compact(full) ELSE full]
  /\ pc' = [pc EXCEPT ![p] = "publish"]
  /\ UNCHANGED <<current, storeVars, lock, sweep, now, view>>

\* Everything the candidate needs beyond the receipt chain it inherits.
\* Mutant of Planned: the commit does not wait for its receipt segments.
PlannedObjects(t) == ObjectFiles(t.new)

Planned(t) ==
  ObjectFiles(t.new) \cup
  (SegmentFiles(t.new) \ (IF t.old = None THEN {} ELSE SegmentFiles(t.old)))

Rank(f) == CASE f[1] = "object" -> 1 [] f[1] = "index" -> 2 [] OTHER -> 2 + Len(f[2])

\* The next file to link: objects, then their index, then segments in order.
NextFile(t, f) ==
  /\ f \in Planned(t) \ files
  /\ \A g \in Planned(t) \ files : Rank(f) <= Rank(g)

\* A path that keeps a second link is refused: an object's when the plan names
\* it, a segment's when its turn to be stored comes.
Obstructed(t) ==
  \E f \in Planned(t) \cap wedged :
    f[1] = "segment" => \A g \in Planned(t) \ files : Rank(f) <= Rank(g)

PublishFile(p) ==
  /\ pc[p] = "publish"
  /\ ~Obstructed(txn[p])
  /\ \E f \in Planned(txn[p]) : NextFile(txn[p], f) /\ files' = files \cup {f}
  /\ UNCHANGED <<current, history, wedged, procVars, now, view>>

\* Mutant of GiveUp: the publisher waits for the second link to go away.
GiveUpNever(p) ==
  /\ pc[p] = "publish"
  /\ Obstructed(txn[p])
  /\ UNCHANGED vars

GiveUp(p) ==
  /\ pc[p] = "publish"
  /\ Obstructed(txn[p])
  /\ txn' = [txn EXCEPT ![p] = None]
  /\ Release(p)
  /\ UNCHANGED <<current, storeVars, sweep, now, view>>

\* Publication is over when every planned file is in place with one link.
Published(p) ==
  /\ pc[p] = "publish"
  /\ Readable(Planned(txn[p]))
  /\ pc' = [pc EXCEPT ![p] = IF txn[p].old = None THEN "replace" ELSE "snapshot"]
  /\ UNCHANGED <<current, storeVars, lock, txn, sweep, now, view>>

Snapshot(p) ==
  /\ pc[p] = "snapshot"
  /\ current = txn[p].old
  /\ history' = history \cup {txn[p].old}
  /\ pc' = [pc EXCEPT ![p] = "replace"]
  /\ UNCHANGED <<current, files, wedged, lock, txn, sweep, now, view>>

Replace(p) ==
  /\ pc[p] = "replace"
  /\ current = txn[p].old
  /\ current' = txn[p].new
  /\ txn' = [txn EXCEPT ![p] = None]
  /\ Release(p)
  /\ UNCHANGED <<storeVars, sweep, now, view>>

-----------------------------------------------------------------------------
(* Garbage collection, under the same lock. *)

\* Mutant of Retained: one snapshot too few.
RetainedShort == {s \in history : Cardinality({t \in history : t.rev > s.rev}) < KeepHistory - 1}

\* The newest KeepHistory snapshots.
Retained == {s \in history : Cardinality({t \in history : t.rev > s.rev}) < KeepHistory}

\* Mutant of Reachable: the retained snapshots do not hold on to their objects.
ReachableFromCurrent == ObjectFiles(current)

Reachable == ObjectFiles(current) \cup UNION {ObjectFiles(s) : s \in Retained}

\* Mutant of Garbage: files with a second link are collected too.
GarbageAnyLinks == {f \in files : f[1] # "segment" /\ f \notin Reachable}

Garbage == {f \in files \ wedged : f[1] # "segment" /\ f \notin Reachable}

GcPlan(p) ==
  /\ pc[p] = "plan"
  /\ current # None
  /\ Live(current)
  /\ Readable(Reachable)
  /\ sweep' = [sweep EXCEPT ![p] =
       [expired |-> history \ Retained, garbage |-> Garbage]]
  /\ pc' = [pc EXCEPT ![p] = "sweep"]
  /\ UNCHANGED <<current, storeVars, lock, txn, now, view>>

\* Expired snapshots go first, the newest of them first.
RemoveSnapshot(p) ==
  /\ pc[p] = "sweep"
  /\ \E s \in sweep[p].expired :
       /\ \A t \in sweep[p].expired : t.rev <= s.rev
       /\ history' = history \ {s}
       /\ sweep' = [sweep EXCEPT ![p].expired = @ \ {s}]
  /\ UNCHANGED <<current, files, wedged, lock, pc, txn, now, view>>

RemoveObject(p) ==
  /\ pc[p] = "sweep"
  /\ sweep[p].expired = {}
  /\ \E f \in sweep[p].garbage :
       /\ files' = files \ {f}
       /\ sweep' = [sweep EXCEPT ![p].garbage = @ \ {f}]
  /\ UNCHANGED <<current, history, wedged, lock, pc, txn, now, view>>

GcDone(p) ==
  /\ pc[p] = "sweep"
  /\ sweep[p] = [expired |-> {}, garbage |-> {}]
  /\ sweep' = [sweep EXCEPT ![p] = None]
  /\ Release(p)
  /\ UNCHANGED <<current, storeVars, txn, now, view>>

-----------------------------------------------------------------------------
(* Failures, time and readers. *)

\* An error before the commit, or the death of the process: the operating
\* system drops the lock and nothing the process had planned survives.
Fail(p) ==
  /\ pc[p] # "idle"
  /\ txn' = [txn EXCEPT ![p] = None]
  /\ sweep' = [sweep EXCEPT ![p] = None]
  /\ Release(p)
  /\ UNCHANGED <<current, storeVars, now, view>>

\* Death between the link that publishes a file and the unlink of its
\* temporary name: the file stays in place with two links.
FailInWindow(p) ==
  /\ pc[p] = "publish"
  /\ ~Obstructed(txn[p])
  /\ \E f \in Planned(txn[p]) :
       /\ NextFile(txn[p], f)
       /\ files' = files \cup {f}
       /\ wedged' = wedged \cup {f}
  /\ txn' = [txn EXCEPT ![p] = None]
  /\ Release(p)
  /\ UNCHANGED <<current, history, sweep, now, view>>

Tick ==
  /\ now < MaxTime
  /\ now' = now + 1
  /\ UNCHANGED <<current, storeVars, procVars, view>>

\* What a reader resolves: coverage, handoff and archive the objects, status
\* and export the receipt segments with them.
Wanted(d) == {ObjectFiles(d), ObjectFiles(d) \cup SegmentFiles(d)}

\* A reader reads CURRENT.md once and then the files, one after the other.
ReadCurrent(r) ==
  /\ view[r] = None
  /\ current # None
  /\ \E F \in Wanted(current) :
       view' = [view EXCEPT ![r] = [doc |-> current, left |-> F, ok |-> TRUE]]
  /\ UNCHANGED <<current, storeVars, procVars, now>>

ReadFile(r) ==
  /\ view[r] # None
  /\ view[r].ok
  /\ \E f \in view[r].left :
       view' = [view EXCEPT ![r] =
         [doc |-> @.doc, left |-> @.left \ {f}, ok |-> Readable({f})]]
  /\ UNCHANGED <<current, storeVars, procVars, now>>

\* The reader reports what it found.
Report(r) ==
  /\ view[r] # None
  /\ view[r].left = {} \/ ~view[r].ok
  /\ view' = [view EXCEPT ![r] = None]
  /\ UNCHANGED <<current, storeVars, procVars, now>>

-----------------------------------------------------------------------------
Init ==
  /\ current = None
  /\ history = {}
  /\ files = {}
  /\ wedged = {}
  /\ lock = None
  /\ pc = [p \in Procs |-> "idle"]
  /\ txn = [p \in Procs |-> None]
  /\ sweep = [p \in Procs |-> None]
  /\ now = 0
  /\ view = [r \in Readers |-> None]

Command(p) ==
  \/ Initialize(p) \/ Admit(p) \/ Decline(p) \/ Stamp(p)
  \/ PublishFile(p) \/ GiveUp(p) \/ Published(p)
  \/ Snapshot(p) \/ Replace(p)

Collect(p) == GcPlan(p) \/ RemoveSnapshot(p) \/ RemoveObject(p) \/ GcDone(p)

Read(r) == ReadCurrent(r) \/ ReadFile(r) \/ Report(r)

Next ==
  \/ \E p \in Procs :
       Acquire(p) \/ Command(p) \/ Collect(p) \/ Fail(p) \/ FailInWindow(p)
  \/ Tick
  \/ \E r \in Readers : Read(r)

Spec == Init /\ [][Next]_vars

\* The scheduler runs a process that can take a step; nothing makes a user
\* start a command, a process fail, the clock advance or a lease lapse.
Fairness ==
  \A p \in Procs : WF_vars(Command(p) \/ RemoveSnapshot(p) \/ RemoveObject(p) \/ GcDone(p))

FairSpec == Spec /\ Fairness

-----------------------------------------------------------------------------
(* Properties. *)

Step == {"idle", "plan", "stamp", "publish", "snapshot", "replace", "sweep"}

FileName ==
  ({"object"} \X Records) \cup ({"index"} \X SUBSET Records)
  \cup ({"segment"} \X Seq(Seq(Receipt)))

Transaction ==
  [hash : Fingerprint \cup {None}, id : OperationId \cup {None},
   old : Document \cup {None}, new : Document]

Sweep == [expired : SUBSET Document, garbage : SUBSET FileName]

View == [doc : Document, left : SUBSET FileName, ok : BOOLEAN]

TypeOK ==
  /\ current \in Document \cup {None}
  /\ history \in SUBSET Document
  /\ files \in SUBSET FileName
  /\ wedged \in SUBSET FileName
  /\ lock \in Procs \cup {None}
  /\ pc \in [Procs -> Step]
  /\ txn \in [Procs -> Transaction \cup {None}]
  /\ sweep \in [Procs -> Sweep \cup {None}]
  /\ now \in Nat
  /\ view \in [Readers -> View \cup {None}]

\* Whatever is killed or collected and whenever, the committed document can be
\* resolved: every object, index and archived receipt segment it depends on is
\* there under a single link.
CurrentResolvable ==
  current # None => Readable(ObjectFiles(current) \cup SegmentFiles(current))

\* Every archived snapshot can be recovered from: garbage collection never
\* takes an object from under a snapshot it has not removed first.
SnapshotsRecoverable == \A s \in history : Readable(ObjectFiles(s))

\* The receipts, inline and archived together, are one per revision with no
\* operation id used twice: no operation is ever applied a second time.
OneReceiptPerRevision ==
  current # None =>
    /\ \A n \in 1 .. current.rev : \E r \in Receipts(current) : r.rev = n
    /\ \A r \in Receipts(current) :
         /\ r.rev \in 1 .. current.rev
         /\ r.hash.exp = r.rev - 1
         /\ \A q \in Receipts(current) \ {r} : q.rev # r.rev /\ q.id # r.id
    /\ Elements(current.ops) \cap Archived(current) = {}

\* History never forks: an archived document holds exactly the receipts the
\* committed one has up to that revision, and no revision has two documents.
HistoryIsLinear ==
  \A s \in history :
    /\ current # None /\ s.rev <= current.rev
    /\ Receipts(s) = {r \in Receipts(current) : r.rev <= s.rev}
    /\ \A t \in history \cup {current} : t.rev = s.rev => t = s

\* A garbage collection of KeepHistory snapshots leaves the KeepHistory - 1
\* revisions before the committed one recoverable (a commit killed after its
\* snapshot makes the committed revision itself the other one).
RecentHistoryKept ==
  current # None =>
    \A n \in 0 .. current.rev - 1 :
      n + KeepHistory > current.rev => \E s \in history : s.rev = n

\* While a lease is live nobody but its holder commits, however long ago the
\* committing process checked it.
LeaseRespected ==
  [][\A p \in Procs :
       /\ current # None /\ Live(current)
       /\ current' # current
       /\ pc[p] = "replace" /\ pc'[p] = "idle"
       => txn[p].hash.writer = current.writer]_vars

\* A reader that took no lock, an export of a bundle among them, finds an object
\* or a receipt segment missing only if the document it had read was replaced and
\* then collected while it was reading.
MissesAreExplained ==
  \A r \in Readers :
    view[r] # None /\ ~view[r].ok => view[r].doc \notin history \cup {current}

\* "Unreachable files after a precommit failure are harmless": no later
\* transaction is turned down because of a file that nothing committed needs.
LeftoversAreHarmless ==
  \A p \in Procs : pc[p] = "publish" => ~Obstructed(txn[p])

\* A command that has the relay lock gives it up again.
LockIsReleased == \A p \in Procs : lock = p ~> lock # p

\* The relay implements the ledger: each operation is accepted once, at the
\* replacement of CURRENT.md, on top of the revision it expected.
L == INSTANCE Ledger WITH
       revision <- IF current = None THEN 0 ELSE current.rev,
       receipts <- IF current = None THEN {} ELSE Receipts(current),
       holder <- IF current = None THEN None ELSE current.writer,
       until <- IF current = None THEN 0 ELSE current.until

ImplementsLedger == L!Spec
=============================================================================
