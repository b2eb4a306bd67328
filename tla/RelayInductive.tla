--------------------------- MODULE RelayInductive ---------------------------
(***************************************************************************)
(* The inductive invariant of Relay: what is true between any two steps,   *)
(* of the store, of the work each process has under way, of the receipts   *)
(* and of the readers.  RelayProofs and RelayLedgerProofs show that every  *)
(* step preserves it; MCRelay checks it first.                             *)
(***************************************************************************)
EXTENDS Relay

\* A process that is doing anything holds the lock, so at most one is.
LockInv == \A p \in Procs : pc[p] # "idle" => lock = p

Committing == {"publish", "snapshot", "replace"}

\* A transaction is well formed for the step its process is at.
TxnInv ==
  \A p \in Procs :
    /\ pc[p] \in Committing => txn[p] \in Transaction
    /\ pc[p] = "stamp" =>
         /\ txn[p] \in Transaction
         /\ txn[p].hash \in Fingerprint
         /\ txn[p].id \in OperationId
         /\ txn[p].old \in Document
    /\ pc[p] = "snapshot" => txn[p].old \in Document /\ txn[p].old # None
    /\ pc[p] = "sweep" => sweep[p] \in Sweep

\* While a process works on a document, that document stays the committed one.
OldInv ==
  \A p \in Procs :
    /\ pc[p] \in Committing \cup {"stamp"} => txn[p].old = current
    /\ pc[p] = "sweep" => current # None

\* What is committed or archived is on disk, what is about to be committed has
\* been published, and what is about to be removed is needed by neither the
\* committed document nor a snapshot that is to stay.
StoreInv ==
  /\ wedged \subseteq files
  /\ CurrentResolvable
  /\ SnapshotsRecoverable
  /\ \A p \in Procs :
       /\ pc[p] \in {"snapshot", "replace"} => Readable(Planned(txn[p]))
       /\ pc[p] = "sweep" =>
            \A f \in sweep[p].garbage :
              /\ f \notin wedged
              /\ f \notin ObjectFiles(current)
              /\ f[1] # "segment"
              /\ \A s \in history \ sweep[p].expired : f \notin ObjectFiles(s)

BaseInv == TypeOK /\ LockInv /\ TxnInv /\ OldInv /\ StoreInv

-----------------------------------------------------------------------------
(* The ledger of receipts. *)

\* The inline receipts are those of the latest revisions, in order; the
\* archived ones are older.
Numbered(d) ==
  /\ Len(d.ops) <= d.rev
  /\ \A i \in 1 .. Len(d.ops) : d.ops[i].rev = d.rev - Len(d.ops) + i
  /\ \A r \in Archived(d) : r.rev + Len(d.ops) <= d.rev

\* What remains of LeaseAllows while a commit is under way: the clock may
\* have passed the holder's lease in the meantime.
LeaseStands(h, d) ==
  \/ h.cmd \in Takers /\ (~Live(d) \/ d.writer = h.writer)
  \/ h.cmd \in Holders /\ d.writer = h.writer
  \/ h.cmd = "recover" /\ ~Live(d)

\* The checks a transaction passed still hold of the document it started from.
Granted(t) ==
  /\ t.hash \in Requests(t.old.rev)
  /\ t.hash.exp = t.old.rev
  /\ t.id \in Ids(t.hash)
  /\ Known(t.id, t.old) = {}
  /\ LeaseStands(t.hash, t.old)

\* A stamped candidate adds one receipt to the document it replaces.
Succeeds(t) ==
  /\ t.new.rev = t.old.rev + 1
  /\ Numbered(t.new)
  /\ Receipts(t.new) =
       Receipts(t.old) \cup {[id |-> t.id, hash |-> t.hash, rev |-> t.old.rev + 1]}
  /\ IF t.hash.cmd \in Keepers
     THEN t.new.writer = t.hash.writer /\ t.new.until <= now + LeaseLen
     ELSE t.new.writer = None /\ t.new.until = 0

\* The document init creates.
Blank(d) ==
  /\ d.rev = 0 /\ d.writer = None /\ d.until = 0
  /\ d.ops = <<>> /\ d.chain = <<>>

CommitInv ==
  \A p \in Procs :
    /\ pc[p] = "stamp" =>
         /\ Granted(txn[p])
         /\ txn[p].new.ops = txn[p].old.ops
         /\ txn[p].new.chain = txn[p].old.chain
    /\ pc[p] \in Committing =>
         IF txn[p].old = None THEN Blank(txn[p].new)
         ELSE Granted(txn[p]) /\ Succeeds(txn[p])

ReceiptInv ==
  /\ current # None => Numbered(current)
  /\ OneReceiptPerRevision

\* The committed document is archived before it is replaced, and a collection
\* expires only what lies KeepHistory revisions back.
HistoryInv ==
  /\ HistoryIsLinear
  /\ RecentHistoryKept
  /\ \A p \in Procs :
       /\ pc[p] = "replace" /\ txn[p].old # None => txn[p].old \in history
       /\ pc[p] = "sweep" =>
            \A s \in sweep[p].expired : s.rev + KeepHistory <= current.rev

LedgerInv == CommitInv /\ ReceiptInv /\ HistoryInv

-----------------------------------------------------------------------------
(* The readers. *)

\* What a reader has still to read belongs to the document it read, which is
\* no younger than the committed one.
ViewInv ==
  /\ \A s \in history : Readable(SegmentFiles(s))
  /\ \A r \in Readers : view[r] # None =>
       /\ current # None /\ view[r].doc.rev <= current.rev
       /\ view[r].left \subseteq ObjectFiles(view[r].doc) \cup SegmentFiles(view[r].doc)
  /\ MissesAreExplained

IInv == BaseInv /\ LedgerInv /\ ViewInv
=============================================================================
