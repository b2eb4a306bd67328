----------------------------- MODULE RelayProofs -----------------------------
(***************************************************************************)
(* Relay, for every value of its constants: type correctness, mutual       *)
(* exclusion of the lock holder, and resolvability of the committed and    *)
(* of the archived documents.                                              *)
(***************************************************************************)
EXTENDS RelayInductive, SequenceTheorems, TLAPS

-----------------------------------------------------------------------------
(* What the operators on documents return. *)

LEMMA RequestsAreFingerprints ==
  ASSUME NEW n \in Nat, NEW h \in Requests(n)
  PROVE  h \in Fingerprint /\ h.exp <= n
  BY DEF Requests, Fingerprint

LEMMA IdsAreOperationIds ==
  ASSUME NEW h \in Fingerprint, NEW id \in Ids(h)
  PROVE  id \in OperationId
  BY DEF Ids, OperationId

LEMMA SurplusBounds ==
  ASSUME NEW ops \in Seq(Receipt)
  PROVE  Surplus(ops) \in 0 .. Len(ops)
  BY ReceiptAssumption DEF Surplus

\* Segments yields a sequence of sequences of receipts.
LEMMA SegmentsType ==
  ASSUME NEW ops \in Seq(Receipt), NEW n \in 0 .. Len(ops)
  PROVE  Segments(ops, n) \in Seq(Seq(Receipt))
<1> DEFINE k == (n + SegMax - 1) \div SegMax
           lo(i) == (i - 1) * SegMax + 1
           hi(i) == IF i * SegMax < n THEN i * SegMax ELSE n
           chunk(i) == SubSeq(ops, lo(i), hi(i))
<1>1. k \in Nat
  BY ReceiptAssumption
<1>2. ASSUME NEW i \in 1 .. k
      PROVE  chunk(i) \in Seq(Receipt)
  <2>1. (i - 1) * SegMax \in Nat /\ i * SegMax \in Nat
    BY ReceiptAssumption, i \in Nat, i - 1 \in Nat
  <2>2. lo(i) \in Int /\ lo(i) >= 1 /\ hi(i) \in Int /\ hi(i) <= Len(ops)
    BY <2>1
  <2> HIDE DEF lo, hi
  <2>3. \A j \in lo(i) .. hi(i) : ops[j] \in Receipt
    BY <2>2, ElementOfSeq
  <2>4. QED
    BY <2>2, <2>3, SubSeqProperties
<1> HIDE DEF k, chunk
<1>3. [i \in 1 .. k |-> chunk(i)] \in [1 .. k -> Seq(Receipt)]
  BY <1>2
<1>4. [i \in 1 .. k |-> chunk(i)] \in Seq(Seq(Receipt))
  BY <1>1, <1>3, SeqDef
<1>5. QED
  BY <1>4 DEF Segments, k, chunk, lo, hi

LEMMA CompactType ==
  ASSUME NEW d \in Document
  PROVE  Compact(d) \in Document
<1> DEFINE n == Surplus(d.ops)
<1>1. d.ops \in Seq(Receipt) /\ d.chain \in Seq(Seq(Receipt))
  BY DEF Document
<1>2. n \in 0 .. Len(d.ops) /\ Len(d.ops) \in Nat
  BY <1>1, SurplusBounds, LenProperties
<1>3. SubSeq(d.ops, n + 1, Len(d.ops)) \in Seq(Receipt)
  BY <1>1, <1>2, ElementOfSeq, SubSeqProperties
<1>4. d.chain \o Segments(d.ops, n) \in Seq(Seq(Receipt))
  BY <1>1, <1>2, SegmentsType, ConcatProperties
<1>5. QED
  BY <1>3, <1>4 DEF Compact, Document

LEMMA FileNames ==
  /\ \A d \in Document : ObjectFiles(d) \subseteq FileName /\ SegmentFiles(d) \subseteq FileName
  /\ \A t \in Transaction : Planned(t) \subseteq FileName
<1>1. ASSUME NEW d \in Document
      PROVE  ObjectFiles(d) \subseteq FileName
  BY DEF Document, ObjectFiles, Object, Index, FileName
<1>2. ASSUME NEW d \in Document
      PROVE  SegmentFiles(d) \subseteq FileName
  <2>1. d.chain \in Seq(Seq(Receipt))
    BY DEF Document
  <2>2. ASSUME NEW i \in 1 .. Len(d.chain)
        PROVE  SubSeq(d.chain, 1, i) \in Seq(Seq(Receipt))
    BY <2>1, ElementOfSeq, SubSeqProperties
  <2>3. QED
    BY <2>2 DEF SegmentFiles, Segment, FileName
<1>3. ASSUME NEW t \in Transaction
      PROVE  Planned(t) \subseteq FileName
  <2>1. t.new \in Document
    BY DEF Transaction
  <2>2. QED
    BY <1>1, <1>2, <2>1 DEF Planned
<1>4. QED
  BY <1>1, <1>2, <1>3

\* What a command makes of a document is a document.
LEMMA RebasedType ==
  ASSUME NEW n \in Nat, NEW h \in Requests(n), NEW d \in Document, NEW s \in Document
  PROVE  Rebased(h, d, s) \in Document
<1>1. s.data \subseteq Records /\ d.data \subseteq Records
  BY DEF Document
<1>2. h.arg \in Arguments(h.cmd, h.exp)
  BY DEF Requests
<1>3. Patched(h, s.data) \subseteq Records
  <2>1. CASE h.arg = None \/ h.cmd = "recover"
    BY <1>1, <2>1 DEF Patched
  <2>2. CASE ~(h.arg = None \/ h.cmd = "recover")
    BY <1>1, <1>2, <2>2 DEF Patched, Arguments
  <2>3. QED
    BY <2>1, <2>2
<1>4. QED
  BY <1>3 DEF Rebased, Document

\* The candidate a stamp leaves in a transaction is a document.
LEMMA StampType ==
  ASSUME NEW p \in Procs, TypeOK, Stamp(p),
         txn[p] \in Transaction, txn[p].hash \in Fingerprint,
         txn[p].id \in OperationId, txn[p].old \in Document
  PROVE  txn'[p] \in Transaction
<1> DEFINE t == txn[p]
           receipt == [id |-> t.id, hash |-> t.hash, rev |-> t.old.rev + 1]
           keeps == t.hash.cmd \in Keepers
           full == [t.new EXCEPT !.rev = t.old.rev + 1,
                                 !.ops = Append(t.new.ops, receipt),
                                 !.writer = IF keeps THEN t.hash.writer ELSE None,
                                 !.until = IF keeps THEN now + LeaseLen ELSE 0]
<1>1. t.new \in Document /\ t.old.rev + 1 \in Nat
  BY DEF Transaction, Document
<1>2. receipt \in Receipt
  BY <1>1 DEF Receipt
<1>3. Append(t.new.ops, receipt) \in Seq(Receipt)
  BY <1>1, <1>2, AppendProperties DEF Document
<1>4. t.hash.writer \in Writers
  BY DEF Fingerprint
<1>5. now + LeaseLen \in Nat
  BY LeaseAssumption DEF TypeOK
<1>6. full \in Document
  BY <1>1, <1>3, <1>4, <1>5 DEF Document
<1> HIDE DEF full
<1>7. Compact(full) \in Document
  BY <1>6, CompactType
<1>8. txn'[p] \in {[t EXCEPT !.new = full], [t EXCEPT !.new = Compact(full)]}
  BY DEF Stamp, TypeOK, full
<1>9. QED
  BY <1>6, <1>7, <1>8 DEF Transaction

-----------------------------------------------------------------------------
(* Type correctness. *)

TInv == TypeOK /\ TxnInv

LEMMA TypeInit == Init => TInv
  BY DEF Init, TInv, TypeOK, TxnInv, Step, Committing

\* Nothing but what the action touches has to be typed again.
LEMMA TypeStep == TInv /\ [Next]_vars => TInv'
<1> SUFFICES ASSUME TInv, [Next]_vars
             PROVE  TInv'
  OBVIOUS
<1> USE DEF TInv, TypeOK, Step, Committing
<1>1. ASSUME NEW p \in Procs, Acquire(p)
      PROVE  TInv'
  BY <1>1 DEF Acquire, storeVars, TxnInv
<1>2. ASSUME NEW p \in Procs, Initialize(p)
      PROVE  TInv'
  <2>1. txn'[p] \in Transaction
    <3>1. [rev |-> 0, writer |-> None, until |-> 0, ops |-> <<>>, chain |-> <<>>,
           data |-> {}] \in Document
      BY EmptySeq DEF Document
    <3>2. QED
      BY <1>2, <3>1 DEF Initialize, Transaction
  <2>2. QED
    BY <1>2, <2>1 DEF Initialize, storeVars, TxnInv
<1>3. ASSUME NEW p \in Procs, Admit(p)
      PROVE  TInv'
  <2>1. current \in Document
    BY <1>3 DEF Admit
  <2>2. PICK h \in Requests(current.rev) :
          \E id \in Ids(h) : \E s \in Source(h, current) :
            txn' = [txn EXCEPT ![p] =
              [hash |-> h, id |-> id, old |-> current, new |-> Rebased(h, current, s)]]
    BY <1>3 DEF Admit
  <2> PICK id \in Ids(h) : \E s \in Source(h, current) :
        txn' = [txn EXCEPT ![p] =
          [hash |-> h, id |-> id, old |-> current, new |-> Rebased(h, current, s)]]
    BY <2>2
  <2> PICK s \in Source(h, current) :
        txn' = [txn EXCEPT ![p] =
          [hash |-> h, id |-> id, old |-> current, new |-> Rebased(h, current, s)]]
    OBVIOUS
  <2>3. s \in Document
    BY <2>1 DEF Source
  <2>4. h \in Fingerprint /\ id \in OperationId /\ Rebased(h, current, s) \in Document
    BY <2>1, <2>3, RequestsAreFingerprints, IdsAreOperationIds, RebasedType DEF Document
  <2>5. /\ txn'[p] \in Transaction
        /\ txn'[p].hash \in Fingerprint /\ txn'[p].id \in OperationId
        /\ txn'[p].old \in Document
    BY <2>1, <2>4 DEF Transaction
  <2>6. QED
    BY <1>3, <2>5 DEF Admit, storeVars, TxnInv
<1>4. ASSUME NEW p \in Procs, Decline(p)
      PROVE  TInv'
  BY <1>4 DEF Decline, Release, storeVars, TxnInv
<1>5. ASSUME NEW p \in Procs, Stamp(p)
      PROVE  TInv'
  <2>1. txn'[p] \in Transaction
    BY <1>5, StampType DEF Stamp, TxnInv
  <2>2. QED
    BY <1>5, <2>1 DEF Stamp, storeVars, TxnInv
<1>6. ASSUME NEW p \in Procs, PublishFile(p)
      PROVE  TInv'
  <2>1. Planned(txn[p]) \subseteq FileName
    BY <1>6, FileNames DEF PublishFile, TxnInv
  <2>2. files' \in SUBSET FileName
    BY <1>6, <2>1 DEF PublishFile
  <2>3. QED
    BY <1>6, <2>2 DEF PublishFile, procVars, TxnInv
<1>7. ASSUME NEW p \in Procs, GiveUp(p)
      PROVE  TInv'
  BY <1>7 DEF GiveUp, Release, storeVars, TxnInv
<1>8. ASSUME NEW p \in Procs, Published(p)
      PROVE  TInv'
  BY <1>8 DEF Published, storeVars, TxnInv, Transaction
<1>9. ASSUME NEW p \in Procs, Snapshot(p)
      PROVE  TInv'
  BY <1>9 DEF Snapshot, TxnInv
<1>10. ASSUME NEW p \in Procs, Replace(p)
       PROVE  TInv'
  BY <1>10 DEF Replace, Release, storeVars, TxnInv, Transaction
<1>11. ASSUME NEW p \in Procs, GcPlan(p)
       PROVE  TInv'
  <2>1. sweep'[p] \in Sweep
    BY <1>11 DEF GcPlan, Garbage, Sweep
  <2>2. QED
    BY <1>11, <2>1 DEF GcPlan, storeVars, TxnInv
<1>12. ASSUME NEW p \in Procs, RemoveSnapshot(p)
       PROVE  TInv'
  <2>1. sweep'[p] \in Sweep
    BY <1>12 DEF RemoveSnapshot, TxnInv, Sweep
  <2>2. history' \in SUBSET Document
    BY <1>12 DEF RemoveSnapshot
  <2>3. QED
    BY <1>12, <2>1, <2>2 DEF RemoveSnapshot, TxnInv
<1>13. ASSUME NEW p \in Procs, RemoveObject(p)
       PROVE  TInv'
  <2>1. sweep'[p] \in Sweep
    BY <1>13 DEF RemoveObject, TxnInv, Sweep
  <2>2. files' \in SUBSET FileName
    BY <1>13 DEF RemoveObject
  <2>3. QED
    BY <1>13, <2>1, <2>2 DEF RemoveObject, TxnInv
<1>14. ASSUME NEW p \in Procs, GcDone(p)
       PROVE  TInv'
  BY <1>14 DEF GcDone, Release, storeVars, TxnInv
<1>15. ASSUME NEW p \in Procs, Fail(p)
       PROVE  TInv'
  BY <1>15 DEF Fail, Release, storeVars, TxnInv
<1>16. ASSUME NEW p \in Procs, FailInWindow(p)
       PROVE  TInv'
  <2>1. Planned(txn[p]) \subseteq FileName
    BY <1>16, FileNames DEF FailInWindow, TxnInv
  <2>2. files' \in SUBSET FileName /\ wedged' \in SUBSET FileName
    BY <1>16, <2>1 DEF FailInWindow
  <2>3. QED
    BY <1>16, <2>2 DEF FailInWindow, Release, TxnInv
<1>17. CASE Tick
  BY <1>17 DEF Tick, storeVars, procVars, TxnInv
<1>18. ASSUME NEW r \in Readers, Read(r)
       PROVE  TInv'
  <2>1. CASE ReadCurrent(r)
    <3>1. \A F \in Wanted(current) : [doc |-> current, left |-> F, ok |-> TRUE] \in View
      BY <2>1, FileNames DEF ReadCurrent, Wanted, View
    <3>2. QED
      BY <2>1, <3>1 DEF ReadCurrent, storeVars, procVars, TxnInv
  <2>2. CASE ReadFile(r)
    <3>1. view'[r] \in View
      BY <2>2 DEF ReadFile, View, Readable
    <3>2. QED
      BY <2>2, <3>1 DEF ReadFile, storeVars, procVars, TxnInv
  <2>3. CASE Report(r)
    BY <2>3 DEF Report, storeVars, procVars, TxnInv
  <2>4. QED
    BY <1>18, <2>1, <2>2, <2>3 DEF Read
<1>19. CASE UNCHANGED vars
  BY <1>19 DEF vars, storeVars, procVars, TxnInv
<1>20. QED
  BY <1>1, <1>2, <1>3, <1>4, <1>5, <1>6, <1>7, <1>8, <1>9, <1>10, <1>11, <1>12, <1>13,
     <1>14, <1>15, <1>16, <1>17, <1>18, <1>19 DEF Next, Command, Collect

\* Every variable keeps its type, and a transaction under way has everything
\* the steps that follow read from it.
THEOREM TypeCorrect == Spec => []TypeOK
<1>1. TInv => TypeOK
  BY DEF TInv
<1>2. QED
  BY <1>1, TypeInit, TypeStep, PTL DEF Spec

-----------------------------------------------------------------------------
(* The lock excludes. *)

LEMMA LockInit == Init => LockInv
  BY DEF Init, LockInv

LEMMA LockStep == TypeOK /\ LockInv /\ [Next]_vars => LockInv'
<1> SUFFICES ASSUME TypeOK, LockInv, [Next]_vars
             PROVE  LockInv'
  OBVIOUS
<1> USE ProcsAssumption DEF TypeOK, LockInv, Step
<1>1. ASSUME NEW p \in Procs, Acquire(p)
      PROVE  LockInv'
  BY <1>1 DEF Acquire
<1>2. ASSUME NEW p \in Procs, Command(p)
      PROVE  LockInv'
  BY <1>2 DEF Command, Initialize, Admit, Decline, Stamp, PublishFile, GiveUp, Published,
              Snapshot, Replace, Release, procVars
<1>3. ASSUME NEW p \in Procs, Collect(p)
      PROVE  LockInv'
  BY <1>3 DEF Collect, GcPlan, RemoveSnapshot, RemoveObject, GcDone, Release
<1>4. ASSUME NEW p \in Procs, Fail(p) \/ FailInWindow(p)
      PROVE  LockInv'
  BY <1>4 DEF Fail, FailInWindow, Release
<1>5. CASE Tick \/ \E r \in Readers : Read(r)
  BY <1>5 DEF Tick, Read, ReadCurrent, ReadFile, Report, procVars
<1>6. CASE UNCHANGED vars
  BY <1>6 DEF vars, procVars
<1>7. QED
  BY <1>1, <1>2, <1>3, <1>4, <1>5, <1>6 DEF Next

\* No two processes are ever past the lock at the same time, and the one that
\* is holds it.
THEOREM LockExclusion == Spec => []LockInv
<1>1. TInv => TypeOK
  BY DEF TInv
<1>2. QED
  BY <1>1, TypeInit, TypeStep, LockInit, LockStep, PTL DEF Spec

-----------------------------------------------------------------------------
(* The document a process works on stays the committed one. *)

LEMMA OldStep == TInv /\ LockInv /\ OldInv /\ [Next]_vars => OldInv'
<1> SUFFICES ASSUME TInv, LockInv, OldInv, [Next]_vars
             PROVE  OldInv'
  OBVIOUS
<1> USE DEF TInv, TypeOK, LockInv, OldInv, Step, Committing
<1>1. ASSUME NEW p \in Procs, Acquire(p)
      PROVE  OldInv'
  BY <1>1 DEF Acquire
<1>2. ASSUME NEW p \in Procs, Initialize(p) \/ Admit(p) \/ Decline(p)
      PROVE  OldInv'
  BY <1>2 DEF Initialize, Admit, Decline, Release
<1>3. ASSUME NEW p \in Procs, Stamp(p)
      PROVE  OldInv'
  <2>1. txn'[p].old = txn[p].old
    BY <1>3 DEF Stamp, TxnInv, Transaction
  <2>2. QED
    BY <1>3, <2>1 DEF Stamp
<1>4. ASSUME NEW p \in Procs, PublishFile(p) \/ GiveUp(p) \/ Published(p)
      PROVE  OldInv'
  BY <1>4 DEF PublishFile, GiveUp, Published, Release, procVars
<1>5. ASSUME NEW p \in Procs, Snapshot(p)
      PROVE  OldInv'
  BY <1>5 DEF Snapshot
\* The only step that changes the committed document: everybody else is idle.
<1>6. ASSUME NEW p \in Procs, Replace(p)
      PROVE  OldInv'
  <2>1. \A q \in Procs : pc'[q] = "idle"
    BY <1>6 DEF Replace, Release
  <2>2. QED
    BY <2>1
<1>7. ASSUME NEW p \in Procs, Collect(p)
      PROVE  OldInv'
  BY <1>7 DEF Collect, GcPlan, RemoveSnapshot, RemoveObject, GcDone, Release
<1>8. ASSUME NEW p \in Procs, Fail(p) \/ FailInWindow(p)
      PROVE  OldInv'
  BY <1>8 DEF Fail, FailInWindow, Release
<1>9. CASE Tick \/ \E r \in Readers : Read(r)
  BY <1>9 DEF Tick, Read, ReadCurrent, ReadFile, Report, procVars
<1>10. CASE UNCHANGED vars
  BY <1>10 DEF vars, procVars
<1>11. QED
  BY <1>1, <1>2, <1>3, <1>4, <1>5, <1>6, <1>7, <1>8, <1>9, <1>10 DEF Next, Command

-----------------------------------------------------------------------------
(* What is committed or archived stays on disk. *)

LEMMA NamesApart ==
  /\ \A d : \A f \in ObjectFiles(d) : f[1] # "segment"
  /\ \A d : \A f \in SegmentFiles(d) : f[1] = "segment"
  BY DEF ObjectFiles, SegmentFiles, Object, Index, Segment

\* A step that takes no file away and touches neither the documents nor a
\* transaction past its publication preserves the invariant.
LEMMA StoreGrows ==
  ASSUME TInv, LockInv, StoreInv, NEW p \in Procs, pc[p] # "idle",
         files \subseteq files', wedged \subseteq wedged', wedged' \subseteq files',
         wedged' \cap files \subseteq wedged,
         current' = current, history' = history,
         \A q \in Procs \ {p} : pc'[q] = pc[q],
         pc'[p] \notin {"snapshot", "replace", "sweep"}
  PROVE  StoreInv'
<1>1. \A F : Readable(F) => Readable(F)'
  BY DEF Readable
<1>2. \A q \in Procs : pc'[q] \notin {"snapshot", "replace", "sweep"}
  BY DEF LockInv
<1>3. CurrentResolvable'
  BY <1>1 DEF StoreInv, CurrentResolvable
<1>4. SnapshotsRecoverable'
  BY <1>1 DEF StoreInv, SnapshotsRecoverable
<1>5. QED
  BY <1>2, <1>3, <1>4 DEF StoreInv

LEMMA StoreInit == Init => StoreInv
  BY DEF Init, StoreInv, CurrentResolvable, SnapshotsRecoverable

LEMMA StoreStep ==
  TInv /\ LockInv /\ OldInv /\ StoreInv /\ [Next]_vars => StoreInv'
<1> SUFFICES ASSUME TInv, LockInv, OldInv, StoreInv, [Next]_vars
             PROVE  StoreInv'
  OBVIOUS
<1>0. \A p \in Procs : pc[p] # "idle" => lock = p
  BY DEF LockInv
<1>1. ASSUME NEW p \in Procs, Acquire(p)
      PROVE  StoreInv'
  BY <1>1 DEF Acquire, storeVars, TInv, TypeOK, StoreInv, CurrentResolvable,
              SnapshotsRecoverable, Readable, Planned
<1>2. ASSUME NEW p \in Procs,
             Initialize(p) \/ Admit(p) \/ Decline(p) \/ Stamp(p) \/ PublishFile(p) \/ GiveUp(p)
      PROVE  StoreInv'
  <2>1. pc[p] # "idle" /\ pc'[p] \notin {"snapshot", "replace", "sweep"}
    BY <1>2 DEF Initialize, Admit, Decline, Stamp, PublishFile, GiveUp, Release, procVars,
                TInv, TypeOK
  <2>2. current' = current /\ history' = history /\ wedged' = wedged
    BY <1>2 DEF Initialize, Admit, Decline, Stamp, PublishFile, GiveUp, storeVars
  <2>3. files \subseteq files'
    BY <1>2 DEF Initialize, Admit, Decline, Stamp, PublishFile, GiveUp, storeVars
  <2>4. \A q \in Procs \ {p} : pc'[q] = pc[q]
    BY <1>2 DEF Initialize, Admit, Decline, Stamp, PublishFile, GiveUp, Release, procVars,
                TInv, TypeOK
  <2>5. wedged \subseteq files
    BY DEF StoreInv
  <2>6. QED
    BY <2>1, <2>2, <2>3, <2>4, <2>5, StoreGrows
<1>3. ASSUME NEW p \in Procs, Published(p)
      PROVE  StoreInv'
  <2>1. \A q \in Procs \ {p} : pc'[q] = "idle"
    BY <1>0, <1>3 DEF Published, TInv, TypeOK
  <2>2. pc'[p] # "sweep" /\ Readable(Planned(txn'[p]))
    BY <1>3 DEF Published, TInv, TypeOK
  <2>3. UNCHANGED <<current, history, files, wedged>>
    BY <1>3 DEF Published, storeVars
  <2>4. QED
    BY <2>1, <2>2, <2>3 DEF StoreInv, CurrentResolvable, SnapshotsRecoverable, Readable
<1>4. ASSUME NEW p \in Procs, Snapshot(p)
      PROVE  StoreInv'
  <2>1. \A q \in Procs \ {p} : pc'[q] = "idle"
    BY <1>0, <1>4 DEF Snapshot, TInv, TypeOK
  <2>2. pc'[p] = "replace" /\ Readable(Planned(txn[p]))
    BY <1>4 DEF Snapshot, TInv, TypeOK, StoreInv
  <2>3. current # None /\ Readable(ObjectFiles(current))
    BY <1>4 DEF Snapshot, TInv, TypeOK, TxnInv, OldInv, Committing, StoreInv,
                CurrentResolvable, Readable
  <2>4. SnapshotsRecoverable'
    BY <1>4, <2>3 DEF Snapshot, StoreInv, SnapshotsRecoverable, Readable
  <2>5. QED
    BY <1>4, <2>1, <2>2, <2>4 DEF Snapshot, StoreInv, CurrentResolvable, Readable
<1>5. ASSUME NEW p \in Procs, Replace(p)
      PROVE  StoreInv'
  <2>1. \A q \in Procs : pc'[q] = "idle"
    BY <1>0, <1>5 DEF Replace, Release, TInv, TypeOK
  <2>2. Readable(Planned(txn[p]))
    BY <1>5 DEF Replace, StoreInv
  <2>3. ObjectFiles(txn[p].new) \subseteq Planned(txn[p])
    BY DEF Planned
  \* The segments the candidate inherits are those of the document it replaces.
  <2>4. SegmentFiles(txn[p].new) \subseteq files \ wedged
    <3>1. CASE current = None
      BY <1>5, <2>2, <3>1 DEF Replace, Planned, Readable
    <3>2. CASE current # None
      BY <1>5, <2>2, <3>2 DEF Replace, Planned, Readable, StoreInv, CurrentResolvable
    <3>3. QED
      BY <3>1, <3>2
  <2>5. CurrentResolvable'
    BY <1>5, <2>2, <2>3, <2>4 DEF Replace, CurrentResolvable, Readable, storeVars
  <2>6. QED
    BY <1>5, <2>1, <2>5 DEF Replace, StoreInv, SnapshotsRecoverable, Readable, storeVars
<1>6. ASSUME NEW p \in Procs, GcPlan(p)
      PROVE  StoreInv'
  <2>1. \A q \in Procs \ {p} : pc'[q] = "idle"
    BY <1>0, <1>6 DEF GcPlan, TInv, TypeOK
  <2>2. /\ pc'[p] = "sweep"
        /\ sweep'[p] = [expired |-> history \ Retained, garbage |-> Garbage]
    BY <1>6 DEF GcPlan, TInv, TypeOK
  <2>3. history' \ sweep'[p].expired \subseteq Retained
    BY <1>6, <2>2 DEF GcPlan, storeVars
  <2>4. \A f \in sweep'[p].garbage :
          /\ f \notin wedged
          /\ f \notin ObjectFiles(current)
          /\ f[1] # "segment"
          /\ \A s \in Retained : f \notin ObjectFiles(s)
    BY <2>2 DEF Garbage, Reachable
  <2>5. UNCHANGED <<current, history, files, wedged>>
    BY <1>6 DEF GcPlan, storeVars
  <2>6. QED
    BY <2>1, <2>2, <2>3, <2>4, <2>5
       DEF StoreInv, CurrentResolvable, SnapshotsRecoverable, Readable
<1>7. ASSUME NEW p \in Procs, RemoveSnapshot(p)
      PROVE  StoreInv'
  <2>1. /\ \A q \in Procs \ {p} : pc'[q] = "idle"
        /\ pc'[p] = "sweep"
    BY <1>0, <1>7 DEF RemoveSnapshot, TInv, TypeOK
  <2>2. PICK s \in sweep[p].expired :
          /\ history' = history \ {s}
          /\ sweep' = [sweep EXCEPT ![p].expired = @ \ {s}]
    BY <1>7 DEF RemoveSnapshot
  <2>3. /\ sweep'[p].garbage = sweep[p].garbage
        /\ history' \ sweep'[p].expired \subseteq history \ sweep[p].expired
    <3>1. sweep[p] \in Sweep
      BY <1>7 DEF RemoveSnapshot, TInv, TxnInv
    <3>2. QED
      BY <2>2, <3>1 DEF TInv, TypeOK, Sweep
  <2>4. UNCHANGED <<current, files, wedged>>
    BY <1>7 DEF RemoveSnapshot
  <2>5. SnapshotsRecoverable'
    BY <2>2, <2>4 DEF StoreInv, SnapshotsRecoverable, Readable
  <2>6. QED
    BY <1>7, <2>1, <2>3, <2>4, <2>5
       DEF RemoveSnapshot, StoreInv, CurrentResolvable, Readable
<1>8. ASSUME NEW p \in Procs, RemoveObject(p)
      PROVE  StoreInv'
  <2>1. /\ \A q \in Procs \ {p} : pc'[q] = "idle"
        /\ pc'[p] = "sweep" /\ pc[p] = "sweep"
    BY <1>0, <1>8 DEF RemoveObject, TInv, TypeOK
  <2>2. PICK f \in sweep[p].garbage :
          /\ files' = files \ {f}
          /\ sweep' = [sweep EXCEPT ![p].garbage = @ \ {f}]
    BY <1>8 DEF RemoveObject
  <2>3. /\ sweep'[p].expired = {} /\ sweep[p].expired = {}
        /\ sweep'[p].garbage \subseteq sweep[p].garbage
    <3>1. sweep[p] \in Sweep
      BY <1>8 DEF RemoveObject, TInv, TxnInv
    <3>2. QED
      BY <1>8, <2>2, <3>1 DEF RemoveObject, TInv, TypeOK, Sweep
  <2>4. UNCHANGED <<current, history, wedged>>
    BY <1>8 DEF RemoveObject
  <2>5. /\ f \notin wedged /\ f \notin ObjectFiles(current) /\ f[1] # "segment"
        /\ \A s \in history : f \notin ObjectFiles(s)
    BY <2>1, <2>3 DEF StoreInv
  <2>6. CurrentResolvable'
    BY <2>2, <2>4, <2>5, NamesApart DEF StoreInv, CurrentResolvable, Readable
  <2>7. SnapshotsRecoverable'
    BY <2>2, <2>4, <2>5 DEF StoreInv, SnapshotsRecoverable, Readable
  <2>8. QED
    BY <2>1, <2>2, <2>3, <2>4, <2>5, <2>6, <2>7 DEF StoreInv
<1>9. ASSUME NEW p \in Procs, GcDone(p) \/ Fail(p) \/ FailInWindow(p)
      PROVE  StoreInv'
  <2>1. pc[p] # "idle" /\ pc'[p] = "idle"
    BY <1>9 DEF GcDone, Fail, FailInWindow, Release, TInv, TypeOK
  <2>2. \A q \in Procs \ {p} : pc'[q] = pc[q]
    BY <1>9 DEF GcDone, Fail, FailInWindow, Release, TInv, TypeOK
  <2>3. current' = current /\ history' = history
    BY <1>9 DEF GcDone, Fail, FailInWindow, storeVars
  <2>4. /\ files \subseteq files' /\ wedged \subseteq wedged' /\ wedged' \subseteq files'
        /\ wedged' \cap files \subseteq wedged
    BY <1>9 DEF GcDone, Fail, FailInWindow, storeVars, NextFile, StoreInv
  <2>5. QED
    BY <2>1, <2>2, <2>3, <2>4, StoreGrows
<1>10. CASE Tick \/ (\E r \in Readers : Read(r)) \/ UNCHANGED vars
  <2>1. UNCHANGED <<current, history, files, wedged, pc, txn, sweep>>
    BY <1>10 DEF Tick, Read, ReadCurrent, ReadFile, Report, vars, storeVars, procVars
  <2>2. QED
    BY <2>1 DEF StoreInv, CurrentResolvable, SnapshotsRecoverable, Readable, Planned
<1>11. QED
  BY <1>1, <1>2, <1>3, <1>4, <1>5, <1>6, <1>7, <1>8, <1>9, <1>10 DEF Next, Command, Collect

\* The store's part of the inductive invariant holds in every reachable state.
THEOREM StoreInductive == Spec => []BaseInv
<1>1. Init => OldInv
  BY DEF Init, OldInv, Committing
<1>2. TInv /\ LockInv /\ OldInv /\ StoreInv => BaseInv
  BY DEF TInv, BaseInv
<1>3. TInv => TypeOK
  BY DEF TInv
<1>4. QED
  BY <1>1, <1>2, <1>3, TypeInit, TypeStep, LockInit, LockStep, OldStep, StoreInit, StoreStep,
     PTL DEF Spec

\* The committed document can be resolved at every moment: no kill, no
\* refused publication and no collection takes a file from under it.
THEOREM Resolvable == Spec => []CurrentResolvable
<1>1. BaseInv => CurrentResolvable
  BY DEF BaseInv, StoreInv
<1>2. QED
  BY <1>1, StoreInductive, PTL

\* Every archived snapshot keeps the objects a recovery from it needs.
THEOREM Recoverable == Spec => []SnapshotsRecoverable
<1>1. BaseInv => SnapshotsRecoverable
  BY DEF BaseInv, StoreInv
<1>2. QED
  BY <1>1, StoreInductive, PTL
=============================================================================
