-------------------------- MODULE RelayLedgerProofs --------------------------
(***************************************************************************)
(* Relay, for every value of its constants: the receipts are one for each  *)
(* revision, the history is linear and its latest snapshots are kept, the  *)
(* lease is respected, lock-free readers miss nothing that is still there, *)
(* and the relay implements the ledger.  The argument is the inductive     *)
(* invariant of RelayInductive, whose part about the store is proved in    *)
(* RelayProofs.                                                            *)
(***************************************************************************)
EXTENDS RelayProofs, FiniteSetTheorems

-----------------------------------------------------------------------------
(* The receipts of a document. *)

\* Every one of the first n receipts falls into one of their segments.
LEMMA SegmentOf ==
  ASSUME NEW n \in Nat, NEW k \in 1 .. n
  PROVE  \E i \in 1 .. (n + SegMax - 1) \div SegMax :
           k \in (i - 1) * SegMax + 1 .. (IF i * SegMax < n THEN i * SegMax ELSE n)
<1> DEFINE q == (k - 1) \div SegMax
           last == (n + SegMax - 1) \div SegMax
<1>0. SegMax \in Nat \ {0}
  BY ReceiptAssumption
<1>1. q \in Nat /\ q * SegMax <= k - 1 /\ k - 1 < (q + 1) * SegMax
  BY <1>0
<1>2. last \in Nat /\ last * SegMax <= n + SegMax - 1 /\ n + SegMax - 1 < (last + 1) * SegMax
  BY <1>0
<1> HIDE DEF q, last
<1>3. n - 1 < last * SegMax
  BY <1>0, <1>2
<1>4. q * SegMax < last * SegMax
  BY <1>0, <1>1, <1>2, <1>3
<1>5. q < last
  BY <1>0, <1>1, <1>2, <1>4
<1>6. q + 1 \in 1 .. last
  BY <1>1, <1>2, <1>5
<1>7. k \in q * SegMax + 1 .. (IF (q + 1) * SegMax < n THEN (q + 1) * SegMax ELSE n)
  BY <1>0, <1>1
<1>8. QED
  BY <1>1, <1>6, <1>7 DEF last

\* A slice of a sequence has the elements at its positions.
LEMMA SliceElements ==
  ASSUME NEW S, NEW s \in Seq(S), NEW m \in Nat \ {0}, NEW n \in Int, n <= Len(s)
  PROVE  Elements(SubSeq(s, m, n)) = {s[i] : i \in m .. n}
<1> DEFINE t == SubSeq(s, m, n)
<1>1. \A i \in m .. n : s[i] \in S
  BY ElementOfSeq, LenProperties
<1>2. /\ t \in Seq(S)
      /\ Len(t) = IF m <= n THEN n - m + 1 ELSE 0
      /\ \A i \in 1 .. n - m + 1 : t[i] = s[m + i - 1]
  BY <1>1, SubSeqProperties
<1> HIDE DEF t
<1>3. DOMAIN t = 1 .. n - m + 1
  BY <1>2, LenProperties
<1>4. ASSUME NEW e \in Elements(t)
      PROVE  e \in {s[i] : i \in m .. n}
  <2>1. PICK i \in 1 .. n - m + 1 : e = t[i]
    BY <1>3 DEF Elements
  <2>2. m + i - 1 \in m .. n /\ e = s[m + i - 1]
    BY <1>2, <2>1
  <2>3. QED
    BY <2>2
<1>5. ASSUME NEW i \in m .. n
      PROVE  s[i] \in Elements(t)
  <2>1. i - m + 1 \in 1 .. n - m + 1 /\ m + (i - m + 1) - 1 = i
    OBVIOUS
  <2>2. t[i - m + 1] = s[i]
    BY <1>2, <2>1
  <2>3. QED
    BY <1>3, <2>1, <2>2 DEF Elements
<1>6. QED
  BY <1>4, <1>5 DEF t

LEMMA ConcatElements ==
  ASSUME NEW S, NEW s \in Seq(S), NEW t \in Seq(S)
  PROVE  Elements(s \o t) = Elements(s) \cup Elements(t)
<1>1. /\ DOMAIN (s \o t) = 1 .. Len(s) + Len(t)
      /\ DOMAIN s = 1 .. Len(s) /\ Len(s) \in Nat
      /\ DOMAIN t = 1 .. Len(t) /\ Len(t) \in Nat
      /\ \A i \in 1 .. Len(s) + Len(t) :
           (s \o t)[i] = IF i <= Len(s) THEN s[i] ELSE t[i - Len(s)]
  BY ConcatProperties, LenProperties
<1>2. Elements(s \o t) \subseteq Elements(s) \cup Elements(t)
  BY <1>1 DEF Elements
<1>3. ASSUME NEW i \in DOMAIN s
      PROVE  s[i] \in Elements(s \o t)
  BY <1>1 DEF Elements
<1>4. ASSUME NEW i \in DOMAIN t
      PROVE  t[i] \in Elements(s \o t)
  <2>1. i + Len(s) \in 1 .. Len(s) + Len(t) /\ (s \o t)[i + Len(s)] = t[i]
    BY <1>1
  <2>2. QED
    BY <1>1, <2>1 DEF Elements
<1>5. QED
  BY <1>2, <1>3, <1>4 DEF Elements

LEMMA AppendElements ==
  ASSUME NEW S, NEW s \in Seq(S), NEW e \in S
  PROVE  Elements(Append(s, e)) = Elements(s) \cup {e}
<1>1. /\ DOMAIN s = 1 .. Len(s) /\ Len(s) \in Nat
      /\ DOMAIN Append(s, e) = 1 .. Len(s) + 1
      /\ \A i \in 1 .. Len(s) : Append(s, e)[i] = s[i]
      /\ Append(s, e)[Len(s) + 1] = e
  BY AppendProperties, LenProperties
<1>2. QED
  BY <1>1 DEF Elements

\* The segments made of the first n receipts hold those and no others.
LEMMA SegmentsReceipts ==
  ASSUME NEW ops \in Seq(Receipt), NEW n \in 0 .. Len(ops)
  PROVE  UNION {Elements(s) : s \in Elements(Segments(ops, n))} = {ops[k] : k \in 1 .. n}
<1> DEFINE last == (n + SegMax - 1) \div SegMax
           lo(i) == (i - 1) * SegMax + 1
           hi(i) == IF i * SegMax < n THEN i * SegMax ELSE n
           chunk(i) == SubSeq(ops, lo(i), hi(i))
<1>1. ASSUME NEW i \in 1 .. last
      PROVE  /\ Elements(chunk(i)) = {ops[k] : k \in lo(i) .. hi(i)}
             /\ lo(i) \in Nat \ {0} /\ hi(i) \in Int /\ hi(i) <= n
  <2>1. (i - 1) * SegMax \in Nat /\ i * SegMax \in Nat
    BY ReceiptAssumption, i \in Nat, i - 1 \in Nat
  <2>2. lo(i) \in Nat \ {0} /\ hi(i) \in Int /\ hi(i) <= n /\ hi(i) <= Len(ops)
    BY <2>1, LenProperties
  <2> HIDE DEF lo, hi
  <2>3. QED
    BY <2>2, SliceElements
<1>2. ASSUME NEW k \in 1 .. n
      PROVE  \E i \in 1 .. last : k \in lo(i) .. hi(i)
  <2>1. n \in Nat
    BY LenProperties
  <2>2. QED
    BY <2>1, SegmentOf
<1>3. Elements(Segments(ops, n)) = {chunk(i) : i \in 1 .. last}
  BY DEF Elements, Segments
<1> HIDE DEF last, lo, hi, chunk
<1>4. UNION {Elements(s) : s \in {chunk(i) : i \in 1 .. last}} = {ops[k] : k \in 1 .. n}
  <2>1. ASSUME NEW i \in 1 .. last, NEW e \in Elements(chunk(i))
        PROVE  \E k \in 1 .. n : e = ops[k]
    <3>1. PICK k \in lo(i) .. hi(i) : e = ops[k]
      BY <1>1
    <3>2. k \in 1 .. n
      BY <1>1, LenProperties
    <3>3. QED
      BY <3>1, <3>2
  <2>2. ASSUME NEW k \in 1 .. n
        PROVE  \E i \in 1 .. last : ops[k] \in Elements(chunk(i))
    BY <1>1, <1>2
  <2>3. QED
    BY <2>1, <2>2
<1>5. QED
  BY <1>3, <1>4

\* Compaction moves the oldest inline receipts to the archive and loses none.
LEMMA CompactReceipts ==
  ASSUME NEW d \in Document
  PROVE  /\ Archived(Compact(d)) = Archived(d) \cup {d.ops[k] : k \in 1 .. Surplus(d.ops)}
         /\ Elements(Compact(d).ops) = {d.ops[k] : k \in Surplus(d.ops) + 1 .. Len(d.ops)}
         /\ Receipts(Compact(d)) = Receipts(d)
<1> DEFINE n == Surplus(d.ops)
<1>1. d.ops \in Seq(Receipt) /\ d.chain \in Seq(Seq(Receipt))
  BY DEF Document
<1>2. n \in 0 .. Len(d.ops) /\ Len(d.ops) \in Nat /\ DOMAIN d.ops = 1 .. Len(d.ops)
  BY <1>1, SurplusBounds, LenProperties
<1>3. /\ Compact(d).ops = SubSeq(d.ops, n + 1, Len(d.ops))
      /\ Compact(d).chain = d.chain \o Segments(d.ops, n)
  BY DEF Compact, Document
<1> HIDE DEF n
<1>4. Elements(Compact(d).ops) = {d.ops[k] : k \in n + 1 .. Len(d.ops)}
  <2>1. n + 1 \in Nat \ {0} /\ Len(d.ops) \in Int /\ Len(d.ops) <= Len(d.ops)
    BY <1>2
  <2>2. Elements(SubSeq(d.ops, n + 1, Len(d.ops))) = {d.ops[k] : k \in n + 1 .. Len(d.ops)}
    BY <1>1, <2>1, SliceElements
  <2>3. QED
    BY <1>3, <2>2
<1>5. Elements(Compact(d).chain) = Elements(d.chain) \cup Elements(Segments(d.ops, n))
  BY <1>1, <1>2, <1>3, SegmentsType, ConcatElements
<1>6. UNION {Elements(s) : s \in Elements(Segments(d.ops, n))} = {d.ops[k] : k \in 1 .. n}
  BY <1>1, <1>2, SegmentsReceipts
<1>7. Archived(Compact(d)) = Archived(d) \cup {d.ops[k] : k \in 1 .. n}
  BY <1>5, <1>6 DEF Archived
<1>8. Elements(d.ops) = {d.ops[k] : k \in 1 .. n} \cup {d.ops[k] : k \in n + 1 .. Len(d.ops)}
  BY <1>2 DEF Elements
<1>9. QED
  BY <1>4, <1>7, <1>8 DEF Receipts, n

LEMMA ReceiptsType ==
  ASSUME NEW d \in Document
  PROVE  /\ Receipts(d) \subseteq Receipt
         /\ Archived(d) \subseteq Receipt
         /\ Elements(d.ops) = {d.ops[i] : i \in 1 .. Len(d.ops)} /\ Len(d.ops) \in Nat
<1>1. d.ops \in Seq(Receipt) /\ d.chain \in Seq(Seq(Receipt))
  BY DEF Document
<1>2. Elements(d.ops) = {d.ops[i] : i \in 1 .. Len(d.ops)} /\ Len(d.ops) \in Nat
  BY <1>1, LenProperties DEF Elements
<1>3. Elements(d.ops) \subseteq Receipt
  BY <1>1, <1>2, ElementOfSeq
<1>4. ASSUME NEW r \in Archived(d)
      PROVE  r \in Receipt
  <2>1. PICK s \in Elements(d.chain) : r \in Elements(s)
    BY DEF Archived
  <2>2. s \in Seq(Receipt)
    BY <1>1, <2>1, ElementOfSeq, LenProperties DEF Elements
  <2>3. QED
    BY <2>1, <2>2, ElementOfSeq, LenProperties DEF Elements
<1>5. QED
  BY <1>2, <1>3, <1>4 DEF Receipts

\* Compaction keeps the latest receipts inline.
LEMMA CompactNumbered ==
  ASSUME NEW d \in Document, Numbered(d)
  PROVE  Numbered(Compact(d))
<1> DEFINE n == Surplus(d.ops)
           c == Compact(d)
<1>1. d.ops \in Seq(Receipt) /\ d.rev \in Nat
  BY DEF Document
<1>2. n \in 0 .. Len(d.ops) /\ Len(d.ops) \in Nat
  BY <1>1, SurplusBounds, LenProperties
<1>3. c.ops = SubSeq(d.ops, n + 1, Len(d.ops)) /\ c.rev = d.rev
  BY DEF Compact, Document
<1>4. /\ Archived(c) = Archived(d) \cup {d.ops[k] : k \in 1 .. n}
  BY CompactReceipts
<1> HIDE DEF n, c
<1>5. /\ Len(c.ops) = Len(d.ops) - n
      /\ \A i \in 1 .. Len(d.ops) - n : c.ops[i] = d.ops[n + i]
  <2>1. \A i \in n + 1 .. Len(d.ops) : d.ops[i] \in Receipt
    BY <1>1, <1>2, ElementOfSeq
  <2>2. n + 1 \in Int /\ Len(d.ops) \in Int
    BY <1>2
  <2>3. /\ Len(c.ops) = IF n + 1 <= Len(d.ops) THEN Len(d.ops) - (n + 1) + 1 ELSE 0
        /\ \A i \in 1 .. Len(d.ops) - (n + 1) + 1 : c.ops[i] = d.ops[(n + 1) + i - 1]
    BY <1>3, <2>1, <2>2, SubSeqProperties
  <2>4. QED
    BY <1>2, <2>3
<1>6. Len(c.ops) <= c.rev
  BY <1>1, <1>2, <1>3, <1>5 DEF Numbered
<1>7. ASSUME NEW i \in 1 .. Len(c.ops)
      PROVE  c.ops[i].rev = c.rev - Len(c.ops) + i
  <2>1. n + i \in 1 .. Len(d.ops) /\ c.ops[i] = d.ops[n + i]
    BY <1>2, <1>5
  <2>2. QED
    BY <1>1, <1>2, <1>3, <1>5, <2>1 DEF Numbered
<1>8. ASSUME NEW r \in Archived(c)
      PROVE  r.rev + Len(c.ops) <= c.rev
  <2>1. CASE r \in Archived(d)
    <3>1. r.rev + Len(d.ops) <= d.rev /\ r.rev \in Nat
      BY <2>1, ReceiptsType DEF Numbered, Receipt
    <3>2. QED
      BY <1>1, <1>2, <1>3, <1>5, <3>1
  <2>2. CASE r \in {d.ops[k] : k \in 1 .. n}
    <3>1. PICK k \in 1 .. n : r = d.ops[k]
      BY <2>2
    <3>2. r.rev = d.rev - Len(d.ops) + k
      BY <1>2, <3>1 DEF Numbered
    <3>3. QED
      BY <1>1, <1>2, <1>3, <1>5, <3>2
  <2>3. QED
    BY <1>4, <2>1, <2>2
<1>9. QED
  BY <1>6, <1>7, <1>8 DEF Numbered, c

\* A candidate with one more receipt than the document it replaces.
LEMMA StampedReceipts ==
  ASSUME NEW d \in Document, NEW f \in Document, NEW e \in Receipt, Numbered(d),
         e.rev = d.rev + 1, f.rev = d.rev + 1, f.ops = Append(d.ops, e), f.chain = d.chain
  PROVE  Numbered(f) /\ Receipts(f) = Receipts(d) \cup {e}
<1>1. d.ops \in Seq(Receipt) /\ d.rev \in Nat
  BY DEF Document
<1>2. /\ Len(d.ops) \in Nat /\ Len(f.ops) = Len(d.ops) + 1
      /\ \A i \in 1 .. Len(d.ops) : f.ops[i] = d.ops[i]
      /\ f.ops[Len(d.ops) + 1] = e
  BY <1>1, AppendProperties, LenProperties
<1>3. Archived(f) = Archived(d)
  BY DEF Archived
<1>4. Elements(f.ops) = Elements(d.ops) \cup {e}
  BY <1>1, AppendElements
<1>5. Len(f.ops) <= f.rev
  BY <1>1, <1>2 DEF Numbered
<1>6. ASSUME NEW i \in 1 .. Len(f.ops)
      PROVE  f.ops[i].rev = f.rev - Len(f.ops) + i
  <2>1. CASE i = Len(d.ops) + 1
    BY <1>1, <1>2, <2>1
  <2>2. CASE i # Len(d.ops) + 1
    <3>1. i \in 1 .. Len(d.ops) /\ f.ops[i] = d.ops[i]
      BY <1>2, <2>2
    <3>2. QED
      BY <1>1, <1>2, <3>1 DEF Numbered
  <2>3. QED
    BY <2>1, <2>2
<1>7. ASSUME NEW r \in Archived(f)
      PROVE  r.rev + Len(f.ops) <= f.rev
  <2>1. r.rev \in Nat /\ r.rev + Len(d.ops) <= d.rev
    BY <1>3, ReceiptsType DEF Receipt, Numbered
  <2>2. QED
    BY <1>1, <1>2, <2>1
<1>8. QED
  BY <1>3, <1>4, <1>5, <1>6, <1>7 DEF Numbered, Receipts

\* A document that is numbered has no receipt both inline and archived.
LEMMA InlineOrArchived ==
  ASSUME NEW d \in Document, Numbered(d)
  PROVE  Elements(d.ops) \cap Archived(d) = {}
<1> SUFFICES ASSUME NEW r \in Elements(d.ops), r \in Archived(d)
             PROVE  FALSE
  OBVIOUS
<1>1. d.rev \in Nat /\ r.rev \in Nat /\ Len(d.ops) \in Nat
  BY ReceiptsType DEF Document, Receipt
<1>2. PICK i \in 1 .. Len(d.ops) : r = d.ops[i]
  BY ReceiptsType
<1>3. r.rev = d.rev - Len(d.ops) + i /\ r.rev + Len(d.ops) <= d.rev
  BY <1>2 DEF Numbered
<1>4. QED
  BY <1>1, <1>3

LEMMA BlankReceipts ==
  ASSUME NEW d, Blank(d)
  PROVE  Receipts(d) = {} /\ Archived(d) = {} /\ Numbered(d)
<1>1. Elements(<<>>) = {} /\ Len(<<>>) = 0
  BY DEF Elements
<1>2. QED
  BY <1>1 DEF Blank, Receipts, Archived, Numbered

Stamped(d, rev, ops, writer, until) ==
  [d EXCEPT !.rev = rev, !.ops = ops, !.writer = writer, !.until = until]

LEMMA StampedFields ==
  ASSUME NEW d \in Document, NEW rev \in Nat, NEW ops \in Seq(Receipt),
         NEW writer \in Writers \cup {None}, NEW until \in Nat
  PROVE  LET f == Stamped(d, rev, ops, writer, until)
         IN  /\ f \in Document
             /\ f.rev = rev /\ f.ops = ops /\ f.writer = writer /\ f.until = until
             /\ f.chain = d.chain
  BY DEF Document, Stamped

\* What a stamp leaves is the document it started from with one more receipt.
LEMMA StampSucceeds ==
  ASSUME NEW p \in Procs, BaseInv, CommitInv, ReceiptInv, Stamp(p)
  PROVE  /\ txn'[p].old = txn[p].old /\ txn[p].old # None
         /\ Granted(txn[p])' /\ Succeeds(txn[p])'
<1> DEFINE t == txn[p]
           receipt == [id |-> t.id, hash |-> t.hash, rev |-> t.old.rev + 1]
           keeps == t.hash.cmd \in Keepers
           full == [t.new EXCEPT !.rev = t.old.rev + 1,
                                 !.ops = Append(t.new.ops, receipt),
                                 !.writer = IF keeps THEN t.hash.writer ELSE None,
                                 !.until = IF keeps THEN now + LeaseLen ELSE 0]
<1>1. /\ t \in Transaction /\ t.hash \in Fingerprint /\ t.id \in OperationId
      /\ t.old \in Document /\ t.new \in Document
      /\ t.new.ops = t.old.ops /\ t.new.chain = t.old.chain
      /\ Granted(t) /\ current = t.old
  BY DEF Stamp, BaseInv, TxnInv, CommitInv, OldInv, Transaction
<1>2. t.old # None
  BY <1>1, DocumentAssumption
<1>3. receipt \in Receipt /\ t.old.rev \in Nat /\ receipt.rev = t.old.rev + 1
  BY <1>1 DEF Receipt, Document
<1>4. /\ t.hash.writer \in Writers /\ now + LeaseLen \in Nat
      /\ Append(t.new.ops, receipt) \in Seq(Receipt)
  BY <1>1, <1>3, LeaseAssumption, AppendProperties DEF Fingerprint, BaseInv, TypeOK, Document
<1>5. /\ full \in Document /\ full.rev = t.old.rev + 1
      /\ full.ops = Append(t.old.ops, receipt) /\ full.chain = t.old.chain
      /\ full.writer = IF keeps THEN t.hash.writer ELSE None
      /\ full.until = IF keeps THEN now + LeaseLen ELSE 0
  <2> DEFINE writer == IF keeps THEN t.hash.writer ELSE None
             until == IF keeps THEN now + LeaseLen ELSE 0
             ops == Append(t.new.ops, receipt)
             rev == t.old.rev + 1
             new == t.new
  <2>1. writer \in Writers \cup {None} /\ until \in Nat
    BY <1>4
  <2>2. rev \in Nat /\ ops \in Seq(Receipt) /\ new \in Document
    BY <1>1, <1>3, <1>4
  <2>3. full = Stamped(new, rev, ops, writer, until)
    BY DEF Stamped
  <2> HIDE DEF writer, until, ops, rev, new, receipt, full
  <2>4. /\ full \in Document /\ full.rev = rev /\ full.writer = writer
        /\ full.ops = ops /\ full.until = until /\ full.chain = new.chain
    BY <2>1, <2>2, <2>3, StampedFields
  <2>5. QED
    BY <1>1, <2>4 DEF writer, until, ops, rev, new
<1>6. Numbered(t.old)
  BY <1>1, <1>2 DEF ReceiptInv
<1> HIDE DEF full, receipt
<1>7. Numbered(full) /\ Receipts(full) = Receipts(t.old) \cup {receipt}
  BY <1>1, <1>3, <1>5, <1>6, StampedReceipts
<1>8. /\ Numbered(Compact(full)) /\ Receipts(Compact(full)) = Receipts(full)
      /\ Compact(full).rev = full.rev /\ Compact(full).writer = full.writer
      /\ Compact(full).until = full.until
  BY <1>5, <1>7, CompactNumbered, CompactReceipts DEF Compact, Document
<1>9. /\ txn'[p].hash = t.hash /\ txn'[p].id = t.id /\ txn'[p].old = t.old
      /\ txn'[p].new \in {full, Compact(full)} /\ now' = now
  BY <1>1 DEF Stamp, BaseInv, TypeOK, Transaction, full, receipt
<1>10. Granted(txn[p])'
  BY <1>1, <1>9 DEF Granted, LeaseStands, Live
<1>11. Succeeds(txn[p])'
  <2>1. keeps => full.until <= now + LeaseLen
    BY <1>4, <1>5
  <2>2. QED
    BY <1>5, <1>7, <1>8, <1>9, <2>1 DEF Succeeds, receipt
<1>12. QED
  BY <1>2, <1>9, <1>10, <1>11

-----------------------------------------------------------------------------
(* Transactions under way keep what they were granted. *)

\* A process that leaves its transaction disturbs nobody else's.
LEMMA CommitLeft ==
  ASSUME CommitInv, NEW p \in Procs, now' = now, pc'[p] \notin Committing \cup {"stamp"},
         \A q \in Procs \ {p} : pc'[q] = pc[q] /\ txn'[q] = txn[q]
  PROVE  CommitInv'
  BY DEF CommitInv, Committing, Granted, LeaseStands, Succeeds, Live

\* A process that goes on committing keeps its transaction.
LEMMA CommitKept ==
  ASSUME CommitInv, now' = now, txn' = txn,
         \A q \in Procs : pc'[q] = pc[q] \/ {pc[q], pc'[q]} \subseteq Committing
  PROVE  CommitInv'
  BY DEF CommitInv, Committing, Granted, LeaseStands, Succeeds, Live

\* What a source is made into has the receipts of the committed document.
LEMMA AdmitGrants ==
  ASSUME NEW p \in Procs, BaseInv, Admit(p)
  PROVE  /\ Granted(txn[p])' /\ now' = now
         /\ txn'[p].new.ops = txn'[p].old.ops /\ txn'[p].new.chain = txn'[p].old.chain
<1>1. current \in Document
  BY DEF Admit, BaseInv, TypeOK
<1> PICK h \in Requests(current.rev) :
      \E id \in Ids(h) :
        /\ Admissible(id, h)
        /\ \E s \in Source(h, current) :
             txn' = [txn EXCEPT ![p] =
               [hash |-> h, id |-> id, old |-> current, new |-> Rebased(h, current, s)]]
  BY DEF Admit
<1>2. PICK id \in Ids(h) :
        /\ Admissible(id, h)
        /\ \E s \in Source(h, current) :
             txn' = [txn EXCEPT ![p] =
               [hash |-> h, id |-> id, old |-> current, new |-> Rebased(h, current, s)]]
  OBVIOUS
<1>3. PICK s \in Source(h, current) :
        txn' = [txn EXCEPT ![p] =
          [hash |-> h, id |-> id, old |-> current, new |-> Rebased(h, current, s)]]
  BY <1>2
<1>4. /\ txn'[p].hash = h /\ txn'[p].id = id /\ txn'[p].old = current
      /\ txn'[p].new = Rebased(h, current, s) /\ now' = now
  BY <1>3 DEF Admit, BaseInv, TypeOK
<1>5. Rebased(h, current, s).ops = current.ops /\ Rebased(h, current, s).chain = current.chain
  BY <1>1 DEF Rebased, Document
<1>6. LeaseAllows(h, current) /\ Known(id, current) = {} /\ h.exp = current.rev
  BY <1>2 DEF Admissible
<1>7. LeaseStands(h, current)
  BY <1>6 DEF LeaseAllows, LeaseStands
<1>8. Granted(txn[p])'
  BY <1>4, <1>6, <1>7 DEF Granted, LeaseStands, Live
<1>9. QED
  BY <1>4, <1>5, <1>8

LEMMA CommitStep ==
  BaseInv /\ CommitInv /\ ReceiptInv /\ [Next]_vars => CommitInv'
<1> SUFFICES ASSUME BaseInv, CommitInv, ReceiptInv, [Next]_vars
             PROVE  CommitInv'
  OBVIOUS
<1> USE DEF BaseInv, TypeOK, Step
<1>1. ASSUME NEW p \in Procs, Acquire(p) \/ Decline(p) \/ GiveUp(p) \/ Replace(p)
      PROVE  CommitInv'
  <2>1. now' = now /\ pc'[p] \notin Committing \cup {"stamp"}
    BY <1>1 DEF Acquire, Decline, GiveUp, Replace, Release, Committing
  <2>2. \A q \in Procs \ {p} : pc'[q] = pc[q] /\ txn'[q] = txn[q]
    BY <1>1 DEF Acquire, Decline, GiveUp, Replace, Release
  <2>3. QED
    BY <2>1, <2>2, CommitLeft
<1>2. ASSUME NEW p \in Procs, Collect(p) \/ Fail(p) \/ FailInWindow(p)
      PROVE  CommitInv'
  <2>1. now' = now /\ pc'[p] \notin Committing \cup {"stamp"}
    BY <1>2 DEF Collect, GcPlan, RemoveSnapshot, RemoveObject, GcDone, Fail, FailInWindow,
                Release, Committing
  <2>2. \A q \in Procs \ {p} : pc'[q] = pc[q] /\ txn'[q] = txn[q]
    BY <1>2 DEF Collect, GcPlan, RemoveSnapshot, RemoveObject, GcDone, Fail, FailInWindow,
                Release
  <2>3. QED
    BY <2>1, <2>2, CommitLeft
<1>3. ASSUME NEW p \in Procs, PublishFile(p) \/ Published(p) \/ Snapshot(p)
      PROVE  CommitInv'
  <2>1. now' = now /\ txn' = txn
    BY <1>3 DEF PublishFile, Published, Snapshot, procVars
  <2>2. \A q \in Procs : pc'[q] = pc[q] \/ {pc[q], pc'[q]} \subseteq Committing
    <3>1. CASE PublishFile(p)
      BY <3>1 DEF PublishFile, procVars
    <3>2. CASE Published(p) \/ Snapshot(p)
      <4>1. pc[p] \in Committing /\ pc'[p] \in Committing
        BY <3>2 DEF Published, Snapshot, Committing
      <4>2. \A q \in Procs \ {p} : pc'[q] = pc[q]
        BY <3>2 DEF Published, Snapshot
      <4>3. QED
        BY <4>1, <4>2
    <3>3. QED
      BY <1>3, <3>1, <3>2
  <2>3. QED
    BY <2>1, <2>2, CommitKept
<1>4. ASSUME NEW p \in Procs, Initialize(p)
      PROVE  CommitInv'
  <2>1. /\ pc'[p] = "publish" /\ now' = now /\ txn'[p].old = None /\ Blank(txn'[p].new)
        /\ \A q \in Procs \ {p} : pc'[q] = pc[q] /\ txn'[q] = txn[q]
    BY <1>4 DEF Initialize, Blank
  <2>2. \A q \in Procs \ {p} : pc'[q] = "idle"
    BY <1>4, <2>1 DEF LockInv, Initialize
  <2>3. QED
    BY <2>1, <2>2 DEF CommitInv, Committing
<1>5. ASSUME NEW p \in Procs, Admit(p)
      PROVE  CommitInv'
  <2>1. pc'[p] = "stamp" /\ \A q \in Procs \ {p} : pc'[q] = "idle"
    BY <1>5 DEF LockInv, Admit
  <2>2. QED
    BY <1>5, <2>1, AdmitGrants DEF CommitInv, Committing
<1>6. ASSUME NEW p \in Procs, Stamp(p)
      PROVE  CommitInv'
  <2>1. pc'[p] = "publish" /\ \A q \in Procs \ {p} : pc'[q] = "idle"
    BY <1>6 DEF LockInv, Stamp
  <2>2. txn'[p].old # None /\ Granted(txn[p])' /\ Succeeds(txn[p])'
    BY <1>6, StampSucceeds
  <2>3. QED
    BY <2>1, <2>2 DEF CommitInv, Committing
\* A lease that was free or lapsed stays so, and a granted term only shrinks.
<1>7. CASE Tick
  <2>1. now' = now + 1 /\ pc' = pc /\ txn' = txn
    BY <1>7 DEF Tick, procVars
  <2>2. ASSUME NEW d \in Document, ~Live(d)
        PROVE  ~Live(d)'
    BY <2>1, <2>2 DEF Live, Document
  <2>3. ASSUME NEW t \in Transaction, t.old \in Document, Granted(t)
        PROVE  Granted(t)'
    BY <2>2, <2>3 DEF Granted, LeaseStands
  <2>4. ASSUME NEW t \in Transaction, Succeeds(t)
        PROVE  Succeeds(t)'
    <3>1. t.new.until \in Nat
      BY DEF Transaction, Document
    <3>2. t.new.until <= now + LeaseLen => t.new.until <= now' + LeaseLen
      BY <2>1, <3>1, LeaseAssumption
    <3>3. QED
      BY <2>4, <3>2 DEF Succeeds
  <2>5. ASSUME NEW p \in Procs, pc[p] = "stamp"
        PROVE  txn[p] \in Transaction /\ txn[p].old \in Document
    BY <2>5 DEF TxnInv
  <2>6. ASSUME NEW p \in Procs, pc[p] \in Committing
        PROVE  txn[p] \in Transaction /\ (txn[p].old # None => txn[p].old \in Document)
    BY <2>6 DEF TxnInv, OldInv
  <2>7. QED
    BY <2>1, <2>3, <2>4, <2>5, <2>6 DEF CommitInv
<1>8. CASE (\E r \in Readers : Read(r)) \/ UNCHANGED vars
  <2>1. now' = now /\ txn' = txn /\ pc' = pc
    BY <1>8 DEF Read, ReadCurrent, ReadFile, Report, vars, procVars
  <2>2. \A q \in Procs : pc'[q] = pc[q]
    BY <2>1
  <2>3. QED
    BY <2>1, <2>2, CommitKept
<1>9. QED
  BY <1>1, <1>2, <1>3, <1>4, <1>5, <1>6, <1>7, <1>8 DEF Next, Command

-----------------------------------------------------------------------------
(* One receipt for every revision. *)

\* Only a replacement changes the committed document.
LEMMA CurrentKept ==
  ASSUME [Next]_vars, \A p \in Procs : ~Replace(p)
  PROVE  current' = current
  BY DEF Next, vars, storeVars, procVars, Acquire, Command, Initialize, Admit, Decline, Stamp,
         PublishFile, GiveUp, Published, Snapshot, Collect, GcPlan, RemoveSnapshot,
         RemoveObject, GcDone, Fail, FailInWindow, Tick, Read, ReadCurrent, ReadFile, Report

\* A replacement installs a blank document over none, or one with the receipt
\* of the operation that was granted over the committed one.
LEMMA Replaced ==
  ASSUME BaseInv, CommitInv, NEW p \in Procs, Replace(p)
  PROVE  /\ txn[p] \in Transaction /\ txn[p].old = current /\ txn[p].new = current'
         /\ current' \in Document /\ current' # None
         /\ current = None => Blank(current')
         /\ current # None => Granted(txn[p]) /\ Succeeds(txn[p]) /\ current \in Document
<1>1. txn[p] \in Transaction /\ txn[p].old = current /\ txn[p].new = current'
  BY DEF Replace, BaseInv, TxnInv, Committing
<1>2. current' \in Document /\ current' # None
  BY <1>1, DocumentAssumption DEF Transaction
<1>3. QED
  BY <1>1, <1>2 DEF Replace, CommitInv, Committing, BaseInv, TypeOK

LEMMA ReceiptStep ==
  BaseInv /\ CommitInv /\ ReceiptInv /\ [Next]_vars => ReceiptInv'
<1> SUFFICES ASSUME BaseInv, CommitInv, ReceiptInv, [Next]_vars
             PROVE  ReceiptInv'
  OBVIOUS
<1>1. CASE \A p \in Procs : ~Replace(p)
  <2>1. current' = current
    BY <1>1, CurrentKept
  <2>2. QED
    BY <2>1 DEF ReceiptInv, OneReceiptPerRevision
<1>2. ASSUME NEW p \in Procs, Replace(p), current = None
      PROVE  ReceiptInv'
  <2>1. Blank(current')
    BY <1>2, Replaced
  <2>2. /\ Receipts(current') = {} /\ Archived(current') = {}
        /\ Numbered(current') /\ current'.rev = 0
    BY <2>1, BlankReceipts DEF Blank
  <2>3. QED
    BY <2>2 DEF ReceiptInv, OneReceiptPerRevision
<1>3. ASSUME NEW p \in Procs, Replace(p), current # None
      PROVE  ReceiptInv'
  <2> DEFINE t == txn[p]
             d == current
             f == current'
             receipt == [id |-> t.id, hash |-> t.hash, rev |-> t.old.rev + 1]
  <2>1. /\ t.old = d /\ t.new = f /\ d \in Document /\ f \in Document /\ f # None
        /\ Granted(t) /\ Succeeds(t)
    BY <1>3, Replaced
  <2>2. /\ Numbered(f) /\ f.rev = d.rev + 1 /\ d.rev \in Nat
        /\ Receipts(f) = Receipts(d) \cup {receipt}
    BY <2>1 DEF Succeeds, Document
  <2>3. /\ receipt.rev = d.rev + 1 /\ receipt.hash.exp = d.rev
        /\ \A r \in Receipts(d) : r.id # receipt.id
    BY <2>1 DEF Granted, Known
  <2> HIDE DEF receipt, t
  <2>4. /\ \A n \in 1 .. d.rev : \E r \in Receipts(d) : r.rev = n
        /\ \A r \in Receipts(d) :
             /\ r.rev \in 1 .. d.rev
             /\ r.hash.exp = r.rev - 1
             /\ \A q \in Receipts(d) \ {r} : q.rev # r.rev /\ q.id # r.id
    BY <1>3 DEF ReceiptInv, OneReceiptPerRevision
  <2>5. ASSUME NEW n \in 1 .. f.rev
        PROVE  \E r \in Receipts(f) : r.rev = n
    <3>1. CASE n = d.rev + 1
      BY <2>2, <2>3, <3>1
    <3>2. CASE n # d.rev + 1
      <4>1. n \in 1 .. d.rev
        BY <2>2, <3>2
      <4>2. QED
        BY <2>2, <2>4, <4>1
    <3>3. QED
      BY <3>1, <3>2
  <2>6. ASSUME NEW r \in Receipts(f)
        PROVE  /\ r.rev \in 1 .. f.rev
               /\ r.hash.exp = r.rev - 1
               /\ \A q \in Receipts(f) \ {r} : q.rev # r.rev /\ q.id # r.id
    <3>1. CASE r = receipt
      <4>1. \A q \in Receipts(f) \ {r} : q \in Receipts(d)
        BY <2>2, <3>1
      <4>2. QED
        BY <2>2, <2>3, <2>4, <3>1, <4>1
    <3>2. CASE r # receipt
      <4>1. r \in Receipts(d) /\ \A q \in Receipts(f) \ {r} : q \in Receipts(d) \/ q = receipt
        BY <2>2, <3>2
      <4>2. QED
        BY <2>2, <2>3, <2>4, <4>1
    <3>3. QED
      BY <3>1, <3>2
  <2>7. Elements(f.ops) \cap Archived(f) = {}
    BY <2>1, <2>2, InlineOrArchived
  <2>8. QED
    BY <2>2, <2>5, <2>6, <2>7 DEF ReceiptInv, OneReceiptPerRevision
<1>4. QED
  BY <1>1, <1>2, <1>3

-----------------------------------------------------------------------------
(* The history. *)

LEMMA HistoryInit == Init => HistoryInv
  BY DEF Init, HistoryInv, HistoryIsLinear, RecentHistoryKept

\* A step that leaves the documents alone and starts neither a replacement of
\* a document nor a collection.
LEMMA HistoryKept ==
  ASSUME HistoryInv, current' = current, history' = history,
         \A q \in Procs :
           /\ pc'[q] = "replace" =>
                txn'[q].old = None \/ (pc[q] = "replace" /\ txn'[q] = txn[q])
           /\ pc'[q] = "sweep" => pc[q] = "sweep" /\ sweep'[q].expired = sweep[q].expired
  PROVE  HistoryInv'
<1>1. HistoryIsLinear' /\ RecentHistoryKept'
  BY DEF HistoryInv, HistoryIsLinear, RecentHistoryKept
<1>2. QED
  BY <1>1 DEF HistoryInv

\* The snapshots younger than one in a linear history are no more than the
\* revisions between it and the committed one.
LEMMA ExpiredAreOld ==
  ASSUME BaseInv, HistoryIsLinear, NEW s \in history \ Retained
  PROVE  s.rev + KeepHistory <= current.rev
<1> DEFINE younger == {t \in history : t.rev > s.rev}
           revs == s.rev + 1 .. current.rev
           f == [t \in younger |-> t.rev]
<1>1. /\ history \subseteq Document /\ s.rev \in Nat /\ current \in Document
      /\ current.rev \in Nat /\ s.rev <= current.rev
  BY DEF BaseInv, TypeOK, HistoryIsLinear, Document
<1>2. \A t \in younger : t.rev \in revs
  BY <1>1 DEF HistoryIsLinear, Document
<1>3. f \in Injection(younger, revs)
  BY <1>2 DEF Injection, IsInjective, HistoryIsLinear
<1>4. IsFiniteSet(revs) /\ Cardinality(revs) = current.rev - s.rev
  <2>1. s.rev + 1 \in Int /\ current.rev \in Int
    BY <1>1
  <2>2. /\ IsFiniteSet(revs)
        /\ Cardinality(revs) =
             IF s.rev + 1 > current.rev THEN 0 ELSE current.rev - (s.rev + 1) + 1
    BY <2>1, FS_Interval
  <2> HIDE DEF revs
  <2>3. QED
    BY <1>1, <2>2
<1>5. Cardinality(younger) <= current.rev - s.rev /\ Cardinality(younger) \in Nat
  <2> HIDE DEF younger, revs, f
  <2>1. IsFiniteSet(younger) /\ Cardinality(younger) <= Cardinality(revs)
    BY <1>3, <1>4, FS_Injection
  <2>2. QED
    BY <1>4, <2>1, FS_CardinalityType
<1>6. ~(Cardinality(younger) < KeepHistory)
  BY DEF Retained
<1> HIDE DEF younger
<1>7. QED
  BY <1>1, <1>5, <1>6, KeepHistoryAssumption

LEMMA HistoryStep ==
  BaseInv /\ CommitInv /\ ReceiptInv /\ HistoryInv /\ [Next]_vars => HistoryInv'
<1> SUFFICES ASSUME BaseInv, CommitInv, ReceiptInv, HistoryInv, [Next]_vars
             PROVE  HistoryInv'
  OBVIOUS
<1> USE DEF BaseInv, TypeOK
<1>0. \A p \in Procs : pc[p] # "idle" => \A q \in Procs \ {p} : pc[q] = "idle"
  BY ProcsAssumption DEF LockInv
<1>1. ASSUME NEW p \in Procs,
             Acquire(p) \/ Initialize(p) \/ Admit(p) \/ Decline(p) \/ Stamp(p)
             \/ PublishFile(p) \/ GiveUp(p)
      PROVE  HistoryInv'
  <2>1. current' = current /\ history' = history
    BY <1>1 DEF Acquire, Initialize, Admit, Decline, Stamp, PublishFile, GiveUp, storeVars
  <2>2. pc'[p] \notin {"replace", "sweep"}
    BY <1>1 DEF Acquire, Initialize, Admit, Decline, Stamp, PublishFile, GiveUp, Release, procVars
  <2>3. \A q \in Procs \ {p} : pc'[q] = pc[q] /\ txn'[q] = txn[q] /\ sweep'[q] = sweep[q]
    BY <1>1 DEF Acquire, Initialize, Admit, Decline, Stamp, PublishFile, GiveUp, Release, procVars
  <2>4. QED
    BY <2>1, <2>2, <2>3, HistoryKept
<1>2. ASSUME NEW p \in Procs, Published(p)
      PROVE  HistoryInv'
  <2>1. current' = current /\ history' = history /\ txn' = txn /\ sweep' = sweep
    BY <1>2 DEF Published, storeVars
  <2>2. pc'[p] # "sweep" /\ (pc'[p] = "replace" => txn'[p].old = None)
    BY <1>2, <2>1 DEF Published
  <2>3. \A q \in Procs \ {p} : pc'[q] = pc[q]
    BY <1>2 DEF Published
  <2>4. QED
    BY <2>1, <2>2, <2>3, HistoryKept
\* The committed document joins the documents it descends from.
<1>3. ASSUME NEW p \in Procs, Snapshot(p)
      PROVE  HistoryInv'
  <2>1. /\ history' = history \cup {current} /\ current' = current /\ txn' = txn
        /\ current # None /\ current = txn[p].old
        /\ current \in Document /\ current.rev \in Nat
    BY <1>3 DEF Snapshot, TxnInv, Document
  <2>2. \A q \in Procs : pc'[q] \in {"replace", "sweep"} => q = p /\ pc'[q] = "replace"
    BY <1>0, <1>3 DEF Snapshot
  <2>3. \A r \in Receipts(current) : r.rev <= current.rev
    BY <2>1 DEF ReceiptInv, OneReceiptPerRevision
  <2>4. HistoryIsLinear'
    <3>1. ASSUME NEW s \in history
          PROVE  /\ s.rev <= current.rev
                 /\ Receipts(s) = {r \in Receipts(current) : r.rev <= s.rev}
                 /\ \A t \in history \cup {current} : t.rev = s.rev => t = s
      BY DEF HistoryInv, HistoryIsLinear
    <3>2. Receipts(current) = {r \in Receipts(current) : r.rev <= current.rev}
      BY <2>3
    <3>3. \A t \in history \cup {current} : t.rev = current.rev => t = current
      BY <3>1
    <3>4. QED
      BY <2>1, <3>1, <3>2, <3>3 DEF HistoryIsLinear
  <2>5. RecentHistoryKept'
    BY <2>1 DEF HistoryInv, RecentHistoryKept
  <2>6. QED
    BY <2>1, <2>2, <2>4, <2>5 DEF HistoryInv
\* Nothing was archived before init; afterwards the replaced document has been.
<1>4. ASSUME NEW p \in Procs, Replace(p)
      PROVE  HistoryInv'
  <2>1. history' = history /\ \A q \in Procs : pc'[q] = "idle"
    BY <1>0, <1>4 DEF Replace, Release, storeVars
  <2>2. CASE current = None
    <3>1. history' = {} /\ current'.rev = 0
      BY <1>4, <2>1, <2>2, Replaced DEF HistoryInv, HistoryIsLinear, Blank
    <3>2. HistoryIsLinear' /\ RecentHistoryKept'
      BY <3>1 DEF HistoryIsLinear, RecentHistoryKept
    <3>3. QED
      BY <2>1, <3>2 DEF HistoryInv
  <2>3. CASE current # None
    <3>1. /\ current \in history /\ current' # None /\ current.rev \in Nat
          /\ current'.rev = current.rev + 1
          /\ \E e : e.rev = current.rev + 1 /\ Receipts(current') = Receipts(current) \cup {e}
      BY <1>4, <2>3, Replaced DEF HistoryInv, Replace, Succeeds, Document
    <3>2. \A s \in history : s.rev \in Nat /\ s.rev <= current.rev
      BY DEF HistoryInv, HistoryIsLinear, Document
    <3>3. ASSUME NEW s \in history
          PROVE  Receipts(s) = {r \in Receipts(current') : r.rev <= s.rev}
      <4>1. Receipts(s) = {r \in Receipts(current) : r.rev <= s.rev}
        BY DEF HistoryInv, HistoryIsLinear
      <4>2. QED
        BY <3>1, <3>2, <4>1
    <3>4. ASSUME NEW s \in history, NEW t \in history \cup {current'}, t.rev = s.rev
          PROVE  t = s
      <4>1. t # current'
        BY <3>1, <3>2, <3>4
      <4>2. QED
        BY <3>4, <4>1 DEF HistoryInv, HistoryIsLinear
    <3>5. HistoryIsLinear'
      BY <2>1, <3>1, <3>2, <3>3, <3>4 DEF HistoryIsLinear
    <3>6. RecentHistoryKept'
      <4>1. ASSUME NEW n \in 0 .. current'.rev - 1, n + KeepHistory > current'.rev
            PROVE  \E s \in history : s.rev = n
        <5>1. CASE n = current.rev
          BY <3>1, <5>1
        <5>2. CASE n # current.rev
          <6>1. n \in 0 .. current.rev - 1 /\ n + KeepHistory > current.rev
            BY <3>1, <4>1, <5>2, KeepHistoryAssumption
          <6>2. QED
            BY <2>3, <6>1 DEF HistoryInv, RecentHistoryKept
        <5>3. QED
          BY <5>1, <5>2
      <4>2. QED
        BY <2>1, <4>1 DEF RecentHistoryKept
    <3>7. QED
      BY <2>1, <3>5, <3>6 DEF HistoryInv
  <2>4. QED
    BY <2>2, <2>3
<1>5. ASSUME NEW p \in Procs, GcPlan(p)
      PROVE  HistoryInv'
  <2>1. /\ current' = current /\ history' = history /\ pc'[p] = "sweep"
        /\ sweep'[p] = [expired |-> history \ Retained, garbage |-> Garbage]
        /\ \A q \in Procs \ {p} : pc'[q] = "idle"
    BY <1>0, <1>5 DEF GcPlan, storeVars
  <2>2. \A s \in sweep'[p].expired : s.rev + KeepHistory <= current.rev
    BY <2>1, ExpiredAreOld DEF HistoryInv
  <2>3. HistoryIsLinear' /\ RecentHistoryKept'
    BY <2>1 DEF HistoryInv, HistoryIsLinear, RecentHistoryKept
  <2>4. QED
    BY <2>1, <2>2, <2>3 DEF HistoryInv
<1>6. ASSUME NEW p \in Procs, RemoveSnapshot(p)
      PROVE  HistoryInv'
  <2>1. /\ current' = current /\ pc'[p] = "sweep" /\ pc[p] = "sweep"
        /\ \A q \in Procs \ {p} : pc'[q] = "idle"
    BY <1>0, <1>6 DEF RemoveSnapshot
  <2>2. PICK s \in sweep[p].expired :
          /\ history' = history \ {s}
          /\ sweep' = [sweep EXCEPT ![p].expired = @ \ {s}]
    BY <1>6 DEF RemoveSnapshot
  <2>3. sweep'[p].expired \subseteq sweep[p].expired
    BY <2>1, <2>2 DEF TxnInv, Sweep
  <2>4. HistoryIsLinear'
    BY <2>1, <2>2 DEF HistoryInv, HistoryIsLinear
  <2>5. s.rev \in Nat /\ s.rev + KeepHistory <= current.rev
    BY <2>1, <2>2 DEF HistoryInv, TxnInv, Sweep, Document
  <2>6. RecentHistoryKept'
    <3>1. ASSUME current # None, NEW n \in 0 .. current.rev - 1, n + KeepHistory > current.rev
          PROVE  \E t \in history \ {s} : t.rev = n
      <4>1. PICK t \in history : t.rev = n
        BY <3>1 DEF HistoryInv, RecentHistoryKept
      <4>2. t # s
        <5>1. current.rev \in Nat
          BY <3>1 DEF Document
        <5>2. QED
          BY <2>5, <3>1, <4>1, <5>1, KeepHistoryAssumption
      <4>3. QED
        BY <4>1, <4>2
    <3>2. QED
      BY <2>1, <2>2, <3>1 DEF RecentHistoryKept
  <2>7. QED
    BY <2>1, <2>3, <2>4, <2>6 DEF HistoryInv
<1>7. ASSUME NEW p \in Procs, RemoveObject(p) \/ GcDone(p) \/ Fail(p) \/ FailInWindow(p)
      PROVE  HistoryInv'
  <2>1. current' = current /\ history' = history
    BY <1>7 DEF RemoveObject, GcDone, Fail, FailInWindow, storeVars
  <2>2. /\ pc'[p] # "replace"
        /\ pc'[p] = "sweep" => pc[p] = "sweep" /\ sweep'[p].expired = sweep[p].expired
    <3>1. CASE RemoveObject(p)
      BY <3>1 DEF RemoveObject, TxnInv, Sweep
    <3>2. CASE GcDone(p) \/ Fail(p) \/ FailInWindow(p)
      BY <3>2 DEF GcDone, Fail, FailInWindow, Release
    <3>3. QED
      BY <1>7, <3>1, <3>2
  <2>3. \A q \in Procs \ {p} : pc'[q] = pc[q] /\ txn'[q] = txn[q] /\ sweep'[q] = sweep[q]
    BY <1>7 DEF RemoveObject, GcDone, Fail, FailInWindow, Release
  <2>4. QED
    BY <2>1, <2>2, <2>3, HistoryKept
<1>8. CASE Tick \/ (\E r \in Readers : Read(r)) \/ UNCHANGED vars
  <2>1. UNCHANGED <<current, history, pc, txn, sweep>>
    BY <1>8 DEF Tick, Read, ReadCurrent, ReadFile, Report, vars, storeVars, procVars
  <2>2. QED
    BY <2>1, HistoryKept
<1>9. QED
  BY <1>1, <1>2, <1>3, <1>4, <1>5, <1>6, <1>7, <1>8 DEF Next, Command, Collect

-----------------------------------------------------------------------------
(* The readers. *)

LEMMA SegmentsStay ==
  ASSUME BaseInv, [Next]_vars, NEW f \in files \ wedged, f[1] = "segment"
  PROVE  f \in files' \ wedged'
<1>1. ASSUME NEW p \in Procs, RemoveObject(p)
      PROVE  f \in files' \ wedged'
  <2>1. PICK g \in sweep[p].garbage : files' = files \ {g}
    BY <1>1 DEF RemoveObject
  <2>2. g[1] # "segment" /\ wedged' = wedged
    BY <1>1 DEF RemoveObject, BaseInv, StoreInv
  <2>3. QED
    BY <2>1, <2>2
<1>2. ASSUME NEW p \in Procs, PublishFile(p) \/ FailInWindow(p)
      PROVE  f \in files' \ wedged'
  BY <1>2 DEF PublishFile, FailInWindow, NextFile
<1>3. CASE \A p \in Procs : ~RemoveObject(p) /\ ~PublishFile(p) /\ ~FailInWindow(p)
  <2>1. files' = files /\ wedged' = wedged
    BY <1>3 DEF Next, vars, storeVars, procVars, Acquire, Command, Initialize, Admit, Decline,
                Stamp, GiveUp, Published, Snapshot, Replace, Collect, GcPlan, RemoveSnapshot,
                GcDone, Fail, Tick, Read, ReadCurrent, ReadFile, Report
  <2>2. QED
    BY <2>1
<1>4. QED
  BY <1>1, <1>2, <1>3

\* Only a snapshot adds to the history: the committed document.
LEMMA HistoryGrowsBy ==
  ASSUME BaseInv, [Next]_vars
  PROVE  \/ history' \subseteq history
         \/ current # None /\ history' = history \cup {current} /\ current' = current
<1>1. ASSUME NEW p \in Procs, Snapshot(p)
      PROVE  current # None /\ history' = history \cup {current} /\ current' = current
  BY <1>1 DEF Snapshot, BaseInv, TxnInv
<1>2. CASE \A p \in Procs : ~Snapshot(p)
  BY <1>2 DEF Next, vars, storeVars, procVars, Acquire, Command, Initialize, Admit, Decline,
              Stamp, PublishFile, GiveUp, Published, Replace, Collect, GcPlan, RemoveSnapshot,
              RemoveObject, GcDone, Fail, FailInWindow, Tick, Read, ReadCurrent, ReadFile, Report
<1>3. QED
  BY <1>1, <1>2

\* The committed document is replaced only by one of a later revision.
LEMMA RevisionsRise ==
  ASSUME BaseInv, CommitInv, [Next]_vars, current # None
  PROVE  /\ current' # None
         /\ current' = current \/ current'.rev = current.rev + 1
<1>1. ASSUME NEW p \in Procs, Replace(p)
      PROVE  current' # None /\ current'.rev = current.rev + 1
  BY <1>1, Replaced DEF Succeeds
<1>2. QED
  BY <1>1, CurrentKept

LEMMA ViewInit == Init => ViewInv
  BY DEF Init, ViewInv, MissesAreExplained

LEMMA ViewStep ==
  BaseInv /\ CommitInv /\ ViewInv /\ HistoryInv /\ [Next]_vars => ViewInv'
<1> SUFFICES ASSUME BaseInv, CommitInv, ViewInv, HistoryInv, [Next]_vars
             PROVE  ViewInv'
  OBVIOUS
<1>1. \A s \in history' : Readable(SegmentFiles(s))'
  <2>1. ASSUME NEW s \in history'
        PROVE  Readable(SegmentFiles(s))
    BY HistoryGrowsBy DEF ViewInv, BaseInv, StoreInv, CurrentResolvable, Readable
  <2>2. QED
    BY <2>1, SegmentsStay, NamesApart DEF Readable
\* A reader at work: what it read cannot have become newer than what is committed.
<1>2. ASSUME NEW r \in Readers, view'[r] # None, view'[r] = view[r]
      PROVE  /\ current' # None /\ view'[r].doc.rev <= current'.rev
             /\ view'[r].left \subseteq
                  ObjectFiles(view'[r].doc) \cup SegmentFiles(view'[r].doc)
             /\ ~view'[r].ok => view'[r].doc \notin history' \cup {current'}
  <2>1. /\ current # None /\ view[r].doc.rev <= current.rev
        /\ view[r].left \subseteq ObjectFiles(view[r].doc) \cup SegmentFiles(view[r].doc)
        /\ ~view[r].ok => view[r].doc \notin history \cup {current}
    BY <1>2 DEF ViewInv, MissesAreExplained
  <2>2. current.rev \in Nat /\ view[r].doc.rev \in Nat
    BY <1>2, <2>1 DEF BaseInv, TypeOK, View, Document
  <2>3. view[r].doc.rev <= current'.rev /\ (view[r].doc = current' => view[r].doc = current)
    BY <2>1, <2>2, RevisionsRise
  <2>4. QED
    BY <1>2, <2>1, <2>3, RevisionsRise, HistoryGrowsBy
<1>3. ASSUME NEW r \in Readers, ReadCurrent(r), view'[r] # None
      PROVE  /\ current' # None /\ view'[r].doc.rev <= current'.rev
             /\ view'[r].left \subseteq
                  ObjectFiles(view'[r].doc) \cup SegmentFiles(view'[r].doc)
             /\ ~view'[r].ok => view'[r].doc \notin history' \cup {current'}
  <2>1. PICK F \in Wanted(current) :
          view' = [view EXCEPT ![r] = [doc |-> current, left |-> F, ok |-> TRUE]]
    BY <1>3 DEF ReadCurrent
  <2>2. current # None /\ current' = current /\ current.rev \in Nat
    BY <1>3 DEF ReadCurrent, BaseInv, TypeOK, Document
  <2>3. view'[r].doc = current /\ view'[r].left = F /\ view'[r].ok
    BY <2>1 DEF BaseInv, TypeOK
  <2>4. F \subseteq ObjectFiles(current) \cup SegmentFiles(current)
    BY DEF Wanted
  <2>5. QED
    BY <2>2, <2>3, <2>4
\* A file that was missed belonged to no document that is still kept.
<1>4. ASSUME NEW r \in Readers, ReadFile(r), view'[r] # None
      PROVE  /\ current' # None /\ view'[r].doc.rev <= current'.rev
             /\ view'[r].left \subseteq
                  ObjectFiles(view'[r].doc) \cup SegmentFiles(view'[r].doc)
             /\ ~view'[r].ok => view'[r].doc \notin history' \cup {current'}
  <2>1. PICK f \in view[r].left :
          view' = [view EXCEPT ![r] =
            [doc |-> @.doc, left |-> @.left \ {f}, ok |-> Readable({f})]]
    BY <1>4 DEF ReadFile
  <2>2. /\ view'[r].doc = view[r].doc /\ view'[r].left = view[r].left \ {f}
        /\ view'[r].ok = Readable({f})
    BY <2>1 DEF BaseInv, TypeOK
  <2>3. current' = current /\ history' = history
    BY <1>4 DEF ReadFile, storeVars
  <2>4. /\ current # None /\ view[r].doc.rev <= current.rev
        /\ view[r].left \subseteq ObjectFiles(view[r].doc) \cup SegmentFiles(view[r].doc)
    BY <1>4 DEF ReadFile, ViewInv
  <2>5. ASSUME NEW d \in history \cup {current}
        PROVE  ObjectFiles(d) \cup SegmentFiles(d) \subseteq files \ wedged
    BY <2>4 DEF ViewInv, BaseInv, StoreInv, SnapshotsRecoverable, CurrentResolvable, Readable
  <2>6. ~Readable({f}) => view[r].doc \notin history \cup {current}
    BY <2>4, <2>5 DEF Readable
  <2>7. QED
    BY <2>2, <2>3, <2>4, <2>6
<1>5. ASSUME NEW r \in Readers, view'[r] # None
      PROVE  view'[r] = view[r] \/ ReadCurrent(r) \/ ReadFile(r)
  <2>1. CASE \E q \in Readers : Read(q)
    BY <1>5, <2>1 DEF Read, ReadCurrent, ReadFile, Report, BaseInv, TypeOK
  <2>2. CASE ~\E q \in Readers : Read(q)
    <3>1. view' = view
      BY <2>2 DEF Next, vars, storeVars, procVars, Acquire, Command, Initialize, Admit, Decline,
                  Stamp, PublishFile, GiveUp, Published, Snapshot, Replace, Collect, GcPlan,
                  RemoveSnapshot, RemoveObject, GcDone, Fail, FailInWindow, Tick
    <3>2. QED
      BY <3>1
  <2>3. QED
    BY <2>1, <2>2
<1>6. QED
  BY <1>1, <1>2, <1>3, <1>4, <1>5 DEF ViewInv, MissesAreExplained

-----------------------------------------------------------------------------
(* The theorems. *)

\* RelayInductive's invariant, of the store, the transactions under way, the
\* receipts, the history and the readers, holds in every reachable state.
THEOREM Inductive == Spec => []IInv
<1>1. Init => CommitInv /\ ReceiptInv
  BY DEF Init, CommitInv, Committing, ReceiptInv, OneReceiptPerRevision
<1>2. BaseInv /\ CommitInv /\ ReceiptInv /\ HistoryInv /\ ViewInv => IInv
  BY DEF IInv, LedgerInv
<1>3. QED
  BY <1>1, <1>2, StoreInductive, CommitStep, ReceiptStep, HistoryInit, HistoryStep, ViewInit,
     ViewStep, PTL DEF Spec

\* No operation mutate commits is applied twice and none is lost: whatever the
\* number of writers and processes, and whatever is killed, retried or compacted,
\* there is one receipt for every revision and one use of every operation id.
THEOREM OneReceipt == Spec => []OneReceiptPerRevision
<1>1. IInv => OneReceiptPerRevision
  BY DEF IInv, LedgerInv, ReceiptInv
<1>2. QED
  BY <1>1, Inductive, PTL

\* History never forks: what commit archives before each replacement is the
\* committed document's own past, receipt by receipt.
THEOREM LinearHistory == Spec => []HistoryIsLinear
<1>1. IInv => HistoryIsLinear
  BY DEF IInv, LedgerInv, HistoryInv
<1>2. QED
  BY <1>1, Inductive, PTL

\* gc --keep-history leaves the latest revisions recoverable, also when commits
\* were killed between the archiving and the replacement.
THEOREM RecentHistory == Spec => []RecentHistoryKept
<1>1. IInv => RecentHistoryKept
  BY DEF IInv, LedgerInv, HistoryInv
<1>2. QED
  BY <1>1, Inductive, PTL

\* A reader that takes no lock misses a file only of a document that was
\* replaced and then collected while it was reading.
THEOREM MissesExplained == Spec => []MissesAreExplained
<1>1. IInv => MissesAreExplained
  BY DEF IInv, ViewInv
<1>2. QED
  BY <1>1, Inductive, PTL

\* While a lease is live nobody but its holder commits, however long before the
\* replacement mutate had checked the lease.
THEOREM LeaseIsRespected == Spec => LeaseRespected
<1>1. ASSUME IInv, [Next]_vars
      PROVE  [\A p \in Procs :
                /\ current # None /\ Live(current)
                /\ current' # current
                /\ pc[p] = "replace" /\ pc'[p] = "idle"
                => txn[p].hash.writer = current.writer]_vars
  <2> SUFFICES ASSUME NEW p \in Procs, current # None, Live(current), current' # current,
                      pc[p] = "replace"
               PROVE  txn[p].hash.writer = current.writer
    OBVIOUS
  <2>1. PICK q \in Procs : Replace(q)
    BY <1>1, CurrentKept
  <2>2. q = p
    BY <1>1, <2>1, ProcsAssumption DEF Replace, IInv, BaseInv, LockInv
  <2>3. Granted(txn[p]) /\ txn[p].old = current
    BY <1>1, <2>1, <2>2, Replaced DEF IInv, LedgerInv
  <2>4. QED
    BY <2>3 DEF Granted, LeaseStands
<1>2. QED
  BY <1>1, Inductive, PTL DEF Spec, LeaseRespected

LEMMA RefinesInit == Init => L!Init
  BY DEF Init, L!Init

\* The only step of the relay that is a step of the ledger, but for the clock's,
\* is the replacement of the committed document.
LEMMA RefinesStep ==
  ASSUME IInv, [Next]_vars
  PROVE  [L!Next]_(L!ledgerVars)
<1>1. ASSUME NEW p \in Procs, Replace(p), current = None
      PROVE  UNCHANGED L!ledgerVars
  <2>1. Blank(current') /\ current' # None /\ now' = now
    BY <1>1, Replaced DEF IInv, LedgerInv, Replace
  <2>2. Receipts(current') = {}
    BY <2>1, BlankReceipts
  <2>3. QED
    BY <1>1, <2>1, <2>2 DEF L!ledgerVars, Blank
<1>2. ASSUME NEW p \in Procs, Replace(p), current # None
      PROVE  L!Next
  <2> DEFINE t == txn[p]
  <2>1. /\ t.old = current /\ t.new = current' /\ current' # None /\ Granted(t) /\ Succeeds(t)
        /\ current \in Document /\ current' \in Document /\ now' = now /\ now \in Nat
    BY <1>2, Replaced DEF IInv, LedgerInv, Replace, BaseInv, TypeOK
  <2> HIDE DEF t
  <2>2. t.hash \in L!Requests(current.rev) /\ t.id \in L!Ids(t.hash)
    BY <2>1 DEF Granted, Requests, L!Requests, Arguments, L!Arguments, Ids, L!Ids,
                AutoIdentified, L!AutoIdentified
  <2>3. L!Permitted(t.hash)
    BY <1>2, <2>1 DEF Granted, LeaseStands, Live, Document, L!Permitted, L!Lapsed,
                      Takers, L!Takers, Holders, L!Holders
  <2>4. \A r \in Receipts(current) : r.id # t.id
    BY <2>1 DEF Granted, Known
  <2>5. IF t.hash.cmd \in L!Keepers
        THEN current'.writer = t.hash.writer /\ current'.until \in 0 .. now + LeaseLen
        ELSE current'.writer = None /\ current'.until = 0
    BY <2>1, LeaseAssumption DEF Succeeds, Document, Keepers, L!Keepers
  <2>6. L!Accept(t.id, t.hash)
    BY <1>2, <2>1, <2>3, <2>4, <2>5 DEF L!Accept, Granted, Succeeds
  <2>7. QED
    BY <1>2, <2>2, <2>6 DEF L!Next
<1>3. CASE Tick
  BY <1>3 DEF Tick, L!Next, L!Tick
<1>4. CASE ~Tick /\ \A p \in Procs : ~Replace(p)
  <2>1. current' = current
    BY <1>4, CurrentKept
  <2>2. now' = now
    BY <1>4 DEF Next, vars, storeVars, procVars, Acquire, Command, Initialize, Admit, Decline,
                Stamp, PublishFile, GiveUp, Published, Snapshot, Collect, GcPlan,
                RemoveSnapshot, RemoveObject, GcDone, Fail, FailInWindow, Read, ReadCurrent,
                ReadFile, Report
  <2>3. QED
    BY <2>1, <2>2 DEF L!ledgerVars
<1>5. QED
  BY <1>1, <1>2, <1>3, <1>4

\* The relay implements the ledger: with processes, locks, files, compaction and
\* kills hidden, what is left is operations accepted one at a time, each on top of
\* the revision it expected.
THEOREM Refines == Spec => ImplementsLedger
<1>1. QED
  BY Inductive, RefinesInit, RefinesStep, PTL DEF Spec, ImplementsLedger, L!Spec
=============================================================================
