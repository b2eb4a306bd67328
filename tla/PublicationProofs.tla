-------------------------- MODULE PublicationProofs --------------------------
(***************************************************************************)
(* What Publication guarantees for any number of publishers and readers.   *)
(***************************************************************************)
EXTENDS Publication, TLAPS

\* Only publishers write, link and unlink.
RolesInv ==
  \A r \in Readers : phase[r] = "read" /\ pc[r] \notin {"write", "link", "unlink"}

\* An inode that is or was under the name belongs to a publisher past its link.
OwnerInv ==
  /\ \A p \in Publishers : pc[p] = "unlink" => target = p
  /\ \A p \in Publishers : target = p => pc[p] \in {"unlink", "ok", "dead"}
  /\ \A p \in Publishers, q \in Callers : seen[q] = p => pc[p] \in {"unlink", "ok", "dead"}

\* What a caller remembers of the file it looked at.
SeenInv ==
  \A q \in Callers :
    /\ pc[q] \in {"list", "restat", "relist", "open", "close"} => seen[q] # None
    /\ seen[q] \notin {None, target} => removed
    /\ pc[q] \in {"restat", "relist", "close"} => seen[q] \notin tmp
    /\ pc[q] = "relist" => seen[q] \in foreign

\* A publisher compares with a file that only the collector can take away.
CompareInv == \A p \in Publishers : phase[p] = "read" /\ target = None => removed

\* What a publisher has found stays where it is for as long as it is at work:
\* nobody but the collector takes a file away, and it waits for the publishers.
LiveInv ==
  \A p \in Publishers :
    /\ pc[p] = "idle" => phase[p] = "publish" /\ seen[p] = None
    /\ pc[p] \notin Outcomes => seen[p] \in {None, target}
    /\ pc[p] \notin Outcomes /\ phase[p] = "read" => target # None

IInv ==
  /\ TypeOK /\ RolesInv /\ OwnerInv /\ SeenInv /\ CompareInv /\ NoFalseAlarm
  /\ LiveInv /\ PublishersAreUndisturbed

-----------------------------------------------------------------------------
(* Type correctness. *)

LEMMA TypeInit ==
  ASSUME Init
  PROVE  TypeOK /\ RolesInv
<1>1. TypeOK
  <2>1. target \in Inodes \cup {None} /\ tmp \subseteq Inodes
    BY DEF Init, Inodes
  <2>2. tries \in [Callers -> 1 .. Attempts]
    BY AttemptsAssumption DEF Init
  <2>3. QED
    BY <2>1, <2>2 DEF Init, TypeOK, Steps, Outcomes
<1>2. RolesInv
  BY CallersAssumption DEF Init, RolesInv, Callers
<1>3. QED
  BY <1>1, <1>2

LEMMA TypeStep ==
  ASSUME TypeOK, RolesInv, [Next]_vars
  PROVE  TypeOK' /\ RolesInv'
<1> USE AttemptsAssumption
<1> USE DEF TypeOK, RolesInv, Callers, Inodes, Goto, Steps, Outcomes, Alarms, fileVars
<1>1. ASSUME NEW p \in Callers, Start(p)
      PROVE  TypeOK' /\ RolesInv'
  BY <1>1 DEF Start
<1>2. ASSUME NEW p \in Callers, LookToPublish(p)
      PROVE  TypeOK' /\ RolesInv'
  <2>1. p \notin Readers
    BY <1>2 DEF LookToPublish
  <2>2. CASE target = None
    <3>1. PICK step \in {"wait", "write"} : Goto(p, step)
      BY <1>2, <2>2 DEF LookToPublish
    <3>2. QED
      BY <1>2, <2>1, <2>2, <3>1 DEF LookToPublish
  <2>3. CASE target # None /\ Settled(target)
    <3>1. 1 \in 1 .. Attempts
      OBVIOUS
    <3>2. QED
      BY <1>2, <2>1, <2>3, <3>1 DEF LookToPublish
  <2>4. CASE target # None /\ ~Settled(target)
    BY <1>2, <2>1, <2>4 DEF LookToPublish
  <2>5. QED
    BY <2>2, <2>3, <2>4
<1>3. ASSUME NEW p \in Callers, LookToRead(p)
      PROVE  TypeOK' /\ RolesInv'
  <2>1. CASE target = None
    <3>1. PICK o \in Outcomes : End(p, o)
      BY <1>3, <2>1 DEF LookToRead
    <3>2. QED
      BY <1>3, <2>1, <3>1 DEF LookToRead, End, Cleanup
  <2>2. CASE target # None
    BY <1>3, <2>2 DEF LookToRead
  <2>3. QED
    BY <2>1, <2>2
<1>4. ASSUME NEW p \in Callers, List(p)
      PROVE  TypeOK' /\ RolesInv'
  BY <1>4 DEF List
<1>5. ASSUME NEW p \in Callers, Restat(p)
      PROVE  TypeOK' /\ RolesInv'
  BY <1>5 DEF Restat, End, Cleanup
<1>6. ASSUME NEW p \in Callers, Relist(p)
      PROVE  TypeOK' /\ RolesInv'
  BY <1>6 DEF Relist, End, Cleanup
<1>7. ASSUME NEW p \in Callers, Wait(p)
      PROVE  TypeOK' /\ RolesInv'
  BY <1>7 DEF Wait, End, Cleanup
<1>8. ASSUME NEW p \in Callers, Write(p)
      PROVE  TypeOK' /\ RolesInv'
  BY <1>8 DEF Write
<1>9. ASSUME NEW p \in Callers, Link(p)
      PROVE  TypeOK' /\ RolesInv'
  BY <1>9 DEF Link
<1>10. ASSUME NEW p \in Callers, Unlink(p)
      PROVE  TypeOK' /\ RolesInv'
  BY <1>10 DEF Unlink, End, Cleanup
<1>11. ASSUME NEW p \in Callers, Open(p)
      PROVE  TypeOK' /\ RolesInv'
  BY <1>11 DEF Open, End, Cleanup
<1>12. ASSUME NEW p \in Callers, Close(p)
      PROVE  TypeOK' /\ RolesInv'
  BY <1>12 DEF Close, End, Cleanup
<1>13. ASSUME NEW p \in Callers, Expire(p)
      PROVE  TypeOK' /\ RolesInv'
  BY <1>13 DEF Expire
<1>14. ASSUME NEW p \in Callers, Die(p)
      PROVE  TypeOK' /\ RolesInv'
  BY <1>14 DEF Die
<1>15. CASE Remove
  BY <1>15 DEF Remove
<1>16. CASE ForeignLink
  BY <1>16 DEF ForeignLink
<1>17. CASE UNCHANGED vars
  BY <1>17 DEF vars
<1>18. QED
  BY <1>1, <1>2, <1>3, <1>4, <1>5, <1>6, <1>7, <1>8, <1>9, <1>10, <1>11, <1>12, <1>13, <1>14, <1>15, <1>16, <1>17 DEF Next, Run, Finished

-----------------------------------------------------------------------------
(* Who linked what, and what callers remember. *)

LEMMA InvStep ==
  ASSUME IInv, [Next]_vars, TypeOK', RolesInv'
  PROVE  OwnerInv' /\ SeenInv' /\ CompareInv' /\ NoFalseAlarm'
<1> USE InodesAssumption, CallersAssumption
<1> USE DEF IInv, TypeOK, RolesInv, OwnerInv, SeenInv, CompareInv, NoFalseAlarm, Callers, Inodes,
            Goto, Steps, Outcomes, Alarms, fileVars
<1>1. ASSUME NEW p \in Callers, Start(p)
      PROVE  OwnerInv' /\ SeenInv' /\ CompareInv' /\ NoFalseAlarm'
  BY <1>1 DEF Start
<1>2. ASSUME NEW p \in Callers, LookToPublish(p)
      PROVE  OwnerInv' /\ SeenInv' /\ CompareInv' /\ NoFalseAlarm'
  <2>1. OwnerInv'
    BY <1>2 DEF LookToPublish, Settled, Single
  <2>2. SeenInv'
    BY <1>2 DEF LookToPublish, Settled, Single
  <2>3. CompareInv'
    BY <1>2 DEF LookToPublish, Settled, Single
  <2>4. NoFalseAlarm'
    BY <1>2 DEF LookToPublish, Settled, Single
  <2>5. QED
    BY <2>1, <2>2, <2>3, <2>4
<1>3. ASSUME NEW p \in Callers, LookToRead(p)
      PROVE  OwnerInv' /\ SeenInv' /\ CompareInv' /\ NoFalseAlarm'
  <2>1. OwnerInv'
    BY <1>3 DEF LookToRead, End, Cleanup, Settled, Single
  <2>2. SeenInv'
    BY <1>3 DEF LookToRead, End, Cleanup, Settled, Single
  <2>3. CompareInv'
    BY <1>3 DEF LookToRead, End, Cleanup, Settled, Single
  <2>4. NoFalseAlarm'
    BY <1>3 DEF LookToRead, End, Cleanup, Settled, Single
  <2>5. QED
    BY <2>1, <2>2, <2>3, <2>4
<1>4. ASSUME NEW p \in Callers, List(p)
      PROVE  OwnerInv' /\ SeenInv' /\ CompareInv' /\ NoFalseAlarm'
  BY <1>4 DEF List
<1>5. ASSUME NEW p \in Callers, Restat(p)
      PROVE  OwnerInv' /\ SeenInv' /\ CompareInv' /\ NoFalseAlarm'
  <2>1. OwnerInv'
    BY <1>5 DEF Restat, End, Cleanup, Single
  <2>2. SeenInv'
    BY <1>5 DEF Restat, End, Cleanup, Single
  <2>3. CompareInv'
    BY <1>5 DEF Restat, End, Cleanup, Single
  <2>4. NoFalseAlarm'
    BY <1>5 DEF Restat, End, Cleanup, Single
  <2>5. QED
    BY <2>1, <2>2, <2>3, <2>4
<1>6. ASSUME NEW p \in Callers, Relist(p)
      PROVE  OwnerInv' /\ SeenInv' /\ CompareInv' /\ NoFalseAlarm'
  BY <1>6 DEF Relist, End, Cleanup
<1>7. ASSUME NEW p \in Callers, Wait(p)
      PROVE  OwnerInv' /\ SeenInv' /\ CompareInv' /\ NoFalseAlarm'
  BY <1>7 DEF Wait, End, Cleanup
<1>8. ASSUME NEW p \in Callers, Write(p)
      PROVE  OwnerInv' /\ SeenInv' /\ CompareInv' /\ NoFalseAlarm'
  BY <1>8 DEF Write
<1>9. ASSUME NEW p \in Callers, Link(p)
      PROVE  OwnerInv' /\ SeenInv' /\ CompareInv' /\ NoFalseAlarm'
  <2>1. OwnerInv'
    BY <1>9 DEF Link
  <2>2. SeenInv'
    BY <1>9 DEF Link
  <2>3. CompareInv'
    BY <1>9 DEF Link
  <2>4. NoFalseAlarm'
    BY <1>9 DEF Link
  <2>5. QED
    BY <2>1, <2>2, <2>3, <2>4
<1>10. ASSUME NEW p \in Callers, Unlink(p)
      PROVE  OwnerInv' /\ SeenInv' /\ CompareInv' /\ NoFalseAlarm'
  BY <1>10 DEF Unlink, End, Cleanup
<1>11. ASSUME NEW p \in Callers, Open(p)
      PROVE  OwnerInv' /\ SeenInv' /\ CompareInv' /\ NoFalseAlarm'
  <2>1. OwnerInv'
    BY <1>11 DEF Open, End, Cleanup, Settled, Single
  <2>2. SeenInv'
    BY <1>11 DEF Open, End, Cleanup, Settled, Single
  <2>3. CompareInv'
    BY <1>11 DEF Open, End, Cleanup, Settled, Single
  <2>4. NoFalseAlarm'
    BY <1>11 DEF Open, End, Cleanup, Settled, Single
  <2>5. QED
    BY <2>1, <2>2, <2>3, <2>4
<1>12. ASSUME NEW p \in Callers, Close(p)
      PROVE  OwnerInv' /\ SeenInv' /\ CompareInv' /\ NoFalseAlarm'
  <2>1. OwnerInv'
    BY <1>12 DEF Close, End, Cleanup, Settled, Single
  <2>2. SeenInv'
    BY <1>12 DEF Close, End, Cleanup, Settled, Single
  <2>3. CompareInv'
    BY <1>12 DEF Close, End, Cleanup, Settled, Single
  <2>4. NoFalseAlarm'
    BY <1>12 DEF Close, End, Cleanup, Settled, Single
  <2>5. QED
    BY <2>1, <2>2, <2>3, <2>4
<1>13. ASSUME NEW p \in Callers, Expire(p)
      PROVE  OwnerInv' /\ SeenInv' /\ CompareInv' /\ NoFalseAlarm'
  BY <1>13 DEF Expire
<1>14. ASSUME NEW p \in Callers, Die(p)
      PROVE  OwnerInv' /\ SeenInv' /\ CompareInv' /\ NoFalseAlarm'
  BY <1>14 DEF Die
<1>15. CASE Remove
  BY <1>15 DEF Remove, Single
<1>16. CASE ForeignLink
  BY <1>16 DEF ForeignLink, Single
<1>17. CASE UNCHANGED vars
  BY <1>17 DEF vars
<1>18. QED
  BY <1>1, <1>2, <1>3, <1>4, <1>5, <1>6, <1>7, <1>8, <1>9, <1>10, <1>11, <1>12, <1>13, <1>14,
     <1>15, <1>16, <1>17 DEF Next, Run, Finished

-----------------------------------------------------------------------------
(* The collector and the publishers. *)

LEMMA LiveStep ==
  ASSUME IInv, [Next]_vars, TypeOK'
  PROVE  LiveInv' /\ PublishersAreUndisturbed'
<1> USE InodesAssumption, CallersAssumption
<1> USE DEF IInv, TypeOK, LiveInv, PublishersAreUndisturbed, Callers, Inodes, Goto, Steps, Outcomes,
            Alarms, fileVars
<1>1. ASSUME NEW p \in Callers, Start(p)
      PROVE  LiveInv' /\ PublishersAreUndisturbed'
  BY <1>1 DEF Start
<1>2. ASSUME NEW p \in Callers, LookToPublish(p)
      PROVE  LiveInv' /\ PublishersAreUndisturbed'
  BY <1>2 DEF LookToPublish
<1>3. ASSUME NEW p \in Callers, LookToRead(p)
      PROVE  LiveInv' /\ PublishersAreUndisturbed'
  <2>1. LiveInv'
    BY <1>3 DEF LookToRead, End, Cleanup
  <2>2. PublishersAreUndisturbed'
    BY <1>3 DEF LookToRead, End, Cleanup, SeenInv
  <2>3. QED
    BY <2>1, <2>2
<1>4. ASSUME NEW p \in Callers, List(p)
      PROVE  LiveInv' /\ PublishersAreUndisturbed'
  BY <1>4 DEF List
<1>5. ASSUME NEW p \in Callers, Restat(p)
      PROVE  LiveInv' /\ PublishersAreUndisturbed'
  <2>1. LiveInv'
    BY <1>5 DEF Restat, End, Cleanup, Single
  <2>2. PublishersAreUndisturbed'
    BY <1>5 DEF Restat, End, Cleanup, Single, SeenInv
  <2>3. QED
    BY <2>1, <2>2
<1>6. ASSUME NEW p \in Callers, Relist(p)
      PROVE  LiveInv' /\ PublishersAreUndisturbed'
  <2>1. LiveInv'
    BY <1>6 DEF Relist, End, Cleanup
  <2>2. PublishersAreUndisturbed'
    BY <1>6 DEF Relist, End, Cleanup, SeenInv
  <2>3. QED
    BY <2>1, <2>2
<1>7. ASSUME NEW p \in Callers, Wait(p)
      PROVE  LiveInv' /\ PublishersAreUndisturbed'
  BY <1>7 DEF Wait, End, Cleanup
<1>8. ASSUME NEW p \in Callers, Write(p)
      PROVE  LiveInv' /\ PublishersAreUndisturbed'
  BY <1>8 DEF Write
<1>9. ASSUME NEW p \in Callers, Link(p)
      PROVE  LiveInv' /\ PublishersAreUndisturbed'
  BY <1>9 DEF Link
<1>10. ASSUME NEW p \in Callers, Unlink(p)
      PROVE  LiveInv' /\ PublishersAreUndisturbed'
  BY <1>10 DEF Unlink, End, Cleanup
<1>11. ASSUME NEW p \in Callers, Open(p)
      PROVE  LiveInv' /\ PublishersAreUndisturbed'
  <2>1. LiveInv'
    BY <1>11 DEF Open, End, Cleanup
  <2>2. PublishersAreUndisturbed'
    BY <1>11 DEF Open, End, Cleanup, SeenInv
  <2>3. QED
    BY <2>1, <2>2
<1>12. ASSUME NEW p \in Callers, Close(p)
      PROVE  LiveInv' /\ PublishersAreUndisturbed'
  <2>1. LiveInv'
    BY <1>12 DEF Close, End, Cleanup, Settled, Single
  <2>2. PublishersAreUndisturbed'
    BY <1>12 DEF Close, End, Cleanup, Settled, Single, SeenInv
  <2>3. QED
    BY <2>1, <2>2
<1>13. ASSUME NEW p \in Callers, Expire(p)
      PROVE  LiveInv' /\ PublishersAreUndisturbed'
  BY <1>13 DEF Expire
<1>14. ASSUME NEW p \in Callers, Die(p)
      PROVE  LiveInv' /\ PublishersAreUndisturbed'
  BY <1>14 DEF Die
<1>15. CASE Remove
  BY <1>15 DEF Remove
<1>16. CASE ForeignLink
  BY <1>16 DEF ForeignLink
<1>17. CASE UNCHANGED vars
  BY <1>17 DEF vars
<1>18. QED
  BY <1>1, <1>2, <1>3, <1>4, <1>5, <1>6, <1>7, <1>8, <1>9, <1>10, <1>11, <1>12, <1>13, <1>14,
     <1>15, <1>16, <1>17 DEF Next, Run, Finished

-----------------------------------------------------------------------------
(* The theorems. *)

LEMMA Inductive == Spec => []IInv
<1>1. Init => IInv
  <2>1. SUFFICES ASSUME Init PROVE IInv
    OBVIOUS
  <2> DEFINE start == /\ target \in {None, Before}
                      /\ \A p \in Callers : pc[p] = "idle" /\ seen[p] = None
                      /\ \A p \in Publishers : phase[p] = "publish"
  <2>0. start
    BY <2>1 DEF Init, Callers
  <2>2. OwnerInv
    BY <2>0, InodesAssumption DEF OwnerInv, Callers, Inodes
  <2>3. SeenInv
    BY <2>0 DEF SeenInv
  <2>4. CompareInv /\ NoFalseAlarm
    BY <2>0 DEF CompareInv, NoFalseAlarm, Alarms
  <2>5. LiveInv /\ PublishersAreUndisturbed
    BY <2>0 DEF LiveInv, PublishersAreUndisturbed, Alarms, Callers
  <2>6. QED
    BY <2>1, <2>2, <2>3, <2>4, <2>5, TypeInit DEF IInv
<1>2. IInv /\ [Next]_vars => IInv'
  BY TypeStep, InvStep, LiveStep DEF IInv
<1>3. QED
  BY <1>1, <1>2, PTL DEF Spec

\* Every variable keeps its type, whoever publishes and reads.
THEOREM TypeCorrect == Spec => []TypeOK
<1>1. IInv => TypeOK
  BY DEF IInv
<1>2. QED
  BY <1>1, Inductive, PTL

\* However many publish and read the name, and wherever they are killed, a file
\* is refused by name only after a foreign link or a removal.
THEOREM RefusalsAreExplained == Spec => []NoFalseAlarm
<1>1. IInv => NoFalseAlarm
  BY DEF IInv
<1>2. QED
  BY <1>1, Inductive, PTL

\* However many publish the name, the collector never takes the file away under
\* one of them: only a foreign link makes a publisher refuse it by name.
THEOREM PublishersUndisturbed == Spec => []PublishersAreUndisturbed
<1>1. IInv => PublishersAreUndisturbed
  BY DEF IInv
<1>2. QED
  BY <1>1, Inductive, PTL

\* immutable_bytes never replaces a file, and what is settled stays settled.
THEOREM NeverReplaced == Spec => WriteOnce
<1> DEFINE Kept == /\ target # None => target' \in {target, None}
                   /\ target # None /\ target \notin tmp => target \notin tmp'
<1>1. IInv /\ [Next]_vars => [Kept]_vars
  <2>1. SUFFICES ASSUME IInv, Next PROVE Kept
    OBVIOUS
  <2> USE DEF IInv, Goto, End, Cleanup, fileVars
  <2>2. ASSUME NEW p \in Callers, Start(p) \/ Expire(p) \/ Die(p)
        PROVE  Kept
    BY <2>2 DEF Start, Expire, Die
  <2>3. ASSUME NEW p \in Callers, Write(p)
        PROVE  Kept
    BY <2>1, <2>3 DEF Write, OwnerInv, RolesInv, Callers
  <2>4. ASSUME NEW p \in Callers, Run(p), ~Write(p)
        PROVE  Kept
    BY <2>4 DEF Run, LookToPublish, LookToRead, List, Restat, Relist, Wait, Link, Unlink, Open, Close
  <2>5. CASE Remove \/ ForeignLink \/ Finished
    BY <2>5 DEF Remove, ForeignLink, Finished, vars
  <2>6. QED
    BY <2>1, <2>2, <2>3, <2>4, <2>5 DEF Next
<1>2. QED
  BY <1>1, Inductive, PTL DEF Spec, WriteOnce

\* What immutable_bytes reports as published is there, holds the payload, and
\* carries no temporary name that could outlive its owner.
THEOREM SuccessIsLasting == Spec => SuccessIsSettled
<1> DEFINE Lasting == \A p \in Publishers :
                        pc[p] # "ok" /\ pc'[p] = "ok" =>
                          /\ target' # None
                          /\ content[target'] = content[p]
                          /\ target' \notin tmp'
<1>1. IInv /\ [Next]_vars => [Lasting]_vars
  <2>1. SUFFICES ASSUME IInv, Next, NEW p \in Publishers, pc[p] # "ok", pc'[p] = "ok"
                 PROVE  target' # None /\ content[target'] = content[p] /\ target' \notin tmp'
    OBVIOUS
  <2>2. pc \in [Callers -> Steps \cup Outcomes] /\ p \in Callers
    BY <2>1 DEF IInv, TypeOK, Callers
  <2>3. PICK q \in Callers : Start(q) \/ Run(q) \/ Expire(q) \/ Die(q)
    BY <2>1 DEF Next, Remove, ForeignLink, Finished, vars
  <2>4. CASE Unlink(q)
    <3>1. q = p
      BY <2>1, <2>2, <2>4 DEF Unlink, End, Goto
    <3>2. QED
      BY <2>1, <2>4, <3>1, InodesAssumption DEF Unlink, End, Cleanup, IInv, OwnerInv, Inodes
  <2>5. CASE Close(q)
    <3>1. q = p
      BY <2>1, <2>2, <2>5 DEF Close, End, Goto
    <3>2. Settled(seen[p]) /\ content[seen[p]] = content[p]
      BY <2>1, <2>2, <2>5, <3>1 DEF Close, End, Goto
    <3>3. seen[p] # None
      BY <2>1, <2>2, <2>5, <3>1 DEF Close, IInv, SeenInv
    <3>4. target' = target /\ tmp' \subseteq tmp
      BY <2>5 DEF Close, End, Cleanup
    <3>5. QED
      BY <3>2, <3>3, <3>4 DEF Settled, Single
  <2>6. ~Unlink(q) /\ ~Close(q) => pc'[p] # "ok"
    BY <2>1, <2>2, <2>3
    DEF Start, Run, Expire, Die, LookToPublish, LookToRead, List, Restat, Relist, Wait, Write, Link,
        Open, End, Goto
  <2>7. QED
    BY <2>1, <2>4, <2>5, <2>6
<1>2. QED
  BY <1>1, Inductive, PTL DEF Spec, SuccessIsSettled
=============================================================================
