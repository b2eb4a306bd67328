---------------------------- MODULE PagesInductive ----------------------------
(***************************************************************************)
(* The inductive invariant of Pages: the page a reader holds is what its   *)
(* last request gets in one committed document, and what it has collected  *)
(* ends where its next request would go on.                                *)
(***************************************************************************)
EXTENDS Pages

RowType == [task : Tasks, cond : Conds, covered : BOOLEAN, nested : Nat]
EvidenceType == [task : Tasks, cond : Conds, effective : BOOLEAN]

\* What the lists that a walk follows are made of.
Item == Tasks \cup RowType \cup EvidenceType

WalkType(w) ==
  /\ DOMAIN w = {"q", "follow", "task", "page", "from", "got", "docs"}
  /\ w.q \in Requests /\ w.follow \in Follows /\ w.task \in Tasks \cup {None}
  /\ w.follow \in ListNames <=> w.task = None
  /\ w.follow \in ListNames => w.q.view = "handoff"
  /\ w.page.doc \in Documents /\ w.from \in Nat /\ w.got \in Seq(Item)

HoldsItsPage(w) ==
  /\ w.page = Page(w.page.doc, w.q) /\ Accepted(w.page.doc, w.q)
  /\ w.page.doc \in w.docs /\ w.from + Len(w.got) = NextOffset(w)

InOneDocument(w) ==
  /\ w.follow = "opaque" => w.docs = {w.page.doc}
  /\ w.docs = {w.page.doc} => w.got = Window(Whole(w, w.page.doc), w.from, Len(w.got))

IInv ==
  /\ doc \in Documents
  /\ DOMAIN walk = Readers
  /\ \A w \in Walks : WalkType(w) /\ HoldsItsPage(w) /\ InOneDocument(w)
=============================================================================
