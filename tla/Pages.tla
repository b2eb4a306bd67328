-------------------------------- MODULE Pages --------------------------------
(***************************************************************************)
(* Reading coverage and handoff page by page while commits replace the     *)
(* document.  Every request reads the document anew.  A reader goes on     *)
(* with the opaque cursor of its last page, with a readable task:offset    *)
(* position, or with the offset of one of a handoff's lists.               *)
(***************************************************************************)
EXTENDS Naturals, FiniteSets, Sequences, Functions

CONSTANTS Tasks, Conds,  \* task ids and acceptance conditions
          Readers,       \* the processes that read
          First,         \* the documents to begin with
          Limits,        \* the page sizes a reader may ask for
          Offsets,       \* the offsets it may start at
          MaxRev,        \* bound on revisions
          None

Documents ==
  [rev : 1 .. MaxRev, tasks : Seq(Tasks), acceptance : [Tasks -> Seq(Conds)],
   evidence : Seq([task : Tasks, cond : Conds, effective : BOOLEAN])]

ListNames == {"tasks", "uncovered", "evidence"}

Cursors ==
  [kind : {"readable"}, task : Tasks, offset : Nat]
  \cup [kind : {"opaque"}, task : Tasks, offset : Nat,
         identity : [doc : Documents, task : Tasks \cup {None}]]

Requests ==
  [view : {"coverage", "handoff"}, task : Tasks \cup {None}, limit : Nat \ {0},
   cursor : Cursors \cup {None}, offsets : [ListNames -> Nat]]

ASSUME LimitsAssumption == Limits \subseteq Nat \ {0}
ASSUME OffsetsAssumption == 0 \in Offsets /\ Offsets \subseteq Nat
ASSUME NoneAssumption == None \notin Tasks \cup Cursors \cup Requests
ASSUME MaxRevAssumption == MaxRev \in Nat
ASSUME FirstAssumption == \A d \in First : d \in Documents

VARIABLES doc,   \* the committed document
          walk   \* what each reader has asked for and got so far

vars == <<doc, walk>>

-----------------------------------------------------------------------------
(* Lists made of lists: what is at some places <<i, j>>, item j of list i,  *)
(* in the order of the lists.                                              *)

Places(lists) == UNION {{i} \X DOMAIN lists[i] : i \in DOMAIN lists}

Upto(p, P) == {q \in P : q[1] < p[1] \/ (q[1] = p[1] /\ q[2] <= p[2])}

Nth(P, k) == CHOOSE p \in P : Cardinality(Upto(p, P)) = k

Pick(lists, P) ==
  [k \in 1 .. Cardinality(P) |-> LET p == Nth(P, k) IN lists[p[1]][p[2]]]

\* Some of the items of one list.
Those(s, I) == Pick(<<s>>, {1} \X I)

\* The length of all lists together.
Total(lists) == Cardinality(Places(lists))

-----------------------------------------------------------------------------
(* What a document shows.  A task's rows are its acceptance conditions; an *)
(* evidence record is about one of them and effective until withdrawn.     *)

About(d, t, c) == {i \in DOMAIN d.evidence : d.evidence[i].task = t /\ d.evidence[i].cond = c}

Row(d, t, c) ==
  [task |-> t, cond |-> c,
   covered |-> \E i \in About(d, t, c) : d.evidence[i].effective,
   nested |-> Cardinality(About(d, t, c))]

Rows(d, t) == [i \in DOMAIN d.acceptance[t] |-> Row(d, t, d.acceptance[t][i])]

\* The tasks a filter selects, by their id; no filter selects them all.
Selected(d, task) ==
  IF task = None THEN d.tasks ELSE IF task \in Range(d.tasks) THEN <<task>> ELSE <<>>

\* All rows of the tasks selected, task after task.
AllRows(d, task) ==
  LET ts == Selected(d, task) IN [i \in DOMAIN ts |-> Rows(d, ts[i])]

Uncovered(rows) == {p \in Places(rows) : ~rows[p[1]][p[2]].covered}

\* The lists of a handoff that have an offset of their own.
List(d, task, l) ==
  CASE l = "tasks" -> Selected(d, task)
    [] l = "uncovered" -> Pick(AllRows(d, task), Uncovered(AllRows(d, task)))
    [] l = "evidence" ->
         Those(d.evidence, {i \in DOMAIN d.evidence : task \in {d.evidence[i].task, None}})

Window(s, offset, limit) ==
  SubSeq(s, offset + 1, IF offset + limit < Len(s) THEN offset + limit ELSE Len(s))

-----------------------------------------------------------------------------
(* Cursors. *)

\* Revision, content hash, schema and task filter; the document stands for
\* the first three.
Identity(d, task) == [doc |-> d, task |-> task]

Token(d, t, offset) ==
  [kind |-> "opaque", task |-> t, offset |-> offset, identity |-> Identity(d, t)]

Position(t, offset) == [kind |-> "readable", task |-> t, offset |-> offset]

IsToken(cursor) == cursor # None /\ cursor.kind = "opaque"

\* A readable position fixes the filter of a handoff; coverage wants --task.
BaseFilter(q) ==
  IF q.view = "handoff" /\ q.task = None /\ q.cursor # None /\ ~IsToken(q.cursor)
  THEN q.cursor.task ELSE q.task

\* Mutant of CursorFits: a token is compared by its task only.
CursorFitsTask(d, q) == q.cursor.task = BaseFilter(q)

\* check_cursor: an opaque token is bound to the identity it was minted for, a
\* readable position only to the filter.
CursorFits(d, q) ==
  IF IsToken(q.cursor)
  THEN q.cursor.identity = Identity(d, BaseFilter(q))
  ELSE q.cursor.task = BaseFilter(q)

Accepted(d, q) ==
  q.cursor # None =>
    CursorFits(d, q) /\ q.cursor.task \in Range(Selected(d, q.cursor.task))

Addressed(q) == IF q.cursor = None THEN q.task ELSE q.cursor.task

Start(q) == IF q.cursor = None THEN 0 ELSE q.cursor.offset

-----------------------------------------------------------------------------
(* The pages.  rows has the rows returned of each task, next the tokens     *)
(* that lead on, lists the windows of a handoff's lists.                    *)

Returned(d, q) ==
  [t \in Tasks |-> IF t \in Range(Selected(d, Addressed(q)))
                   THEN Window(Rows(d, t), Start(q), q.limit) ELSE <<>>]

\* Mutants of NextToken: the offset forgets where the page began, the last row
\* is taken for the end, or the end is taken for a row.
NextTokenOfPage(d, q, t) ==
  LET end == Len(Returned(d, q)[t])
  IN IF end < Len(Rows(d, t)) THEN Token(d, t, end) ELSE None

NextTokenEarly(d, q, t) ==
  LET end == Start(q) + Len(Returned(d, q)[t])
  IN IF end + 1 < Len(Rows(d, t)) THEN Token(d, t, end) ELSE None

NextTokenLate(d, q, t) ==
  LET end == Start(q) + Len(Returned(d, q)[t])
  IN IF end <= Len(Rows(d, t)) THEN Token(d, t, end) ELSE None

\* Where the rows after those returned begin, if there are any.
NextToken(d, q, t) ==
  LET end == Start(q) + Len(Returned(d, q)[t])
  IN IF end < Len(Rows(d, t)) THEN Token(d, t, end) ELSE None

HasMore(offset, limit, total) == offset + limit < total

\* Mutant of CoverageComplete: nothing follows the page.
CoverageCompleteHere(d, q, rows) ==
  ~HasMore(Start(q), q.limit, Total(AllRows(d, Addressed(q))))

CoverageComplete(d, q, rows) ==
  /\ Start(q) = 0
  /\ Total(rows) = Total(AllRows(d, Addressed(q)))
  /\ \A p \in Places(rows) : rows[p[1]][p[2]].nested <= q.limit

Covered(rows) == \A p \in Places(rows) : rows[p[1]][p[2]].covered

\* coverage judges the rows it returns and mints a token only when one task is
\* addressed by a cursor.
CoveragePage(d, q) ==
  LET shown == Selected(d, Addressed(q))
      rows == [i \in DOMAIN shown |-> Returned(d, q)[shown[i]]]
      complete == CoverageComplete(d, q, rows)
  IN [doc |-> d, rows |-> Returned(d, q), lists |-> [l \in {} |-> <<>>],
      next |-> [t \in Tasks |-> IF t = Addressed(q) /\ q.cursor # None
                                THEN NextToken(d, q, t) ELSE None],
      complete |-> complete, verified |-> complete /\ Covered(rows)]

ListWindow(d, q, l) == Window(List(d, Addressed(q), l), q.offsets[l], q.limit)

\* Mutant of HandoffComplete: the acceptance page is not asked.
HandoffCompleteLists(d, q) ==
  \A l \in ListNames :
    ~HasMore(q.offsets[l], q.limit, Len(List(d, Addressed(q), l)))

HandoffComplete(d, q) ==
  /\ \A l \in ListNames :
       ~HasMore(q.offsets[l], q.limit, Len(List(d, Addressed(q), l)))
  /\ ~HasMore(Start(q), q.limit, Total(AllRows(d, Addressed(q))))

\* handoff judges all rows selected and returns the tasks of one window, each
\* with a window of its rows.
HandoffPage(d, q) ==
  LET shown == Range(ListWindow(d, q, "tasks"))
      complete == HandoffComplete(d, q)
  IN [doc |-> d,
      rows |-> [t \in Tasks |-> IF t \in shown THEN Returned(d, q)[t] ELSE <<>>],
      lists |-> [l \in ListNames |-> ListWindow(d, q, l)],
      next |-> [t \in Tasks |-> IF t \in shown THEN NextToken(d, q, t) ELSE None],
      complete |-> complete,
      verified |-> complete /\ Covered(AllRows(d, Addressed(q)))]

Page(d, q) == IF q.view = "coverage" THEN CoveragePage(d, q) ELSE HandoffPage(d, q)
-----------------------------------------------------------------------------
(* Commits.  What they do to the lists is all that matters here: acceptance *)
(* conditions are never removed but may be listed in another order, a task *)
(* leaves by prune or archival with its evidence.                           *)

Write(d) == doc.rev < MaxRev /\ doc' = [d EXCEPT !.rev = doc.rev + 1] /\ UNCHANGED walk

AddCondition ==
  \E t \in Range(doc.tasks), c \in Conds :
    \E i \in 0 .. Len(doc.acceptance[t]) :
      /\ c \notin Range(doc.acceptance[t])
      /\ Write([doc EXCEPT !.acceptance[t] =
                  SubSeq(@, 1, i) \o <<c>> \o SubSeq(@, i + 1, Len(@))])

AddEvidence ==
  \E t \in Range(doc.tasks) : \E c \in Range(doc.acceptance[t]) :
    Write([doc EXCEPT !.evidence =
             Append(@, [task |-> t, cond |-> c, effective |-> TRUE])])

Withdraw ==
  \E i \in DOMAIN doc.evidence :
    doc.evidence[i].effective /\ Write([doc EXCEPT !.evidence[i].effective = FALSE])

RemoveTask ==
  \E t \in Range(doc.tasks) :
    Write([doc EXCEPT !.tasks = Those(@, {i \in DOMAIN @ : @[i] # t}),
                      !.acceptance[t] = <<>>,
                      !.evidence = Those(@, {i \in DOMAIN @ : @[i].task # t})])

-----------------------------------------------------------------------------
(* Readers.                                                                 *)

Follows == {"opaque", "readable"} \cup ListNames

\* What a walk collects from a page, and what it would collect in the end.
Items(w, page) == IF w.follow \in ListNames THEN page.lists[w.follow] ELSE page.rows[w.task]

Whole(w, d) ==
  IF w.follow \in ListNames THEN List(d, Addressed(w.q), w.follow) ELSE Rows(d, w.task)

Begin(w) == IF w.follow \in ListNames THEN w.q.offsets[w.follow] ELSE Start(w.q)

Openings ==
  [view : {"coverage", "handoff"}, task : Tasks \cup {None}, limit : Limits,
   cursor : {Position(t, o) : t \in Tasks, o \in Offsets} \cup {None},
   offsets : {[l \in ListNames |-> IF l = m THEN o ELSE 0] : m \in ListNames, o \in Offsets}]

Ask(r) ==
  /\ walk[r] = None
  /\ \E q \in Openings, follow \in Follows, t \in Tasks \cup {None} :
       /\ Accepted(doc, q)
       /\ q.view = "coverage" \/ q.cursor # None => \A l \in ListNames : q.offsets[l] = 0
       /\ follow \in ListNames => q.view = "handoff"
       /\ follow \in ListNames <=> t = None
       /\ LET w == [q |-> q, follow |-> follow, task |-> t]
          IN walk' = [walk EXCEPT ![r] =
                        [q |-> q, follow |-> follow, task |-> t, page |-> Page(doc, q),
                         from |-> Begin(w), got |-> Items(w, Page(doc, q)), docs |-> {doc}]]
  /\ UNCHANGED doc

\* Where the next page begins, by next_offset.
NextOffset(w) == Begin(w) + Len(Items(w, w.page))

\* The request the last page leads to, or None at its end.
NextRequest(w) ==
  CASE w.follow \in ListNames ->
         IF NextOffset(w) < Len(Whole(w, w.page.doc))
         THEN [w.q EXCEPT !.offsets[w.follow] = NextOffset(w)] ELSE None
    [] w.follow = "readable" ->
         IF w.page.next[w.task] # None
         THEN [w.q EXCEPT !.task = w.task, !.cursor = Position(w.task, NextOffset(w))] ELSE None
    [] w.follow = "opaque" ->
         IF w.page.next[w.task] # None
         THEN [w.q EXCEPT !.task = w.task, !.cursor = w.page.next[w.task]] ELSE None

\* RELAY_PAGE_CURSOR_STALE, or a position whose task is gone, ends the walk.
Follow(r) ==
  /\ walk[r] # None
  /\ NextRequest(walk[r]) # None
  /\ \E q \in {[NextRequest(walk[r]) EXCEPT !.limit = limit] : limit \in Limits} :
       \E page \in {Page(doc, q)} :
         walk' = [walk EXCEPT ![r] =
                    IF Accepted(doc, q)
                    THEN [walk[r] EXCEPT !.q = q, !.page = page, !.docs = @ \cup {doc},
                                         !.got = @ \o Items(walk[r], page)]
                    ELSE None]
  /\ UNCHANGED doc

Stop(r) ==
  /\ walk[r] # None
  /\ NextRequest(walk[r]) = None
  /\ walk' = [walk EXCEPT ![r] = None]
  /\ UNCHANGED doc

Init == doc \in First /\ walk = [r \in Readers |-> None]

Commit == AddCondition \/ AddEvidence \/ Withdraw \/ RemoveTask

Next == Commit \/ \E r \in Readers : Ask(r) \/ Follow(r) \/ Stop(r)

Spec == Init /\ [][Next]_vars

\* A reader goes on as long as there is another page; nothing else is forced.
FairSpec == Spec /\ \A r \in Readers : WF_vars(Follow(r) \/ Stop(r))

-----------------------------------------------------------------------------
(* Properties. *)

Walks == {walk[r] : r \in Readers} \ {None}

TypeOK ==
  /\ doc \in Documents
  /\ \A w \in Walks :
       /\ w.follow \in Follows /\ w.task \in Tasks \cup {None} /\ w.from \in Nat
       /\ w.page.doc \in w.docs
       /\ \A t \in Tasks :
            w.page.next[t] # None => w.page.next[t].offset < Len(Rows(w.page.doc, t))
       /\ w.page.verified => w.page.complete

\* Opaque cursors never lead from one document into another, whatever is
\* committed between two pages.
TokensStayInOneDocument ==
  \A w \in Walks : w.follow = "opaque" => w.docs = {w.page.doc}

\* Pages of one document, put together in the order the cursors or offsets
\* lead, have no gap and no repetition, whatever page sizes were asked for.
PagesJoinUp ==
  \A w \in Walks :
    w.docs = {w.page.doc} => w.got = Window(Whole(w, w.page.doc), w.from, Len(w.got))

\* A reader of one document that is led no further has got everything from
\* where it began; only coverage asked without a cursor leads nowhere.
TheEndIsTheEnd ==
  \A w \in Walks :
    /\ w.docs = {w.page.doc} /\ NextRequest(w) = None
    /\ w.follow \notin ListNames =>
         IF w.q.view = "coverage" THEN w.q.cursor # None /\ w.task = Addressed(w.q)
         ELSE w.task \in Range(w.page.lists["tasks"])
    => w.from + Len(w.got) >= Len(Whole(w, w.page.doc))

\* A page that says "verified" speaks for every acceptance condition of the
\* scope it was asked for, never for those of a truncated page alone.
VerifiedMeansCovered ==
  \A w \in Walks : w.page.verified => Covered(AllRows(w.page.doc, Addressed(w.q)))

EverythingShown(w) ==
  /\ \A t \in Range(Selected(w.page.doc, Addressed(w.q))) :
       /\ w.page.rows[t] = Rows(w.page.doc, t)
       /\ \A i \in DOMAIN w.page.rows[t] : w.page.rows[t][i].nested <= w.q.limit
  /\ \A l \in DOMAIN w.page.lists : w.page.lists[l] = List(w.page.doc, Addressed(w.q), l)

FromTheStart(q) == Start(q) = 0 /\ \A l \in ListNames : q.offsets[l] = 0

\* A complete coverage page, and a complete handoff that starts at the
\* beginning of every list, return everything, nested lists included.
CompleteMeansAll ==
  \A w \in Walks :
    w.page.complete /\ (w.q.view = "handoff" => FromTheStart(w.q)) => EverythingShown(w)

\* "complete=false whenever any page is truncated, so a truncated read can
\* never look like a successful handoff."
TruncatedIsIncomplete == \A w \in Walks : w.page.complete => EverythingShown(w)

\* Following cursors comes to an end, also while the document changes.
WalksEnd == \A r \in Readers : walk[r] # None ~> walk[r] = None
=============================================================================
