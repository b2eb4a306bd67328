----------------------------- MODULE ObjectIndex -----------------------------
(***************************************************************************)
(* The records and the index tree of one external collection, the cold     *)
(* archive, from the plan to the listing: a commit appends records, plans  *)
(* their files and the whole tree and publishes what is not there yet; a   *)
(* recovery goes back to the entries of a snapshot; a collection removes   *)
(* the files nothing retained reaches; archive --offset lists the entries  *)
(* page by page.                                                           *)
(*                                                                         *)
(* Relay takes an index for one file; this module is what it consists of.  *)
(* A file's digest is modelled by the file, so equal chunks of different   *)
(* records are one file.                                                   *)
(***************************************************************************)
EXTENDS Naturals, FiniteSets, SequencesExt

CONSTANTS Leaf,      \* INDEX_LEAF_WRITE_ENTRIES
          Fan,       \* MAX_INDEX_ENTRIES
          MaxDepth,  \* MAX_INDEX_DEPTH
          Batches,   \* how many records a commit may archive at once
          Body,      \* the pieces, of OBJECT_MAX_BYTES each, of the n-th record
          Limits,    \* the page sizes of a listing
          Readers,
          MaxMade,   \* bound on the entries ever made
          MaxRev,    \* bound on commits
          None

ASSUME TreeAssumption == Leaf \in Nat \ {0} /\ Fan \in Nat \ {0, 1} /\ MaxDepth \in 1 .. 3
ASSUME LimitsAssumption == Limits \subseteq Nat \ {0} /\ Batches \subseteq Nat \ {0}
ASSUME BoundsAssumption == MaxMade \in Nat /\ MaxRev \in Nat
ASSUME BodyAssumption ==
  DOMAIN Body = 1 .. MaxMade /\ \A n \in 1 .. MaxMade : Body[n] \in Seq(Nat) \ {<<>>}

\* The files there can be: a tree of at most three levels has leaves, branches
\* of leaves and branches of those.
LeafNodes ==
  {n \in [kind : {"leaf"}, count : 1 .. Leaf, entries : Seq(1 .. MaxMade)] :
     n.count = Len(n.entries)}

BranchNodes(below) ==
  {n \in [kind : {"branch"}, depth : 1 .. MaxDepth - 1, count : Nat \ {0}, children : Seq(below)] :
     Len(n.children) \in 1 .. Fan}

Nodes == LeafNodes \cup BranchNodes(LeafNodes) \cup BranchNodes(BranchNodes(LeafNodes))

File ==
  Nodes \cup [kind : {"object"}, record : 1 .. MaxMade] \cup [kind : {"chunk"}, piece : Nat]
  \cup [kind : {"manifest"}, record : 1 .. MaxMade, chunks : Seq(Nat)]

ASSUME NoneAssumption == None \notin Nodes

VARIABLES entries,   \* the entries of the committed document's archive
          retained,  \* those of the history snapshots, oldest first
          files,     \* the objects, chunks, manifests and index nodes on disk
          plan,      \* the commit under way, or None
          made,      \* how many entries were ever made
          rev,       \* how many commits there were
          listing    \* what each reader has listed so far

vars == <<entries, retained, files, plan, made, rev, listing>>

-----------------------------------------------------------------------------
(* Records: one object if it fits, else its chunks and then their manifest. *)

Chunked(n) == Len(Body[n]) > 1

Object(n) == [kind |-> "object", record |-> n]

Chunk(piece) == [kind |-> "chunk", piece |-> piece]

Manifest(n) == [kind |-> "manifest", record |-> n, chunks |-> Body[n]]

PlanPayload(n) ==
  IF Chunked(n) THEN Append([i \in DOMAIN Body[n] |-> Chunk(Body[n][i])], Manifest(n))
  ELSE <<Object(n)>>

\* read_object: what a reader of the record asks for, one file after the other.
Resolves(n, disk) ==
  IF Chunked(n)
  THEN Manifest(n) \in disk /\ \A i \in DOMAIN Body[n] : Chunk(Body[n][i]) \in disk
  ELSE Object(n) \in disk

-----------------------------------------------------------------------------
(* Planning: leaves of Leaf entries, branches of Fan children, numbered     *)
(* from the root, which has depth 1.                                        *)

\* Mutants of Groups: groups overlap by one; the odd group comes first.
GroupsWide(s, n) ==
  [i \in 1 .. (Len(s) + n - 1) \div n |->
     SubSeq(s, (i - 1) * n + 1, IF i * n < Len(s) THEN i * n + 1 ELSE Len(s))]

GroupsOddFirst(s, n) ==
  LET odd == Len(s) % n
      shift == IF odd = 0 THEN 0 ELSE n - odd
  IN [i \in 1 .. (Len(s) + n - 1) \div n |->
        SubSeq(s, IF i = 1 THEN 1 ELSE (i - 1) * n + 1 - shift, i * n - shift)]

Groups(s, n) ==
  [i \in 1 .. (Len(s) + n - 1) \div n |->
     SubSeq(s, (i - 1) * n + 1, IF i * n < Len(s) THEN i * n ELSE Len(s))]

LeafNode(group) == [kind |-> "leaf", count |-> Len(group), entries |-> group]

Total(children) ==
  LET sum[i \in 0 .. Len(children)] == IF i = 0 THEN 0 ELSE sum[i - 1] + children[i].count
  IN sum[Len(children)]

BranchNode(depth, group) ==
  [kind |-> "branch", depth |-> depth, count |-> Total(group), children |-> group]

Capacity[levels \in 1 .. MaxDepth] ==
  IF levels = 1 THEN Leaf ELSE Fan * Capacity[levels - 1]

Fits(es) == Len(es) <= Capacity[MaxDepth]

Levels(es) == CHOOSE l \in 1 .. MaxDepth :
                /\ Len(es) <= Capacity[l]
                /\ \A k \in 1 .. l - 1 : Len(es) > Capacity[k]

LeafLayer(es) == [i \in DOMAIN Groups(es, Leaf) |-> LeafNode(Groups(es, Leaf)[i])]

BranchLayer(depth, below) ==
  [i \in DOMAIN Groups(below, Fan) |-> BranchNode(depth, Groups(below, Fan)[i])]

\* The nodes of each level, from the leaves up.
Layers(es) ==
  LET top == Levels(es)
      layer[l \in 1 .. top] ==
        IF l = 1 THEN LeafLayer(es) ELSE BranchLayer(top - l + 1, layer[l - 1])
  IN layer

\* plan_index: the nodes in the order they are emitted, and the root.
PlanIndex(es) == IF es = <<>> THEN <<>> ELSE FlattenSeq(Layers(es))

Root(es) == IF es = <<>> THEN None ELSE Layers(es)[Levels(es)][1]

-----------------------------------------------------------------------------
(* Reading: read_index walks the tree from its root, down to MaxDepth.      *)

Opened(n) == IF n.kind = "branch" THEN n.children ELSE <<n>>

Below(front) == FlattenSeq([i \in DOMAIN front |-> Opened(front[i])])

\* What the walk meets at each depth, from left to right; a leaf stays in its
\* place further down, so the last front has the leaves in the order of the walk.
Fronts(root) ==
  LET front[d \in 1 .. MaxDepth] == IF d = 1 THEN <<root>> ELSE Below(front[d - 1])
  IN front

Visited(root) == UNION {Range(Fronts(root)[d]) : d \in 1 .. MaxDepth}

Sound(root) ==
  \A d \in 1 .. MaxDepth : \A n \in Range(Fronts(root)[d]) :
    /\ n.kind = "leaf" => n.count = Len(n.entries)
    /\ n.kind = "branch" =>
         /\ n.depth = d /\ d < MaxDepth
         /\ n.count = Total(n.children) /\ Len(n.children) \in 1 .. Fan
         /\ \A i \in DOMAIN n.children : n.children[i].count > 0

\* Every node visited is on disk, in its place and visited once: a leaf met at
\* two depths is twice in the last front, a branch is wrong at one of them.
Readable(root, disk) ==
  root # None =>
    /\ Visited(root) \subseteq disk
    /\ Sound(root)
    /\ \A d \in 1 .. MaxDepth : IsInjective(Fronts(root)[d])

ReadIndex(root) ==
  IF root = None THEN <<>>
  ELSE LET leaves == Fronts(root)[MaxDepth]
       IN FlattenSeq([i \in DOMAIN leaves |-> leaves[i].entries])

\* Mutant of IndexPaths: a manifest stands for its chunks.
IndexPathsNoChunks(es) ==
  IF es = <<>> THEN {}
  ELSE Visited(Root(es))
         \cup {IF Chunked(n) THEN Manifest(n) ELSE Object(n) : n \in Range(es)}

\* index_paths: what a document with these entries depends on.
IndexPaths(es) ==
  IF es = <<>> THEN {}
  ELSE Visited(Root(es)) \cup UNION {Range(PlanPayload(n)) : n \in Range(es)}

-----------------------------------------------------------------------------
(* Commits.  One at a time, under the relay lock; a kill leaves the files   *)
(* published so far.  The files of new records come before the index.       *)

Prepare(es, new, recovers) ==
  /\ plan = None /\ rev < MaxRev
  /\ Fits(es)
  /\ plan' = [entries |-> es,
              left |-> FlattenSeq([i \in DOMAIN new |-> PlanPayload(new[i])]) \o PlanIndex(es),
              recovers |-> recovers]
  /\ UNCHANGED <<entries, retained, files, rev, listing>>

New(n) == [i \in 1 .. n |-> made + i]

\* Mutant of Archive: new entries come first.
ArchiveInFront(n) ==
  /\ made + n <= MaxMade
  /\ Prepare(New(n) \o ReadIndex(Root(entries)), New(n), FALSE)
  /\ made' = made + n

\* plan_full reads the entries that are there and appends the new ones.
Archive(n) ==
  /\ made + n <= MaxMade
  /\ Prepare(ReadIndex(Root(entries)) \o New(n), New(n), FALSE)
  /\ made' = made + n

Recover ==
  /\ \E i \in DOMAIN retained : Prepare(ReadIndex(Root(retained[i])), <<>>, TRUE)
  /\ UNCHANGED made

Publish ==
  /\ plan # None /\ plan.left # <<>>
  /\ files' = files \cup {Head(plan.left)}
  /\ plan' = [plan EXCEPT !.left = Tail(@)]
  /\ UNCHANGED <<entries, retained, made, rev, listing>>

\* A recovery may take entries back that a reader has listed.
Commit ==
  /\ plan # None /\ plan.left = <<>>
  /\ retained' = Append(retained, entries)
  /\ entries' = plan.entries
  /\ plan' = None
  /\ rev' = rev + 1
  /\ listing' = [r \in Readers |->
                   IF listing[r] = None THEN None
                   ELSE [listing[r] EXCEPT !.taken = @ \/ plan.recovers]]
  /\ UNCHANGED <<files, made>>

Kill ==
  /\ plan # None
  /\ plan' = None
  /\ UNCHANGED <<entries, retained, files, made, rev, listing>>

\* gc --keep-history k: the k newest snapshots stay, and what they and the
\* committed document reach.
Collect ==
  /\ plan = None
  /\ \E k \in 1 .. Len(retained) :
       LET kept == SubSeq(retained, Len(retained) - k + 1, Len(retained))
       IN /\ retained' = kept
          /\ files' = files \cap UNION {IndexPaths(es) : es \in Range(kept) \cup {entries}}
  /\ UNCHANGED <<entries, plan, made, rev, listing>>

-----------------------------------------------------------------------------
(* archive --limit --offset.                                                *)

PageOf(es, offset, limit) ==
  SubSeq(es, offset + 1, IF offset + limit < Len(es) THEN offset + limit ELSE Len(es))

Listed(r, got, limit) ==
  LET es == ReadIndex(Root(entries))
      page == PageOf(es, Len(got), limit)
  IN [got |-> got \o page, more |-> Len(got) + Len(page) < Len(es), taken |-> FALSE]

List(r) ==
  /\ listing[r] = None
  /\ \E limit \in Limits : listing' = [listing EXCEPT ![r] = Listed(r, <<>>, limit)]
  /\ UNCHANGED <<entries, retained, files, plan, made, rev>>

ListOn(r) ==
  /\ listing[r] # None /\ listing[r].more /\ ~listing[r].taken
  /\ \E limit \in Limits :
       listing' = [listing EXCEPT ![r] = Listed(r, listing[r].got, limit)]
  /\ UNCHANGED <<entries, retained, files, plan, made, rev>>

Stop(r) ==
  /\ listing[r] # None /\ (~listing[r].more \/ listing[r].taken)
  /\ listing' = [listing EXCEPT ![r] = None]
  /\ UNCHANGED <<entries, retained, files, plan, made, rev>>

Init ==
  /\ entries = <<>> /\ retained = <<>> /\ files = {} /\ plan = None
  /\ made = 0 /\ rev = 0
  /\ listing = [r \in Readers |-> None]

Next ==
  \/ \E n \in Batches : Archive(n)
  \/ Recover \/ Publish \/ Commit \/ Kill \/ Collect
  \/ \E r \in Readers : List(r) \/ ListOn(r) \/ Stop(r)

Spec == Init /\ [][Next]_vars

-----------------------------------------------------------------------------
(* Properties. *)

TypeOK ==
  /\ entries \in Seq(1 .. MaxMade) /\ retained \in Seq(Seq(1 .. MaxMade))
  /\ made \in 0 .. MaxMade /\ rev \in 0 .. MaxRev
  /\ files \subseteq File

\* What a commit has planned and published is read back entry by entry, at
\* every number of entries the tree can hold, and stays so for the committed
\* document and every retained snapshot, whatever was killed or collected; and
\* each of their records can be read whole, although only new records are
\* published and a chunk may be shared with a record that was collected.
ReadsBack ==
  \A es \in Range(retained) \cup {entries} :
    /\ Readable(Root(es), files) /\ ReadIndex(Root(es)) = es
    /\ \A n \in Range(es) : Resolves(n, files)

\* The nodes on the way to the last entry.
Spine(root) == {Last(Fronts(root)[d]) : d \in 1 .. MaxDepth}

\* "Append-only: only the last leaf and its ancestors are rewritten": an append
\* reuses every other node, also when it adds a level to the tree.
OnlySpineRewritten ==
  [][entries # <<>> /\ entries' # entries /\ IsPrefix(entries, entries')
     => IndexPaths(entries) \ IndexPaths(entries') \subseteq Spine(Root(entries))]_vars

\* A listing by offset has no gap and no repetition although the archive grows
\* between its pages, unless a recovery went back to older entries.
ListingJoinsUp ==
  \A r \in Readers :
    listing[r] # None /\ ~listing[r].taken => IsPrefix(listing[r].got, entries)
=============================================================================
