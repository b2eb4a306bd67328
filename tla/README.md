# project-continuity in TLA+

A verification project for *project-continuity*, the command line tool that keeps the
progress of a long-running project in one authoritative document, `.relay/CURRENT.md`, so
that one agent or person can stop and another can go on. All paths below are relative to
`src/scripts/` unless they say otherwise.

## 1. Inventory

### Shared state

| state | where | written by |
|---|---|---|
| the committed document: front matter (schema, revision, writer, lease, status, Git baseline), managed JSON, derived view, custom region | `.relay/CURRENT.md` | `init`, every mutating command |
| archived documents, one per replaced revision | `.relay/history/r<rev>-<sha256>.md` | every mutating command; `gc` removes |
| content-addressed objects: records, chunks, manifests, index nodes | `.relay/objects/**` | `init`, mutating commands; `gc` removes |
| archived operation receipts, as a chain of content-addressed segments | `.relay/receipts/<sha256>.jsonl` | compaction; never removed |
| the relay lock, an OS lock on a file | `.relay/CURRENT.md.lock` | every writer, `gc --apply` |

There are no long-lived processes: each command is one process that does its work under the
relay lock (writers and `gc --apply`) or without it (`status`, `validate`, `handoff`,
`coverage`, `export`, every preview). Processes meet only in these files.

### Components

* **Transaction core** (`cli_v2.mutate`, `initialize`; `storage.commit`, `atomic`, `locked`).
  Fingerprints the request, takes the lock, reads CURRENT, answers a retry from its receipt,
  compares the expected revision, checks the lease, applies the command, appends the receipt,
  stamps or releases the lease, compacts when needed, publishes objects and segments, archives
  the old document, replaces CURRENT. *Correct when* every accepted operation is applied once,
  on top of the revision it expected, by a writer the lease allows, and an error or a kill at
  any point leaves a committed document that can be resolved.
* **Receipt archive** (`_archive_chain`, `_plan_compaction`, `_plan_candidate`,
  `_store_archive_segments`). Moves the oldest receipts into segments. *Correct when* no
  receipt is lost or doubled, so that a retry is recognised however old it is.
* **Object store and resolver** (`objectstore.py`, `v4.py`). Names every record, index node and
  chunk by its digest; a document holds the digests of its index roots. *Correct when* what a
  committed or retained document refers to is on disk.
* **Garbage collection** (`_plan_gc`, `gc`, `storage.remove`). Removes expired snapshots and
  the objects nothing retained reaches. *Correct when* it never removes an object somebody
  still needs, even if it dies halfway.
* **File publication** (`storage.immutable_bytes`, `_immutable_attempt`, `read_bytes`). Links a
  temporary file to its final name and unlinks the temporary: for a moment the file has two
  links, and readers and competing publishers wait for that window to close.
* **Progress contract** (`progress.py`). Validation of records and references, patches, the
  completion gate, corrections, pruning, the cold archive.
* **Migration** (`mutate` with `migrate`, `migrate_latest`). One schema step per commit, bound
  to the SHA-256 of the document the caller reviewed; `--to-latest` makes the steps one after
  the other. *Correct when* every step starts from approved bytes, no text is lost on the way,
  and nobody else's commit is overwritten.
* **Git baseline** (`git_state.py`, `storage` and `mutate`). A commit records the branch and
  the identity of the worktree. *Correct when* a change of either needs the caller's leave.
* **Pagination** (`v4.py` from line 682, `archive_view`). Cursors bound to one document,
  readable positions, offsets. *Correct when* pages join up and "complete" and "verified" are
  not said of a part.
* **Bundles** (`export_bundle`, `verify_bundle`), **reports** (`status`, `capacity`).

### What is hard

Commands of different processes interleave between their lock sections; time passes inside one
(the clock is read for the lease check and again for the stamp); any command can be killed
between any two file operations; retries of an operation may arrive after its receipt was
archived; readers take no lock while `gc` removes files; people edit CURRENT.md and check out
branches without any lock; a reader's next page comes from another document than the one
before. The list with source lines is `hazards` in `PROJECT.json`.

## 2. Modules

| module | what it is |
|---|---|
| `Operations` | the constants and the vocabulary the others share: commands, fingerprints, operation ids, receipts, what each command asks of the lease |
| `Ledger` | the abstract specification: what the writers of a project are promised |
| `Relay` | the detailed protocol, with the properties and the mutants used to test them |
| `RelayInductive` | the inductive invariant of `Relay`, in the parts the two proof modules take |
| `RelayProofs` | theorems about `Relay`: types, the lock, the store |
| `RelayLedgerProofs` | theorems about `Relay`: receipts, history, readers, leases, and that it implements `Ledger` |
| `Publication` | one content-addressed name at the level of system calls: publishers, lock-free readers, a collector |
| `PublicationProofs` | theorems about `Publication` |
| `Progress` | the progress contract: which documents are valid, what each change does, what the cold archive and a prune take away |
| `ProgressInductive`, `ProgressProofs` | its inductive invariant and theorems |
| `Migration` | migrations and other commits against direct edits, Git and each other |
| `MigrationInductive`, `MigrationProofs` | its inductive invariants and theorems |
| `ObjectIndex` | what `Relay` takes for one index file and its objects: the index tree, chunked records, the listing |
| `ObjectIndexInductive`, `ObjectIndexProofs` | its inductive invariant and theorems |
| `Pages` | coverage and handoff read page by page |
| `PagesInductive`, `PagesProofs` | its inductive invariant and theorems |
| `MCRelay`, `MCPublication`, `MCProgress`, `MCMigration`, `MCObjectIndex`, `MCPages` | instances for TLC |

How they fit together: `Ledger` is what `Relay` implements. `Relay` is the spine; `Publication`
and `ObjectIndex` open up two of its steps (a publication; the files of a document),
`Progress` opens up its documents (the set `data`), `Migration` looks at its commit again with
the world that takes no lock, and `Pages` at the readers of one document after another.

### Ledger

A revision, the set of receipts ever given, the lease and the clock. `Accept` is one atomic
compare-and-swap: the expected revision is the current one, the id is new, the lease permits
the command. There are no processes, files, snapshots or compaction.

### Relay

Variables and the state they stand for: `current` is CURRENT.md, `history` the snapshots,
`files` the names under `objects/` and `receipts/`, `wedged` those that keep a second link
because their publisher died, `lock` the relay lock, `pc`, `txn` and `sweep` the local state of
each command process, `now` the clock, `view` the local state of each reader. A content
address is modelled by the content itself: an object is named by its record, an index by its
set of records, a segment by the chain up to it (its header names its predecessor).

One command is the sequence

    Acquire -> Admit | Initialize | GcPlan | Decline
    Admit -> Stamp -> PublishFile* -> Published -> Snapshot -> Replace
    GcPlan -> RemoveSnapshot* -> RemoveObject* -> GcDone

with `Fail` possible at every step and `FailInWindow` at every publication. `Admit` makes the
checks of `mutate` in one step (they read only what the lock protects, and the clock once);
`Stamp` reads the clock again, appends the receipt, sets the lease and compacts; each
publication, the snapshot and the replacement are steps of their own, since a kill can fall
between them. `commit` reads CURRENT again before the snapshot and before the replacement: these
reads are the guards `current = txn[p].old`.

Abstractions, all of data:

* A document's managed progress is the set of its records (`data`). A patch adds one record,
  `prune` removes one, `recover --snapshot` takes the set of the snapshot.
* Records stand for evidence, corrections, custom Markdown and the acceptance map alike, which
  are planned again by every commit. Objects are published before the index over them.
* The size of a candidate is chosen freely among "below the trigger", "at the trigger" and
  "above the limit"; `--no-auto-compact` acts like "below".
* An auto-derived operation id is the fingerprint it is hashed from.
* `save --acquire` is a command of its own, `acquire`.
* A refusal and a replayed answer are both `Decline`: neither writes. Errors after the checks
  (quota, capacity, I/O) are `Fail`, since what they leave behind is what a kill leaves.
* A publication is one step, link and unlink together, except when the process dies in between.
* A reader without the lock reads a document and then its files in any order: `status` the
  objects, `export` the receipt segments too.

### Publication

`Relay` takes the publication of a file for one step; `Publication` is what the step consists
of. `target` is the inode under the name, `tmp` the inodes that still have their temporary
name, `foreign` those somebody else has linked, `pc`, `phase`, `seen`, `tries` and `late` the
local state of each call of `immutable_bytes` or `read_bytes`. One action is one system call:

    publisher   LookToPublish -> Write -> Link -> Unlink
    reader      LookToRead -> Open -> Close
    both        List -> Restat -> Relist     an extra link was seen (_require_live_window)
                Wait                         sleep and try again, or give up

A publisher that finds a file compares its own payload with it by reading it (`phase` becomes
"read"); the loser of the race for the link does the same. `Die` kills a call anywhere,
`Remove` is the collector, which holds the lock that publishers hold, and `ForeignLink` is a
user with `ln`. Inside the CLI the relay lock serialises publishers; the functions themselves
claim to be safe without it (`storage.py:471-480`), so the model lets calls compete. `tries`
stops at `Attempts` because the code only asks whether that many have been made. Waiting under
a deadline is modelled by `Expire`, which may come at any time.

### Progress

`Relay` treats a document as a set of records; `Progress` is what the records say. It has no
processes: the relay lock makes every change one step, so a state is a committed document.
`doc` is the resolved document: the collections are functions from the ids present to records,
`scopes` is `extensions.blocker_scope`, `current` and `complete` stand for the two project fields
anything depends on. `archive` is the set of archived records, verbatim. `life` and `during` are
history variables: how often a task id was created or reopened, and in which life of its task
a piece of evidence was made. No action reads them but for the bound `MaxLife`.

There is one action per kind of change (`progress.apply` collection by collection, `prune`,
`archive_decisions`, and `Compact` for a write that changes no record). A patch of several records
is covered where it is a sequence of these, each of which leaves a valid document; a patch that is
valid only as a whole is not modelled (`apply` validates once, at the end). A refusal leaves no
trace in this state, so it is an action that is not enabled. All end in `Commit`: the
candidate must be `Valid`, and if its size is at the trigger, which may happen at any write, what
is cold in it is archived in the same commit and the rest must be valid again.

`Valid` has one part per paragraph of `progress.validate`. Both cycle checks, of dependencies
and of supersessions, are stated as what the depth-first search decides: every nonempty set has
a member with no edge into the set. `Cold` is what the loop of `plan_archive` ends with: the largest set of
finished tasks that nothing outside it refers to (`Drop` is one round of the loop). `Annotated` is
what the recursion over corrections of corrections collects: what is in every set that contains the
first and the correction each of its members annotates. Neither is recursive, so that proofs can expand them. A correction is bound to its
target's digest; the model keeps the target itself in `sha`. Left out are corrections of archived
targets, Markdown, the acceptance map and extensions other than the blocker scope.

### Migration

`current` is CURRENT.md, `live` whether its lease is active, `history` the snapshots, `tree` the
Git identity of the worktree, `edits` the direct edits made so far, numbered. A document holds
the numbers of the edits that are in its custom text (`custom`), its derived view (`view`) and
the text moved to objects (`bound`). The clock is reduced to `Lapse`.

    Call -> ReadStep -> Lock -> Admit | Replay | Refuse
    Admit -> Snapshot -> Compare -> Replace       (Changed: CURRENT.md is not what it was)

`migrate --to-latest` goes from `Replace` back to `ReadStep`, the others start at `Lock`. Each of its
steps has an operation id of its own, made of the caller's and the target; a direct `migrate` keeps
the caller's (`StepId`). A caller is taken not to choose the id of a step for another command.
`Abandon` is a kill or an error at any point; `Retry` is the same command line once more. The
editor (`EditText`, `EditView`) replaces the file in one step and takes no lock, `Checkout`
changes the worktree. The checks of `mutate` are `Admissible`, one part each. `Candidate` is
the document a command makes: the view rendered anew and, from schema 5 on, the stub rendered
from the bound text. An edit of the stub is an edit that does not count as text. A document that
is edited in its JSON by hand is not modelled. `calm` and `safe` are history
variables: whether nothing stood in a call's way so far, and whether an edit fell outside the
window between the last comparison and the replacement.

### ObjectIndex

One external collection, the cold archive, because it is the one that grows without being
planned again. `entries` are those of the committed document, `retained` those of the
snapshots, `files` what is on disk, `plan` what the command under way has still to publish,
`listing` what a reader of `archive --offset` has got. A node is a record
with its children in it, which stands for its digest; a record is its number, and `Body` says
into which pieces it falls. A record with one piece is an object; one with several is its
chunks and a manifest, and equal chunks are one file. `Layers` builds the tree level by level as `plan_index`
does. `read_index` walks depth first; `Fronts` says what it meets at each depth, from left to
right, a leaf keeping its place further down, so that the last front has the leaves in the order
of the walk. `Sound` has the checks of a node, `Readable` that none is met twice. `OnlySpineRewritten`
holds because the depth is at most 3: at four levels the depths of kept inner nodes would change
when a level is added, and more than the spine would be written anew.

### Pages

A state is the committed document and, for each reader, what it asked last (`q`), the page it
got, what it has collected (`got`) and the documents that came from (`docs`). A request goes
through the steps of `handoff` and `coverage`: `Accepted` is `check_cursor` and the checks of
the addressed task, `CoveragePage` and `HandoffPage` the answers. A reader follows the opaque
cursor, the readable position `task:offset` or the offset of one list, and may change the page
size on the way. Filtered and concatenated lists are described by the places they take from the
lists they are made of (`Places`, `Pick`), ordered as the code visits them, which needs no
recursion. A task is selected by its id; ids are unique in a valid document. Commits add conditions at any place in the list, add and withdraw evidence and
remove tasks.

Three things the code does that the model shows and no run calls wrong. Coverage without a
cursor returns a first page and no `next_cursor`. The `next_cursor` at the top of a handoff
(`v4.py:964-967`) is always null, since it compares with all rows; the cursors of the tasks
lead on. A filter that names no task is answered "verified" with zero rows.

### Runs

Times are with two workers. `publication`, `receipts`, `collect` and `cold` take up to two and a half minutes, the others one or less.

| run | instance | what it shows |
|---|---|---|
| `receipts` | 2 processes, 2 writers, leases of 1 tick, segments of 2, 1 receipt kept, 4 revisions, every candidate size | `OneReceiptPerRevision`, `CurrentResolvable`, `ImplementsLedger`: compaction loses and repeats nothing, a retry of an archived operation is not applied again, and every commit is one the ledger accepts, although leases lapse between check and commit. |
| `collect` | 2 processes, 2 writers, 1 record, 2 snapshots kept, 4 revisions, prune and recover | `SnapshotsRecoverable`, `RecentHistoryKept`, `HistoryIsLinear` under collections, kills and recoveries; `LeaseRespected`: while a lease is live only its holder commits; `TypeOK` and the inductive invariant `IInv` before they are proved. |
| `liveness` | 2 processes, 1 reader, 1 snapshot kept, kills allowed at every step | `LockIsReleased` under the fairness below. `MissesAreExplained`: `status` or `export` misses a file only if its document was replaced and collected under it. |
| `publication` | 2 publishers, 1 reader, 2 payloads, 2 attempts | `NoFalseAlarm`: publishers alone, even killed ones, make nobody refuse a file by name, so the second look of `_require_live_window` does its job. `PublishersAreUndisturbed`: the collector never takes a file away under a publisher that has found it. `SuccessIsSettled`: what is reported as published cannot be refused later for a temporary name. `WriteOnce`. `Termination`: every call ends, whatever becomes of the window it waits for. |
| `gate` | 1 task of 2 lives, 1 condition, 1 blocker, 1 evidence, 1 correction | `DoneInThisLife`: what makes a task done was recorded since it was created or last reopened, also when its id was pruned or archived and used again. |
| `cold` | 2 tasks, 2 evidence, 1 decision, 1 correction | `WithdrawnForGood`: no archival and no prune separates a revocation from the evidence it withdraws. `NothingVanishes`: evidence, decisions and corrections that leave the document are in the archive verbatim or, but for corrections, belonged to a pruned task. `DecisionIdsAreForever`: one decision per id in document and archive together. `ArchivalRefusalsAreExplained`: moving the cold part leaves the document valid, but for the two cases below. The instance has no blocker, so only the first of them occurs in it; the blocked task is covered by the theorem alone. |
| `migration` | 2 callers of `--to-latest`, one also resumes, from schema 4, 2 branches, 1 edit | `EditsAreKept`, `TextSurvives`: an edit at any moment but the last window is kept, and stays the text. `MigrationsAreApproved`, `DriftIsReviewed`: nothing is migrated or stamped that was not reviewed. `UpgradesAreSmooth`: the chain of steps does not refuse itself. `CommitsUnderWay`: the invariant that the proofs need. |
| `index` | leaves of 2, fan-out 2, 3 levels, up to 9 records in 3 commits, every third in chunks with a shared one | `ReadsBack`: what was planned and published is what is read, at each number of entries and level, and no collection takes a chunk somebody else needs. `OnlySpineRewritten`: an append reuses all other nodes. `ListingJoinsUp`. |
| `pages` | 1 reader, 2 tasks, 3 conditions, pages of 1 and 3, 2 revisions | `TokensStayInOneDocument`, `PagesJoinUp`, `TheEndIsTheEnd`: cursors and offsets neither skip nor repeat within a document, and opaque ones never leave it. `VerifiedMeansCovered`, `CompleteMeansAll`. `WalksEnd`. |
| `leftovers` | 1 process | violation: see findings |
| `scope` | 2 tasks, 1 blocker | violation: see findings |
| `handoff` | as `pages` | violation: see findings |

Bounds. `MaxRev` and `MaxTime` cap the revision and the clock and are guards of `Admit` and
`Tick`. Four revisions are enough to commit, lose a record, collect and recover it with two
snapshots retained, and fill a segment of two with the inline remainder. Two
processes suffice for the safety properties because the lock admits one at a time and what a
dead one leaves is in the files, whoever meets it. `Attempts` is 3
in the code and 2 in the run, enough for a call to wait and look again. Two publishers race for
the link while a third inode, left by an earlier call, may be there already; `RaceInit` starts
with one representative of the ways their contents may agree. Processes, records and ids are
symmetric in `Relay` and `Progress`; the runs with liveness use no symmetry. In `Progress` two lives are enough for evidence of one life to
meet the gate of another. `cold` has no acceptance conditions, so tasks finish there by being
cancelled, which the cold archive and prune do not distinguish from done; `gate` has the
completion gate. `migration` starts at schema 4, where the text moves at the first
step; `MaxRev` 2 lets a call start at revisions 0 and 1, and the steps of a chain run on beyond it. The
other schemas and commands (a direct `migrate`, `recover`, `acquire`, `save`) are in the actions
and covered by the proofs. That documents of schemas 1 to 4 exist in the form of `Init` is an
assumption about older versions of the tool: `init` of this one writes schema 2 or 6 only,
`read_envelope` accepts them all. In `index` an archive has every number
of entries from 2 to 8, where the tree of three levels is full, and a ninth is refused. In `pages` one commit
between two pages is enough for a position to shift, and two page sizes for a change of size.

Fairness. A process that has the lock and can take a step of its command is eventually
scheduled (weak fairness of `Command` and of the removals of a collection). Nothing forces a
user to start a command, a process to fail or the clock to advance. In `Publication` a started
call is scheduled until it ends and its deadline passes (`time.monotonic` advances): weak
fairness of `Run` and of `Expire` for each call. In `Pages` a reader that was led on asks again
(weak fairness of `Follow` and `Stop`); no commit is forced.

### Findings

* `leftovers`: a publisher killed between `os.link` and `temporary.unlink()` leaves an object
  with two links. The path is refused from then on (`fs.child` accepts one link only), so the
  retry of the same operation, and any operation that needs the same object, fails until
  somebody removes the temporary by hand; `gc` counts the file as foreign. `cli_v2.py:2906`
  calls unreachable leftovers harmless. Reproduced against the program by killing an `update`
  between the two calls.
* `scope`: archiving a cancelled task takes along its open blocker even if the blocker's scope
  names a task that stays (`progress.py:1218`, `1228`). That task loses its blocker; if its
  status is blocked, the write is refused. `references/protocol.md:161-162` keeps tasks hot that
  an open blocker names in its scope. Reproduced by calling `plan_archive`.
* `handoff`: a handoff is called complete when nothing follows any of its pages
  (`v4.py:957`), so the last page of a list is complete although what came before its offset is
  not in it. `references/commands.md:181-183` says that `complete=false` whenever any page is
  truncated. Reproduced: two tasks, `--tasks-offset 1` returns the second with
  `complete: true`. A page that starts at the beginning of each list is complete only if it
  has everything (`CompleteMeansAll`).

Besides, `ArchivalRefusalsAreExplained` names a refusal that surprises: archiving a complete
project that has no current task empties its task list, which validation refuses ("project not
complete", `progress.py:989`), so its write at the trigger fails unless automatic compaction is
off. The other is the blocked task of `scope`.

Four more divergences met while modelling, which no run isolates:

* `MissesAreExplained` says when a reader misses a file: `status` reports the store degraded
  (`RELAY_INDEX_INVALID`) while it is intact, when two commits and `gc --apply --keep-history 1`
  run between its read of CURRENT and of the objects. `references/protocol.md:46` calls a
  missing object known corruption. Reproduced against the program.
* A new decision id is compared with the archived ones (`cli_v2.py:597`), a new evidence id is
  not (`progress.py:1037-1040`). `references/protocol.md:309` calls the id immutable. Reproduced
  with `plan_archive` and `apply`.
* `references/commands.md:74-76` says that later steps of `--to-latest` bind to the document the
  previous step committed; they bind to the one just read (`cli_v2.py:3133`), which may be
  another writer's commit. Hence `UpgradesAreSmooth` speaks of undisturbed upgrades only. A
  retry of a chain that got half way is refused, because its first step expects the
  revision the caller saw; a replayed step ends a chain before the latest schema.
* An edit between the last comparison of `commit` and the replacement is lost without a trace.
  `EditsAreKept` excludes this window, which cannot be closed without a lock the editor takes.

## 3. Proofs

Every theorem holds for all values of the constants that satisfy the named assumptions. No
invariant below is inductive by itself; each proof says what connects the steps of an operation.
The inductive invariants were checked with TLC, on the instances of the runs, before they were proved; `IInv` of `Relay` and
`CommitsUnderWay` of `Migration` are checked by runs still.

### Relay

`RelayProofs` has the store: `TypeCorrect`, `LockExclusion`, `StoreInductive` (`[]BaseInv`), and
from it `Resolvable` (`[]CurrentResolvable`) and `Recoverable` (`[]SnapshotsRecoverable`).
`CurrentResolvable` is not inductive: `Replace` makes a document current whose
files were published steps before, and a collection removes files it chose steps before.
`LockInv`: all processes but the lock holder are idle, so nobody disturbs a plan. `OldInv`: the
document a process planned on is still the committed one. `StoreInv`: once publication is over,
everything the candidate needs beyond the inherited segments is on disk (the inherited ones are
those of the committed document), and what a collection has still to remove is needed neither by
the committed document nor by a snapshot that will stay. Steps that only add files share the
lemma `StoreGrows`.

`RelayLedgerProofs` has the rest, on top of `BaseInv`:

* `OneReceipt`. Receipts are numbered without a gap (`Numbered`): the inline ones belong to the
  last revisions, in order, the archived ones are older. Compaction cuts off the oldest and its
  segments hold those and no others (`SegmentsReceipts`, `CompactReceipts`), for any segment size.
  A commit under way has checked that its id is unknown, in a document that is still the committed
  one (`Granted`), and its candidate has one receipt more (`Succeeds`).
* `LinearHistory`, `RecentHistory`. `Replace` has archived the document it replaces; a collection
  expires only what lies `KeepHistory` or more revisions back, so the `KeepHistory - 1` revisions before
  the committed one stay, since a linear history has no more
  snapshots above one than there are revisions (`ExpiredAreOld`, by counting).
* `MissesExplained`. What a reader has still to read belongs to the document it read, whose files
  stay while it is committed or archived; segments stay for good.
* `LeaseIsRespected`. The check of the lease is some steps old when the commit happens. The clock
  may have passed the lease of the old document meanwhile, which can only end leases
  (`LeaseStands`).
* `Refines`: `Spec => ImplementsLedger`. `Replace` over a document is `Accept` of the ledger,
  `Tick` is its clock, `Replace` over nothing is its beginning, all else stutters.

### Publication

`PublicationProofs` proves, for any number of publishers, readers and payloads, `TypeCorrect`,
`RefusalsAreExplained` (`[]NoFalseAlarm`), `PublishersUndisturbed` (`[]PublishersAreUndisturbed`),
`NeverReplaced` (`WriteOnce`) and `SuccessIsLasting` (`SuccessIsSettled`). The types are left to the
proof: no run checks the `TypeOK` of `Publication`. A refusal follows from what the caller
saw some steps earlier, so the invariant says what a caller may rely on. `OwnerInv`: an inode that
is or was under the name belongs to a publisher past its link, so it never regains a temporary
name. `SeenInv`: the inode a caller has looked at is still there unless it was removed, it has
no temporary name once a directory scan found none, and it has a foreign link once the second
look found two links. `LiveInv`: while a publisher is at work the file it has found is the one under
the name, since the collector waits for the lock the publisher holds.

### Progress

`ProgressProofs` has for any ids, conditions and number of lives:

* `Inductive`: every committed document is valid, and `LivesAgree`: evidence is as many lives of
  its task old as it is generations behind. A task that is created starts at generation 0
  (`progress.py:1048`), also when its id was pruned or archived before. That is sound because a
  prune and an archival take all evidence of a task along and evidence of a task that is not there
  is invalid, so none of an earlier life is left in the document; and a reopening adds one to both
  the life and the generation. Hence evidence of the present generation is of the present life:
  `DoneThisLife`.
* `DecisionsForever`, `Withdrawal`, `NothingLost`: what a step takes out of a document
  (`NextCandidate` says it for all actions at once), and what of it is in the archive.
* `ArchivalRefusals`: taking `Moved` out of any valid document leaves each part of the contract
  intact, but for the two named cases. Every kind of reference has its lemma: a dependency, a
  correction's target, a decision's task that stays has what it refers to among what stays,
  because `Cold` is closed (`ColdIsClosed`: the union of closed sets is closed).

### Migration

`MigrationProofs` proves `TypeCorrect`, `CommitsAreSound` (`CommitsUnderWay`), `EditsKept`, `TextKept`
(`TextSurvives`), `ApprovedOnly` (`MigrationsAreApproved`) and `DriftReviewed`, for any number of
processes and edits, any Git identities and every schema from 1 to 4. That edits are kept
depends on what a commit compared some steps ago. `CommitUnderWay` says it for each step: the
document started from differs from the committed one at most by edits (`SameCommit`), since the
lock keeps other commits out; the candidate was made of it after the checks; once its snapshot
is written it stays; and at `Replace` all safe edits are in a snapshot and all safe text in the
document started from, because the comparison just before found it in place and
edits since then are not safe. Then the new document has at least the text of the old one, by the cases of the
schema chain, its receipt names the digest of the old one, which is in the history, and
the identity it stamps is the one it compared.

`Smooth` (`[]UpgradesAreSmooth`) is by a second invariant, `CalmInv`. While nobody interferes, the
step a chain is about to make is admissible in the document there is (`Calm`): the digest
and the revision it is bound to were read from it, its id is new because a recorded migration has a
target the document has reached (`OpsAreDone`), and the worktree is as it was reviewed.

### Pages

`PagesProofs` proves all safety properties of `Pages`, for any documents, page sizes, offsets and
number of readers: `OneDocumentPerToken`, `JoinUp`, `NothingIsMissed`, `Verified`, `Complete`,
`TypeCorrect`. The invariant says that a reader's page is the one its last request gets in one
committed document (`HoldsItsPage`), that what it has collected ends where its next request goes on,
and that as long as its pages came from one document, what it has collected is a window of the
list it follows there (`InOneDocument`; `WindowsJoin` puts two windows together). An opaque cursor
names its document, so its walk stays in one. "Complete" is by counting: as many places returned
as there are, and no others, are all of them (`CompleteCoverage`).

### ObjectIndex

`ObjectIndexProofs` proves all properties of `ObjectIndex`, for any sizes of leaves and branches,
up to three levels, and any records: `Inductive`, `TypeCorrect`, `ReadBack`, `ListingJoins`, `SpineOnly`.

* Groups. Cutting a sequence into groups and joining them again gives the sequence
  (`GroupsJoin`); equal groups are one group (`GroupsDiffer`); a group before the last depends
  on its own elements only (`GroupsAgree`). Joining is a recursive function of the library, so
  `FlattenFacts` first shows that it has values, by induction on numbers stated for a set
  (`AllNumbers`), which needs no operator as a parameter.
* The tree. Each layer has one node for each group of the layer below (`LayersFacts`), the top
  one has one node (`OneRoot`, by what a tree of so many levels holds). Opening a layer of
  branches leads to the layer below (`OpenBranches`), so the walk meets the layers from the top
  (`FrontsAreLayers`): what is read is what was planned, in order (`VisitedFacts`, `ReadFacts`),
  and passes the checks (`SoundFacts`).
* The invariant `IInv`. What a document or a snapshot depends on is on disk; what a plan
  depends on is on disk or still to be published, because an append needs, beside its own new
  records, only records of the committed document (`Payloads`), and a recovery only those of a snapshot.
  Only a recovery plans a document that does not continue the committed one, and then the
  listings under way are told so.
* `SpineOnly`. Two trees over a sequence and its continuation agree in each layer but for the
  last node (`LayersAgree`): with equally many levels from the leaves up, and when a level is
  added, because then only the root had a depth that changes.

### Assumptions

* `Relay`: `None` is no process, no writer and no document; the lease lasts at least a tick; the
  receipt parameters are naturals, segments are not empty and at least one snapshot is kept.
* `Publication`: a caller either publishes or reads, the inode left behind is not one of theirs.
* `Progress`: `None` is no task and no evidence, a task may have at least one life.
* `Migration`: no Git identity is the legacy baseline, the first document has a schema up to
  4, `None` is no process, writer or answer.
* `Pages`: page sizes are positive, 0 is an offset, `None` is no task, cursor or request, the first
  documents are documents (any sequences of tasks, conditions and evidence).
* `ObjectIndex`: leaves have room for one entry and branches for two children, the tree has at most
  three levels, as `MAX_INDEX_DEPTH` says; a record has at least one piece; batches and page sizes
  are positive; `None` is no node.

The bounds `MaxRev`, `MaxTime`, `MaxLife`, `MaxMade` are arbitrary naturals in the proofs.

### Checked by TLC only

* `LockIsReleased`, `Termination`, `WalksEnd`: liveness under fairness is out of the prover's reach.

## 4. Plan

What is left, in this order:

1. That a `Publication` without kills and foreign links is the single step `Relay` takes it for.
2. `Progress`: corrections of archived targets, the acceptance map, extension keys.


## 5. Not modelled

Parsing and rendering of the document, Markdown splitting, the conversion of a v1 document,
secret scanning, report texts, the capacity estimates and validation budgets (arithmetic over
sizes and the clock), the bundle's container and `verify-bundle`, which check a file nobody else
touches, packaging and the migration comparison report (pure functions or output); the capture
of the Git identity (`git_state.py`: subprocesses and hashing, taken for one atomic read); edits of the
managed JSON by hand, and an editor that writes the file in pieces; Windows locking with its ten attempts (an error, hence `Fail`) and
publication on Windows, where no window is recognised; symlink and identity checks of paths; damage done to files from outside.
