----------------------------- MODULE Operations -----------------------------
(***************************************************************************)
(* The vocabulary the ledger and the relay share: how a mutating command   *)
(* is fingerprinted, what receipt it leaves, and what each command asks of *)
(* the lease.                                                              *)
(***************************************************************************)
EXTENDS Naturals

CONSTANTS Writers,   \* who may hold the lease
          OpIds,     \* operation ids the callers choose themselves
          Records,   \* the durable records a patch can name
          Commands,  \* the mutating subcommands in use
          LeaseLen,  \* how long a stamped lease lasts, in ticks
          None       \* absence of a writer, of an argument, of a document

AllCommands == {"resume", "update", "save", "acquire", "compact", "prune", "recover"}

ASSUME CommandsAssumption == Commands \subseteq AllCommands
ASSUME LeaseAssumption == LeaseLen \in Nat \ {0}
ASSUME NoneAssumption == None \notin Writers

\* The inputs _operation_identity hashes; "arg" stands for the patch, or for
\* the revision of the snapshot that recover --snapshot names.  "acquire" is
\* save with the --acquire flag.
Fingerprint == [cmd : Commands, writer : Writers, exp : Nat,
                arg : Records \cup Nat \cup {None}]

\* An omitted --operation-id is derived from the fingerprint itself.
OperationId == OpIds \cup Fingerprint

Receipt == [id : OperationId, hash : Fingerprint, rev : Nat]

\* The commands that may omit --operation-id.
AutoIdentified == {"resume", "update", "save", "acquire"}

Ids(hash) == OpIds \cup (IF hash.cmd \in AutoIdentified THEN {hash} ELSE {})

\* What each command asks of the lease: takers need it free or their own,
\* holders must own it, recover needs it free.
Takers == {"resume", "acquire"}
Holders == {"update", "save", "compact", "prune"}

\* The commands that stamp a new lease; the others release it.
Keepers == {"resume", "update", "prune", "compact"}

\* What a command may name in its input: a patch names a record, a snapshot
\* recovery an earlier revision.
Arguments(cmd, rev) ==
  {None} \cup (IF cmd \in {"update", "save", "acquire", "prune"} THEN Records ELSE {})
         \cup (IF cmd = "recover" THEN 0 .. rev ELSE {})

\* Every fingerprint a caller can present against a document at revision rev:
\* expected revisions above it are refused like any other stale one.
Requests(rev) ==
  {h \in [cmd : Commands, writer : Writers, exp : 0 .. rev,
          arg : Records \cup (0 .. rev) \cup {None}] : h.arg \in Arguments(h.cmd, h.exp)}
=============================================================================
