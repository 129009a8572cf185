# Compaction, verified: TLA+ models, runs and proofs

Compaction is a document database in TypeScript: block files behind a write-ahead
log, B+ trees and secondary indexes on them, online compaction, a query language,
an HTTP daemon, and a Raft implementation that replicates the daemon's commands.
This directory models the parts whose correctness rests on the order of steps:
several nodes, several promises, a crash between two file operations. TLC checks the
models on small instances; TLAPS proves the theorems for every value of the
constants. `PROJECT.json` maps each definition to the source lines it stands for, and
lists runs, mutants, findings, hazards and theorems.

    tlc -workers 2 -config raft_elections.cfg MCRaft.tla
    tlapm RaftProofs.tla

Source paths below are relative to `src/packages/` unless they start with `apps/`.

## 1. Inventory

| Component | State | Operations | What makes it correct | Module |
|---|---|---|---|---|
| `raft-core/src/core/StateMachine.ts` | role, leader, votes, pre-votes, snapshot session | election timeout, the RPC handlers and response handlers, `sendAppendEntries`, `sendSnapshot` | one leader per term; votes final; leaders hold what is committed | Raft |
| `core/RaftNode.ts` | started, apply loop, commit waiters | `start`, `stop`, `submitCommand`, `addServer`..., `applyCommittedEntries`, `takeSnapshot` | same commands, same order, also over a restart | Raft, Membership, Timers |
| `log/LogManager.ts`, `state/*.ts` | entries, snapshot index and term, cached tail; term and vote; commit index, next and match index | append, reconcile with a leader's entries, truncate, compact, reset; calculate the commit index | logs match; what is committed stays | RaftLog |
| `storage/disk/*.ts` | the log file and its offsets; three small files | append, truncate, compact, reset, recover; replace | what was acknowledged is read back | DiskLog, ReplacedFile |
| `lock/AsyncLock.ts` | flag, queue | `acquire`, `release`, `runExclusive` | one holder, FIFO, no lost wake-up | AsyncLock |
| `config/*.ts` | active and committed configuration | apply, commit, restore, quorum | at most one change in flight | Membership |
| `timing/TimerManager.ts` | election and heartbeat timers | start, reset, stop | every voter has a timer; no timer outlives its role | Timers |
| `rpc/RPCHandler.ts`, `raft-grpc/src/GRPCTransport.ts` | server, clients, calls in flight | start, stop, add and remove peers, call | a leader reaches its followers; no call in progress meets closed storage | Transport, Raft |
| `dbms/durability/atomic-operations/` | journal, transaction flag | `begin`, `journalWrite`, `commitDataToWal`, `checkpoint`, `recover`, `safeShutdown` | a transaction is whole or absent, whatever crashes | AtomicFile |
| `dbms/storage/freeblockfile.mts` | staged writes, free list, header | allocate, write, overwrite, free, `commit` | no block is both free and used | FreeBlockFile |
| `dbms/storage/node-storage/`, `dbms/indexes/b-plus-tree.mts` | nodes in memory and in blocks | load, persist, reclaim; search, insert, delete, scan | a sorted map, also after a restart | NodeStorage, BPlusTree |
| `dbms/core/simpledbms.mts` | collections, catalog, two block files | open, insert, update, delete, find, index | index and documents agree | Collection, BulkLoad |
| `dbms/big-data-import/` | batches, chunk files | collect, spill, merge | every entry, once, in order | IndexImport |
| `dbms/durability/compaction/` and the swap in `apps/api-server/simpledbmsd.mts` | temporary files, marker | shrink, swap, recover the swap | the old database or the new one, complete | Shrink, CompactionSwap |
| `dbms/durability/compaction/rw-lock.mts` | phase chain | `readLock`, `writeLock` | writers alone; nobody overtaken, nobody starved | RWLock |
| `apps/api-server/simpledbmsd.mts`, the FSM | buffer of commands, database files | apply, snapshot, restore, DROPLOG | every node's database reflects the same commands | Daemon |
| the same, its API | `dbLock`, requests | users, collections, documents | each request as if alone; commands by id from owners only | Accounts |
| `query-language/src`, `storage-adapter` | - | parse, optimise, run | the answer the statement means | Sql |
| files, compression, NLP, authentication, front end, viewers, benchmarks, proxy | - | - | data transformation or I/O | not modelled |

How they interact. The daemon's handlers run under `dbLock` and either touch the
engine directly or call `RaftNode.submitCommand`; the node appends to its log
under `commandLock`, replicates through `RPCHandler` and the transport, and the
apply loop hands committed commands to the daemon's FSM under `applyLock`. Every
RPC handler and timer of `StateMachine` runs under `stateLock`. The engine stages
blocks in a `FreeBlockFile`, whose `commit` journals them through `AtomicFile` and
`WALManager`, under the latter's `Mutex`. The engine has two such files, documents
and indexes, which commit one after the other. `AutoCompactor` shrinks a file under
`dbLock.writeLock`.

What is hard here. JavaScript is single threaded, so all interleaving is at
`await`: a value read before one may be stale after it, and two locks that guard
one file do not exclude each other. Messages arrive late, twice or never. Files
lose what was not synced, record by record. Processes crash between two writes
that belong together. `PROJECT.json` lists these hazards at their lines, with the
properties that cover each, or why none does.

## 2. Modules

    RaftLog ---- Raft ---- MCRaft                        (runs raft_*)
       |            \----- RaftProofs
       |---- LogStore <-.
       \---- DiskLog ---'- NodeFiles (+ ReplacedFile)    (run node_files)
                             \---- NodeFilesProofs
    Transport --\-- Cluster (+ Membership)               (run cluster)
    Timers -----/-- ClusterProofs
    FairAccess <-- RWLock -----\-- Locks                 (run locks)
              \--- AsyncLock --/-- LockProofs
    AtomicStore <- AtomicFile ----\-- Storage (+ NodeStorage - BPlusTree, BulkLoad,
                   FreeBlockFile --/          Shrink, CompactionSwap)
                                  \--- StorageProofs     (run storage)
    Collection --\-- Database (+ Sql, IndexImport)       (run database)
    Accounts ----/-- CollectionProofs, AccountsProofs
    Daemon ---- DaemonProofs                             (run daemon)

An arrow `<-` is a refinement (`INSTANCE ... WITH`), a line is EXTENDS, `+` is
INSTANCE. `NodeFiles`, `Cluster`, `Storage`, `Database` and `Locks` compose modules that
share no variable: the components meet only through promises that each is checked to
keep, so one run starts in any of the parts, and the others stay as they start.
`Accounts` and `Membership` have a run of their own as well, which must fail (section 5),
and some components a `.cfg` that shows what the compositions leave out (section 6).

### Raft

`RaftLog` is the pure part: a log is `[snapIndex, snapTerm, entries, lastTerm]`,
and each operation of `LogManager` is an operator on it. `lastTerm` is a field of
its own because the code caches it and not every operation refreshes it the same
way; `Reload` is what `loadAndScan` makes of the file. It also holds the queries
`StateMachine` bases decisions on: `MatchesPrevLog`, `IsLogUpToDate`,
`ConflictInfo`, `CalculateCommitIndex`, `NextIndexAfterConflict`.

`Raft` is the cluster. Each variable is a field of a class, indexed by node:
`currentTerm`, `votedFor` (PersistentState), `role`, `votesReceived`, `preVotes`
(StateMachine), `nextIndex`, `matchIndex` (LeaderState), `log`, `snapshot`,
`commitIndex`, `lastApplied` (VolatileState), and `app`, the commands the
application reflects. A handler runs under `stateLock` from first line to last, so
it is one action. Four places are cut, because something can come between:

* `handleInstallSnapshot` saves the snapshot, then waits for `applyLock`
  (`ReceiveSnapshot`, `InstallSnapshot`; `installing` says who holds `stateLock`);
* `takeSnapshot` runs under `applyLock` only (`ApplyNext`, `SaveSnapshot`,
  `CompactLog`), so it interleaves with the previous one on the same file;
* `sendAppendEntries` decides to send a snapshot and `sendSnapshot` takes the lock
  anew (`SendAppendEntries`, `SendSnapshot`);
* `handleAppendEntries` truncates and appends in two writes, and a crash may come
  between (`CrashAfterTruncate`).

`msgs` is the network. Any message may be lost, delayed or overtaken. A copy of
AppendEntries or InstallSnapshot may arrive twice, because the leader sends the
same request again until one is answered; votes and answers are sent once
(`RPCHandler` has no retry). An answer reaches only the call that waits for it: a
restart marks the node's requests in flight as orphans, nobody gets their answers.

`MCRaft` adds the symmetry of nodes and `DisksInit`, three nodes that restarted
with logs two earlier leaders left behind. That state is reachable from `Init`
(each leader appended its no-op and a command, and lost its followers), but in more
steps than TLC can take together with what follows.

`Membership` is the same protocol while the members change: `ConfigManager`'s active
and committed configuration, what appending, truncating, committing and restarting
do to them, and the calls of `RaftNode` with their wait for the commit. An RPC and
its reply are one step there. `Transport` follows the members: clients made at start
and by the leader, calls in flight, `stop` with its timeout. A call whose caller has
given up (`GivenUp`) is no call any more for the server, which gRPC shuts down when its
streams are closed, but its handler runs on: `handling` holds the callers that wait,
`abandoned` those that do not. `Timers` is one node's
two timers under all that sets, resets and stops them, with the handlers that wait
for `stateLock` in a queue; a handler gives up the processor only to write, so the
writes are its steps.

### Files of a node

`DiskLog` is `DiskLogStorage` under `LogManager`. The file is a sequence of records
with their indices, `offsets` and `cached` are the memory, `task` is what a caller is
about to do after its check, and a rewrite is two steps, before and after the rename.
`DiscardUpTo` takes any index and term a leader's snapshot may have; only what is
committed here has the snapshot's term. `displaced` is not in the code: it says that
such a snapshot took the place of the last entry, whose term the cache goes on to name.
A crash may tear the write in progress. `LogStore` is what `LogStorage` promises: a
log that grows at its end and loses a suffix or a prefix, and nothing else;
`DiskLog` implements it with the file as the log. `ReplacedFile` is `term.bin`,
`snapshot.bin` and `config.bin`: truncate, fill, sync, rename, recover.

### Locks

`FairAccess` is what a lock promises: who asked, who runs, and, fixed when a request
is made, which earlier conflicting requests it may wait for (`ahead`). A section
starts only when none is left, so nobody is overtaken; exclusion follows.

`RWLock` is the daemon's lock. A phase is a record `[kind, gate, pending,
released]` in a sequence; `gate` is the promise the phase awaits, the tail when it
was made. `JoinReadPhase`, `NewReadPhase`, `WriteLock` are the calls up to their
await, `Enter` the resumption, `Leave` the `finally` block. The refinement maps
`ahead` to the members of earlier phases that conflict. `AsyncLock` is raft-core's
lock; `granted` is a caller whose promise is resolved and whose microtask has not
run. The `Mutex` of the write-ahead log is the same algorithm.

### The database

`AtomicStore` is a map from blocks to values, and the maps that may yet replace it whole,
in their order: that of the running transaction, and before it that of one which was
given up in its last sync. `AtomicFile` is `FreeBlockFile.commit` over `AtomicFile` and `WALManager`;
`pc` is the next file operation, and every file operation is an action. `wal` and
`db` are what a read returns, `walDisk` and `dbDisk` what the last sync left. A
crash may lose or damage any record appended since the sync, and leave any block
written since old, new or torn. `after` is where a checkpoint returns to: it runs
after a commit, inside an append when the journal is full, and inside `recover`.
An error may come at any file operation and ends the call; the marker of a commit whose
last sync failed stays in the journal (`InDoubt`), and what it seals may take effect
later. `cut` says that the journal was truncated and not synced since: a crash then
leaves the old journal, or the new one with any of its records lost or damaged; that
records appended after a truncation reach the disk only with it is assumed of the file
system. The refinement maps the store's contents to the database file of the last sync
with the committed part of the journal copied over it.

`FreeBlockFile` takes that commit as one step and models what is staged before it:
chains of blocks, the free list threaded through the blocks, pending frees. A commit that
fails keeps all it has staged and the frees it has carried out but not forgotten
(`halfFreed`). `Usable` lets the callers go on after it; what the next commit then does
with these frees is wrong (section 6), so the passing run has `FreesAgain = FALSE`:
after such a failure the file is opened anew. After a failure without frees they go on.
`NodeStorage` is a record of nodes in memory and in blocks with the operations of
`FBNodeStorage` on it, and `BPlusTree` runs every operation of the tree over it, with
the loads it makes and the links it sets. `BulkLoad` builds the upper levels from
sorted leaves; `IndexImport` is the worker, the builder and the chunk files that
yield those leaves; `Read` is what the merge finds in its files. `Shrink` moves blocks and rewrites pointers in any small layout
of a file; `CompactionSwap` renames four files under a marker, and recovers.

`Collection` is the engine on one collection with one index. Each file commits on
its own, so an operation is the sequence of states it goes through: it completes,
fails after one of them, or the process ends at one of them. `store` is what the engine
holds and the two files; `docs`, `settled` and `unsure` are what the callers know:
answered, committed, and in doubt. `Sql` parses, optimises
and runs statements on a table. `Daemon` is the FSM that Raft drives on every node,
with Raft itself taken as what `Raft` shows of it: a log of which every node applies
a prefix in order. A snapshot reaches a node whose database is open (`InstallSnapshot`) or
whose database a compaction has closed (`RefuseSnapshot`); in the second case the node
keeps the snapshot and the shorter log, its leader sends the snapshot again (`refused`),
and the apply loop skips what the snapshot covers (`Skip`); `lacking` names the nodes, and
each snapshot says so of itself, whose database is without what was skipped. `Accounts`
is the API on the node that leads, one step per await
of a handler: take the lock, read, decide, submit, answer, disconnect. A statement in SQL
is a request too: an INSERT is submitted for its user, UPDATE and DELETE for nobody, and
they find their documents when they are executed.

## 3. Runs

Each run's question is in `PROJECT.json`. Bounds, and why they are enough:

| Run | Bounds | What they let happen |
|---|---|---|
| `raft_elections` | 3 nodes, 2 candidates, 2 terms, 1 command, commands up to entry 2, 1 restart, 1 message | two candidacies of one term compete for the third node's vote; a voter restarts before or after its answer; an answer of term 1 reaches term 2; the old leader commits, or not, before the new one is elected by either quorum |
| `raft_divergent_disks` | logs of terms 1-1, 1-2-2 and none, batches of 1, commands up to entry 3, 1 restart, 2 messages | conflict hints, truncation, a crash inside it, a leader whose own log is the shorter; two AppendEntries to one follower in either order, and a second copy after both |
| `raft_snapshots` | snapshot after each entry, 1 restart, 1 message | InstallSnapshot to an empty and to a lagging node, a restart from a snapshot |
| `cluster` | 4 nodes, 3 of them voters at first; a voter joins and one leaves, or a learner joins, is promoted and leaves; 2 candidates, 2 terms, 4 entries, 1 restart. Transport: 3 nodes, 3 configurations, 1 call, 1 stop. Timers: 3 waiting handlers | a configuration entry is truncated by a later leader, or missed by a restart; a stop with a call in progress; a node restarts and follows a configuration it was not created with; any two handlers between a timeout and its handling, a stop and a start between |
| `locks` | daemon: 4 callers, 5 phases; raft-core: 5 callers | readers join while others leave, two writers queue, a reader queues behind each; four waiters in any order of arrival and of return |
| `node_files` | 2 terms, index up to 3, 1 call at a time, 2 crashes; 3 contents, 3 writes | append, truncate, compact, reset, each cut off, and a recovery that is cut off again |
| `storage` | journal: 2 blocks, 2 transactions, 2 errors, 2 crashes; full journal: 2 blocks, 5 units (a record takes 2, a marker 1), 3 transactions, 2 errors, 2 crashes; blocks: 3 and a blob of two, 2 failing commits; tree: 6 keys, order 2, 1 restart, 1 transaction; bulk: orders 1 to 4, two full levels; shrink: 7 blocks; swap: 1 crash | an error at any file operation, a crash after it and in the recovery, and two transactions with the marker of the first in doubt; two records and a marker just fit, so that what a failed commit left makes a checkpoint come at a first record, at a second (dividing the transaction) and at a marker; a block freed, staged and allocated again around a failing commit; three levels, with every split, borrow and merge; every layout of catalog, tree, index and documents |
| `database` | accounts: 2 requests at a time, 3 names, 1 collection, 4 requests, 3 with disconnections, 2 with failures; collection: 2 ids, 2 values, 3 blocks, 5 writes, 1 error, 1 crash; statements: 3 ids, values 0 and 1; import: 5 documents, batches of 1, chunks of 3, 4 open files | two sign-ups with one name, a list read by two requests, a statement in SQL before, beside and after any other request, of the same user or another; a crash between the commits of index and documents; every statement of the grammar up to two conditions; two merge passes; a chunk file that cannot be written, in the middle and at the end |
| `daemon` | 2 nodes, 2 commands, 4 entries, snapshot after 3, 1 disturbance | a restart, a compaction or an InstallSnapshot at any point of the apply loop; a follower whose next entry is gone; a snapshot for a node whose database is closed |

The other three runs show disagreements (section 5), each with the smallest bounds that do.
Terms, log lengths, restarts and messages in flight, phases,
transactions, errors, crashes, requests and
writes are bounded in the guards (constants named `Max...`, and `Electable`);
`MaxLog` bounds the commands a leader takes, the no-op of a new leader comes on top.
Bounded systems stop when the bound is used up, so no run checks for deadlock: that
something goes on is said by `Listens`, `HandOver`, `EveryoneEnters`, `EveryoneRuns` and
`CatchesUp`.

The members of `cluster` are few on purpose. An addition and a removal that two
leaders of different terms append, neither of which knows of the other, have majorities
that always meet with three voters (two of two against three of four), not with four (two of
three against three of five). `CommittedStays` holds of the first and
`membership_early` shows what happens with the second (section 5).

A node's log needs three entries for the cases that matter: one that agrees, one
that conflicts, one that follows. Two blocks make a transaction that can be half
done; one value besides the blank one makes it visible.

**Fairness.** `FairLocksSpec` of `Locks` assumes, of `RWLock` (`Fairness`) and of
`AsyncLock` (`LockFairness`), weak fairness of the resumption of a resolved promise,
which the event loop gives, and of the end of a section, which its callbacks give:
file operations and RPCs with a timeout for raft-core, the end of the response for the
daemon. Nobody is assumed ever to ask.
`FairSpec` of `Daemon` assumes it of replication and of the apply loop, which timers
and heartbeats repeat, on a leader that stays; nobody is assumed to send a command.
The other specifications state safety only.

**What the passing runs leave out.** A constant says so, and section 6 gives the value
that shows what happens otherwise.

## 4. Theorems

Checked by `tlapm`, for every finite set of nodes, callers and blocks, every set of
commands, and every bound. Each proof module says its argument at the top.

**Elections** (`RaftProofs`), without conditions.
`TypeCorrect` is `Spec => []TypeOK`; the lemmas about `RaftLog` say what each log
operation returns for any log. `OneLeaderPerTerm` is `ElectionSafety`, which is not
inductive: a step that elects a leader needs to know where its votes came from.
`ElectionInv` (`VotesStand`) says that every granted vote, in flight or counted, was
cast by its voter in that term, that no voter has two of them in one term, and that a
leader has a quorum; two quorums of a finite set meet. `VotesAreFinal` and
`CommitStands` are the action properties `VoteIsFinal` and `CommitNeverRegresses`.

**Replication** (`RaftProofs`), while no snapshot is taken.
The statements read `Spec /\ []NoSnapshots => ...`. The condition is needed:
`SameHistory` fails with snapshots (section 5), and a snapshot that contradicts the
log (section 6) breaks `LogMatching`'s induction. `FewTakeNoSnapshots` says when it
holds: in every behaviour in which no node has applied `SnapshotThreshold` entries.
The argument:

* Every step is of one of six kinds (`SafetyKinds`), and only a leader that appends
  an entry of its own brings a new *link*, an entry with its index and the term
  before it. Links, in logs and in requests, stem from the one node that has led
  their term, and while it leads it holds all of them, so that index and term
  determine a link. Logs are chains of links: `LogsMatch` (`LogMatching`), with the
  inductive invariant `ReplicationInv` (`ReplicationHolds`).
* `Acked`: whoever is believed to hold the leader's log up to an index holds it, as
  long as it stays in the leader's term; answers that are late or overtaken say
  nothing wrong. `MatchesAreHeld` (`MatchIndexIsHeld`).
* `Secure(es, i, A)`: the nodes of `A` hold the log `es` up to `i`, nothing in flight
  takes it from them, and they have not voted for a candidate of a later term that is
  without it. Only the election of such a candidate could end this, and it lacks the
  votes of `A`. A leader's entry of its own term is secure on its holders, or a
  quorum has gone past the term without it and it will never be committed
  (`SecureInv`, `SecureHolds`). Secure on a quorum is for ever, and each
  `commitIndex`, of a node or in a request, is within such a log (`CommitInv`,
  `CommitHolds`).
* Hence `LeadersAreComplete` (`LeaderCompleteness`), `CommittedEntriesStay`
  (`CommittedIsKept`), and, with one history of commands that all applications follow
  (`HistoryInv`), `HistoriesAgree` (`SameHistory`).

**Timers** (`ClusterProofs`): `TimersAreOnce` and `VotersListen`, for queues of any
length. The invariant says of every point at which a handler gives up the processor
what the rest of it may count on.

**Locks** (`LockProofs`): `PhasesStayInOrder` is the inductive
invariant of the chain (every phase waits for the one before, `pending` is the number
of its members, and a phase is released exactly when it has none left and all before
it are). Whoever runs is then in the first phase not released (`WritersAreAlone`).
`LockIsHandedOver` is `HandOver`, which is inductive as it stands. Both locks implement
`FairAccess`, step by step (`LockIsFair`, `AsyncLockIsFair`).

**Transport** (`ClusterProofs`). `OpenCallsKeepStorage` (`OpenCallsHaveStorage`), if
handlers end before the timeout of `stop` (`~ Slow`): storage is closed by a node whose
server has stopped, and a server stops when no call is open. It says nothing of handlers
whose caller has given up, of which the same is false (section 6). `LeadersReachAll`
(`LeaderReachesAll`), for a leader that appended the members it knows, one configuration
at a time (`~ TakesOver`, `~ Batched`). The danger is `removePeer`, which comes
when the removal has been committed, after other calls may have changed the members:
the member that is dropped is not active (`RemovedAreInactive`), since only `addServer`
brings it back, and a removal that a leader still waits for is not committed
(`RemovalsPend`), in which case `addServer` refuses.

**Daemon** (`DaemonProofs`). `AppliedAreExecuted` (`AppliedIsExecuted`), if clients repeat
no CREATE (`~ Repeats`) and no node goes down with commands executed and without a
snapshot of them (`~ Uncovered`). The database after a prefix of the log is defined by
recursion; its equations are derived from the least number at which they would fail,
so no induction theorem is needed. The invariant says what each point at which
the apply loop gives up the processor leaves in the buffer and in the database
(`Applying`), and that a snapshot is the database of its index (`Covered`). Both are said
of nodes and snapshots that no skip has gone into; that a skip needs a database closed by
a compaction is `NoneSkipped`, and then `UnmaintainedExecute` (`CommandsAreExecuted`) says it
of all, if there is no compaction (`~ Maintains`; otherwise it fails, section 6).

**Accounts** (`AccountsProofs`). `OwnersAlone` (`OnlyOwners`), without conditions: an
update leaves the owner of a document, and a handler that submits a command by id names a
document it found among those of its user. It is about these commands, not about UPDATE and
DELETE in SQL, which name no document and whose requests interleave with the others
(section 6). `ListsAreTrue` (`ListedExists`), as long as submitting
does not fail: what a list names is there, or a command that creates it goes before the
list, in the log or in the same request (`ListInv`). `CalmAreAlone` (`AsIfAlone`), with
no eager client (`"eager" \notin Setting`; with one it fails, section 5): every handler
starts on the database that the requests before it make, one after the other (`AloneInv`).

**Collection** (`CollectionProofs`), up to a crash and what is read after it
(`~ GoesOn`), and with no index listed that is not maintained when the database is
opened (`~ ReopensStale`). Neither property is inductive: both look at what a lookup
returns. `Good(store, docs, settled, unsure)` says what the lookups go by. Each id has
at most one block in the primary tree, and that block holds its document; the index in
use has the entry of each document that is not in doubt, and no other; a transaction
has taken nothing away; and of what is settled, both hold of the index file, and the
heap file has the same content in the same block. The last is the delicate part: an
operation commits one file alone, so what is settled must not be in a block that the
other file has given away. Writing a document takes it out of `settled` and puts its id
in doubt until the operation ends, so the states on the way are `Good` for the others,
and an error or a crash at any of them leaves these as they were. After a crash the
store is `Legible`: what was settled is read, and there may be more. This is `EngineInv`
(`EngineIsConsistent`), for every number of ids, blocks, errors and operations; compaction
keeps it because the places it gives out are distinct and dense (`PlacesAreDense`). Then
`DocsAreKept` (`DocumentsAreKept`) and `FindsAreExact` (`FindIsExact`), which also need that
no value is negative and, for the second, that the field is never null: strings sort
otherwise (section 6). Without the first two conditions section 6 has what happens.

**Files of a node** (`NodeFilesProofs`), with one call at a time (`Alone`). `DiskInvariant`
says that record `k` of the file has index `snapIndex + k`, that the offsets in memory
are those of the records, and that only the very last write can be torn. Then
`AcknowledgedIsRead`, `CacheIsRight`, `BrokenIsNew`, and the refinement
`FileIsLogStore`, whatever a leader's snapshots discard. `CacheIsRight` makes one exception,
the term of a last entry that a snapshot of another term displaced, and says that the
cached index is then that of the snapshot (section 6). In the code three locks let three calls in, and then
`AcknowledgedIsHeld` fails (section 6): the theorems are about a node whose calls do
not overlap.
`KnownIsOnFile` is `KnownIsRead` for the files that are replaced whole, with one writer,
as `term.bin` has under `stateLock`; it fails with two, as `snapshot.bin` has.

**Journal** (`StorageProofs`), with recovery at every opening (`RecoversOnOpen`), and as
long as no checkpoint makes room in the journal while it holds a marker whose sync failed
(`NoRoomInDoubt`; otherwise `CommittedIsRead` fails, section 6). An error may come at any file
operation. Between the journal and the database file one is always right: the file differs
from what was last synced only in blocks that a committed record restores, and the journal
is emptied only once the two agree (`OneFileIsRight`). What makes it delicate is the
marker in doubt: the disk may come to hold it or not, so both contents are followed
(`ToCome`), and a second transaction that is journalled behind it must not take effect
without it. Then `FileReadsAsCommitted` (`CommittedIsRead`); and, as long as no checkpoint
makes room in the middle of a transaction (`NoSplit`; otherwise it fails, section 6),
`WholeCommitIsDurable` (`CommitIsDurable`) and `TransactionsAreAtomic`, the refinement of
`AtomicStore`. With `SealFails = FALSE` no marker is ever in doubt; with a journal that does
not fill up, nothing makes room: the two settings of `storage` satisfy the first condition,
the first of them both.

**Block file** (`StorageProofs`), where no caller changes a batch before it is committed
(`~ BatchMayChange`; otherwise it fails, section 6) and nothing but opening the file anew
follows a failed commit that had freed blobs (`~ FreesAgain`; otherwise it fails, section
6). `BlocksAreKept` (`BlobsAreKept`). The
property speaks of chains, which are walked; the invariant, `BlockInv`, of sets. There is a
set S of blocks that a chain from the head of the free list goes through once each
(`Listed`); the blobs, those to free and S share no block (`Sound`); together they are all
the blocks there are, but for what a failed commit abandoned; and no block of S is in a
blob of the last commit (`Kept`), because what is freed joins S only with the commit that
forgets it. The file alone satisfies the same with a free list of its own (`FileKept`), so
a crash, which loses what is staged, leaves the invariant true. Lemmas say that taking a
block off a chain or putting one in front leaves a chain, and that a blob written to
blocks that were free or new is one more blob (`Stored`). commit's loops over the blobs to
free and their blocks are a function of the number of rounds; each round keeps `Loop`
and leaves less to do, so the rounds of the model are enough for any number of blobs
(`FreedIs`). A blob has one block or two; the number of blocks, of data, of calls, of
failed commits and of crashes is any.

The prover's SMT encoding takes `DOMAIN s = 1 .. n` and `Len(s) = n` for equivalent whatever
s is. The first implies the second by the definition of `Len`; the converse holds of
sequences only. No proof here needs it: every module was also proved without the converse.

Assumptions on constants: `ServerAssumption` (a finite set of nodes, `Nil` is none of
them), `BoundAssumption` (bounds are naturals, thresholds positive),
`RWLockAssumption`, `DiskLogAssumption`, `AtomicFileAssumption`, `BlockAssumption`,
`NodeFilesAssumption`, `TransportAssumption` (the peers are nodes), `DaemonAssumption`,
`EngineAssumption` (values are integers, null and an absent field are none of them); TLC
evaluates each in a run.

**Only model-checked.**

* Liveness (`EveryoneEnters`, `EveryoneRuns`, `CatchesUp`): the prover has no rule for
  fairness and ENABLED.
* `TreeHoldsContents`, `ContentsKept`, `AllSorted`, `StatementsAreRight`: they compare
  recursive algorithms (the tree, bulk loads, shrinking, merging, parsing) with a
  reference, which needs induction over data, and the prover takes no recursive operator.
* `OneDatabase`: there are always four files, and with the one crash that the property
  holds for (section 6) the run has every behaviour there is.
* `FullJournalIsSafe`: the journalled file in a second setting. `FileReadsAsCommitted` holds
  of every setting that recovers at opening and in which no marker is in doubt when a
  checkpoint makes room; that commits are durable also beside those that a checkpoint
  divided (`WholeIsDurable`) is only checked.
* `CommittedStays`, `OneAtATime`: true of the clusters of `cluster`, not of every number
  of voters (section 5), so that a proof would have to fix the bounds, which TLC does.
* Raft with snapshots: false in general (section 5). The runs check what remains.

## 5. Where code and documentation disagree

Three runs must find a violation; `PROJECT.json` quotes the lines.

**`raft_snapshot_race`** (`SameHistory`).
`takeSnapshot` saves under `applyLock`, InstallSnapshot under `stateLock`, and neither
compares with the snapshot already stored: `takeSnapshot`, resuming after an install,
overwrites the newer file with an older one, and a restart loads it over a log that no
longer holds the entries between. The apply loop then skips commands, and two nodes
that have applied the same index have executed different ones. Without snapshots this
cannot happen: `HistoriesAgree`.

**`membership_early`** (`CommittedAgree`). `addServer` and `removeServer` ask that no
change is pending on this node (`RaftNode.ts:732`, `:798`), not that the leader has committed
an entry of its own term. n2, the leader of term 1, appends the removal of n1 from four
voters and reaches nobody. n1, the leader of term 2, knows nothing of it, adds n5, and
commits with n3 and n5: three of five. n2 stands again in term 3 and is elected by n4:
two of three. Nobody of these has what n1 has committed, and n2 commits other entries at
the same indices. The README promises "the same commands in the same order"
(`raft-core/README.md:8`).

**`accounts_eager`** (`AsIfAlone`). `fetchDocuments` of a collection in which the user has
documents, but which is not on the user's list, adds it and writes the list as it was read
some awaits before (`apps/api-server/simpledbmsd.mts:3210`). It is a GET, so two of
them hold the lock together, and the collection that the first one added is lost. "GETs
share readLock so they can run concurrently; mutating verbs serialize via writeLock."
(`simpledbmsd.mts:705-706`): this GET mutates. Without it the requests of calm clients
are as if alone: `CalmAreAlone`.

## 6. Other disagreements met

The passing runs leave these cases out by a constant. A setting that is named is
a change to the `.cfg` of that run, or a `.cfg` of its own for the module beside it, and TLC
then finds the property violated; the others were met while reading. Of the first seven the
repository says otherwise in the words quoted.

| Where | Setting | Fails | What happens |
|---|---|---|---|
| `dbms/durability/atomic-operations/wal-manager.mts:196`, `:220` | `journal_split.cfg`, AtomicFile | CommitIsDurable | a record or a marker that does not fit in the journal makes room by a checkpoint; in the middle of a transaction there is no marker behind its records: none is copied, all are dropped, and the commit goes on, seals what it journals afterwards and returns ("Transaction either fully applied or not at all", `dbms/durability/README.md:59`) |
| `dbms/storage/freeblockfile.mts:575`, `:645` | `commit_retry.cfg`, FreeBlockFile | UsedOrFree | `commit` carries out the pending frees in `stagedWrites` and forgets them at its end; after an error in between the object takes further calls, and the next commit frees the same blobs again, walking blocks that are links of the free list by now ("Blocks are either used or part of a free list chain.", `freeblockfile.mts:9`) |
| `raft-core/src/core/StateMachine.ts:561`, `storage/disk/DiskLogStorage.ts:205` | `log_tail.cfg`, DiskLog | LastTermIsOnFile | an InstallSnapshot that ends where the follower's log ends is a `compact` with the snapshot's term, which need not be that of the entry; `compact` leaves `lastTerm` as it was until the log grows or is opened anew, and votes and the next `prevLogTerm` go by it ("Term at lastIndex.", `LogStorage.ts:15`). Nothing else of the cache is wrong: `CacheIsRight` |
| `raft-grpc/src/GRPCTransport.ts:524` | `stop_early.cfg`, Transport | HandlersHaveStorage | `tryShutdown` waits for open streams; a handler whose caller ran into its deadline or went away is not among them, and `RaftNode.stop` closes the storage under it ("Stops server and closes all clients with graceful shutdown fallback.", `GRPCTransport.ts:503`). Calls whose callers wait are safe: `OpenCallsKeepStorage` |
| `apps/api-server/simpledbmsd.mts:168` | `daemon_maintained.cfg`, Daemon | CommandsAreExecuted | compaction leaves the FSM with a closed database; before an InstallSnapshot writes its files it closes the database, which commits, which throws, each time. By then the snapshot is saved and the log cut, so that the apply loop takes the snapshot for applied (`RaftNode.ts:643`) and goes on behind it, without what it covers, while the leader sends it again until the node is started anew ("Raft calls apply() on it for every committed command", `simpledbmsd.mts:203`). Without compaction it cannot happen: `UnmaintainedExecute` |
| `dbms/big-data-import/disk-backed-index-builder.mts:183` | `import_overlap.cfg`, IndexImport | AllSorted | the handler of a worker's batch awaits a write, and the next batch does not wait for it: `flushToDisk` forgets what was added meanwhile, or writes it twice ("Get all entries sorted", `:203`) |
| `disk-backed-index-builder.mts:556` | `import_closed.cfg`, IndexImport | AllSorted | when a reader is found closed in a merge, the rest of its file is left out without an error; `readline` reads ahead, and newer releases of Node.js throw when it is told to go on after its end (the same words) |
| `raft-core/src/core/StateMachine.ts:560` | `raft_snapshot_race.cfg` with `MaxInFlight = 2`, `MaxRestarts = 0` | SameHistory | a second copy of an InstallSnapshot sets the application back while `lastApplied` stays |
| `StateMachine.ts:551` | - | - | snapshot and log are two writes; a crash between them, or a suffix kept by `discardEntriesUpTo`, leaves them contradicting |
| `RaftNode.ts:921` | `cluster` with `Waits = TRUE` | CommittedStays, OneAtATime | `addServer` and `removeServer` check, await, then append: two changes in flight |
| `RaftNode.ts:1051` | Membership, actions `Notified`, `GiveUp` | - | waiters are keyed by index: a caller whose entry was overwritten may be told it was committed |
| `ConfigManager.ts:174` | Membership | - | after a truncated change the active configuration differs from the committed one, and every later change is refused |
| `RaftNode.ts:1018` | `cluster` with `TakesOver` or `Batched` `TRUE` | LeaderReachesAll | only the leader that appended a member, one configuration at a time, makes a client for it |
| `raft-grpc/src/GRPCTransport.ts:517` | `cluster` with `Slow = TRUE` | OpenCallsHaveStorage | `stop` forces the server down and the storage is closed under a handler whose caller waits |
| `StateMachine.ts:766` | `node_files` with `Alone = FALSE`, two processes, `MaxCrashes = 0` | AcknowledgedIsHeld | `becomeLeader` (`stateLock`) and `submitCommand` (`commandLock`) both check the last index, then append: one entry is lost |
| `storage/disk/DiskLogStorage.ts:129` | - | - | `getEntry` uses an offset it looked up before a rewrite |
| `storage/disk/DiskSnapshotStorage.ts:62` | `node_files` with two `Writer`s | KnownIsRead | two writers share one temporary file |
| `StateMachine.ts:713` | Timers (`failed`) | - | when the write of a term or vote fails, the election timer stays unset |
| `StateMachine.ts:610` | Raft with one server | - | `becomeLeader` is only called when a vote response arrives: a cluster of one stays without a leader |
| `dbms/durability/atomic-operations/wal-manager.mts:196` | `storage` with `FullSealFails = TRUE` | FullJournalIsSafe | a commit marker whose sync failed is still in the journal when a checkpoint makes room and copies what it seals: after a crash the marker may be gone, and a block that was torn in the copying is not restored |
| `dbms/core/simpledbms.mts:2608` | `storage` with `RecoversOnOpen = FALSE` | CommittedIsRead | the files of the vector index are opened without `recover` |
| `dbms/storage/freeblockfile.mts:606` | `storage` with `BatchMayChange = TRUE` | BlobsAreKept | `commit` writes the extents of a batch last: what was overwritten or freed in one before the commit comes back in the file |
| `dbms/indexes/b-plus-tree.mts` | `storage` with `Loaded = {1, 2, 3, 4, 5, 6}`, `ReadsFirst = FALSE`, `TreeTransactions = 0` | TreeHoldsContents | deleting in a tree that is loaded only in part |
| `b-plus-tree.mts:95` | `storage` with `AbortsSplits = TRUE` | TreeHoldsContents | `abortTransaction` after a split of the root |
| `dbms/core/simpledbms.mts:551` | `storage` with `Extra = 1` | TreeHoldsContents | the last groups of a streamed bulk load |
| `dbms/durability/compaction/compaction.mts:545` | `storage` with `SeparateHeap = TRUE`, `MaxBlock = 5`, `HeapBlock = {1, 2, 3}` | ContentsKept | block ids of the documents' file are taken for blocks that moved |
| `apps/api-server/simpledbmsd.mts:557` | `storage` with `FewCrashes = 2` or `PowerLoss = TRUE` | OneDatabase | a second crash in the recovery, or a marker that was not synced |
| `dbms/durability/compaction/auto-compaction.mts:181` | - | - | the block file is fetched before the lock and shrunk after it |
| `dbms/core/simpledbms.mts:2726` | `database` with `GoesOn = TRUE`, `MaxFailures = 0`, `MaxWrites = 6` | DocumentsAreKept | after a crash between the commits, an index entry points at a block that another document gets ("Zero data loss; consistent state guaranteed.", `dbms/core/README.md:66`) |
| `simpledbms.mts:130` | `database` with `Content = {1, NullValue, Absent}` | FindIsExact | index keys are strings: null, and negative numbers, sort and match otherwise than the values |
| `simpledbms.mts` | `database` with `ReopensStale = TRUE` | FindIsExact, DocumentsAreKept | an index listed in the header but not maintained is used after reopening |
| `dbms/big-data-import/parallel-index-builder.mts:189` | IndexImport (`leftOut`) | - | a field whose chunk file cannot be written is left out of the import without an error, and its files stay |
| `query-language/src/parser/parser.mts:212` | `database` with `Decimal = TRUE` | StatementsAreRight | `SET a = 1.5 WHERE ...` stops at the dot and changes every document |
| `query-language/src/executors/select.mts` | `database` with `OrderAnyColumn = TRUE` | StatementsAreRight | ORDER BY a column that is not selected |
| `simpledbmsd.mts:258`, `:320` | `daemon` with `Repeats = TRUE`, `Misses` and `Maintains` `FALSE`, `MaxCommands = 3`, `MaxLog = 5` | AppliedIsExecuted | a repeated CREATE stays in the buffer and blocks what follows |
| `simpledbmsd.mts:1018`, `:1106` | Accounts (`SqlUpdate`, `SqlDelete`) | - | UPDATE and DELETE in SQL are submitted with the user 'NO_USER' and change the documents of every user, as the routes of `/db` do; no line promises otherwise, and `OnlyOwners` is not about them |
| `simpledbmsd.mts:725`, `:2526` | Accounts, setting "busy" | - | disconnecting ends a request's section; two requests read before either submits |

## 7. Not modelled

* Time: a timer may fire whenever its role allows; `noRecentLeader` may go either
  way. Hence no liveness of elections.
* Chunks: a snapshot travels as one. `maxSizePerMsg`: any prefix of a batch may go.
* Pre-votes and snapshots while the members change; the handlers of `submitCommand`
  and `takeSnapshot` cut at every await.
* A short write (`RealFile.writev` does not look at the count) or one that fails after a
  part, without a crash: a failed operation leaves its file as it was. A sync that reports
  success falsely, the growth of a file by `truncate`, `abort` and `clearLog`, which
  nothing calls.
* Vector indexes, several collections under one operation, eviction from the node
  cache.
* SQL: joins, GROUP BY and HAVING, AVG, strings, division, syntax errors.
* Everything marked not_modelled in `PROJECT.json`.

## 8. What could follow

1. `Raft` with snapshots as far as they keep what they promise: an invariant that
   excludes the disagreements of sections 5 and 6 by name.
2. `Membership` with a leader that waits for an entry of its own term: then
   `CommittedStays` should hold of any number of voters.
3. `FreeBlockFile` with blobs of any number of blocks: `Uses` and `Freeable` of the proof
   become chains like the free list.
