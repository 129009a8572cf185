------------------------------ MODULE AtomicFile ------------------------------
(***************************************************************************)
(* AtomicFileImpl over WALManagerImpl, as FreeBlockFile.commit drives it:  *)
(* the staged blocks are journalled, the journal is synced, sealed with a  *)
(* commit marker and synced again, then copied to the database file and    *)
(* emptied.  Every file operation is a step, and between any two of them   *)
(* the process may crash or get an error from the file system.  What was   *)
(* not synced may then be lost, record by record and block by block.       *)
(* Sizes are counted in units; a block's contents are one Value.           *)
(***************************************************************************)
EXTENDS Integers, Sequences, FiniteSets

CONSTANTS
    Block,              \* blocks of the database file
    Value,
    Blank,              \* what a block holds in a new file
    Torn,               \* what a crash leaves of a half-written block
    WriteSize,          \* units of a WRITE record
    CommitSize,         \* units of a COMMIT record
    WalSizeLimit,       \* WAL_SIZE_LIMIT, in units
    RecoversOnOpen,     \* whether opening the database calls recover
    SealFails,          \* whether the sync after a commit marker may fail
    MaxTransactions, MaxFailures, MaxCrashes     \* bounds of the model

ASSUME AtomicFileAssumption ==
    /\ Blank \in Value
    /\ Torn \notin Value
    /\ WriteSize \in Nat /\ CommitSize \in Nat /\ WalSizeLimit \in Nat

VARIABLES
    wal,            \* the records of the journal, as a read returns them
    walDisk,        \* those of its last sync
    cut,            \* whether the journal was truncated since that sync
    db,             \* the database file, as a read returns it
    dbDisk,         \* at its last sync
    inTransaction,
    staged,         \* FreeBlockFile's stagedWrites
    unjournalled,   \* the staged blocks commit has not journalled yet
    replay,         \* the places of the writes checkpointInternal has yet to copy
    pc,             \* the file operation that comes next
    after,          \* where the running checkpoint returns to
    goal,           \* the contents the latest transaction asks for
    transactions, failures, crashes

fileVars == <<wal, walDisk, cut, db, dbDisk>>
commitVars == <<inTransaction, staged, unjournalled, goal, transactions>>
vars == <<fileVars, commitVars, replay, pc, after, failures, crashes>>

NoWrites == [b \in {} |-> Blank]
Over(f, g) == [b \in DOMAIN f \cup DOMAIN g |-> IF b \in DOMAIN f THEN f[b] ELSE g[b]]

WriteRecord(b, v) == [type |-> "WRITE", block |-> b, value |-> v, intact |-> TRUE]
CommitRecord == [type |-> "COMMIT", intact |-> TRUE]

\* A record whose header or checksum does not hold.
Damaged(r) == [r EXCEPT !.intact = FALSE]

\* The units that the records of w take.
SizeOf(w) ==
    LET Commits == {i \in 1 .. Len(w) : w[i].type = "COMMIT"}
    IN  CommitSize * Cardinality(Commits) + WriteSize * (Len(w) - Cardinality(Commits))

\* Mutant of Overflows: the record to come is not counted.
OverflowsLate(size) == SizeOf(wal) > WalSizeLimit

\* Whether a record of this size takes the journal over its limit.
Overflows(size) == SizeOf(wal) + size > WalSizeLimit

-----------------------------------------------------------------------------
(* getCommittedData.  A record is named by its place in the journal. *)

\* The commit markers that are read: everything up to them parses.
Marks(w) ==
    {m \in 1 .. Len(w) : w[m].type = "COMMIT" /\ \A i \in 1 .. m : w[i].intact}

CommittedWrites(w) ==
    {i \in 1 .. Len(w) : w[i].type = "WRITE" /\ \E m \in Marks(w) : i < m}

\* The writes of w to block b that stand at these places.
WritesTo(b, w, places) == {i \in places : w[i].block = b}

\* The file d once these writes are copied to it in order.
Copied(d, w, places) ==
    [b \in Block |->
        LET Hits == WritesTo(b, w, places)
        IN  IF Hits = {} THEN d[b]
            ELSE w[CHOOSE i \in Hits : \A j \in Hits : j <= i].value]

\* Mutant of ToReplay: what is not committed is copied too.
ToReplayAll(w) ==
    {i \in 1 .. Len(w) : w[i].type = "WRITE" /\ \A j \in 1 .. i : w[j].intact}

\* What a checkpoint of this journal copies.
ToReplay(w) == CommittedWrites(w)

-----------------------------------------------------------------------------
Init ==
    /\ wal = <<>> /\ walDisk = <<>> /\ cut = FALSE
    /\ db = [b \in Block |-> Blank] /\ dbDisk = db
    /\ inTransaction = FALSE
    /\ staged = NoWrites
    /\ unjournalled = {}
    /\ replay = {}
    /\ pc = "idle" /\ after = "idle"
    /\ goal = db
    /\ transactions = 0 /\ failures = 0 /\ crashes = 0

(* FreeBlockFile.commit. *)

\* More blocks are staged, and commit begins; what an earlier commit that
\* failed had staged is still there.
Begin(writes) ==
    /\ pc = "idle"
    /\ transactions < MaxTransactions
    /\ transactions' = transactions + 1
    /\ staged' = Over(writes, staged)
    /\ DOMAIN staged' # {}
    /\ unjournalled' = DOMAIN staged'
    /\ inTransaction' = TRUE
    /\ goal' = [b \in Block |-> Over(staged', db)[b]]
    /\ pc' = "journal"
    /\ UNCHANGED <<fileVars, replay, after, failures, crashes>>

\* checkpointInternalWithoutMutex, before the append that would not fit.
CheckpointFirst ==
    /\ replay' = ToReplay(wal)
    /\ after' = pc
    /\ pc' = "copy"
    /\ UNCHANGED <<fileVars, commitVars>>

\* journalWrite and logWrite.
LogWrite(b) ==
    /\ pc = "journal" /\ inTransaction
    /\ b \in unjournalled
    /\ IF Overflows(WriteSize)
       THEN CheckpointFirst
       ELSE /\ wal' = Append(wal, WriteRecord(b, staged[b]))
            /\ unjournalled' = unjournalled \ {b}
            /\ UNCHANGED <<walDisk, cut, db, dbDisk, inTransaction, staged, goal, transactions,
                           replay, pc, after>>
    /\ UNCHANGED <<failures, crashes>>

\* The first sync of commitDataToWal.
SyncWrites ==
    /\ pc = "journal" /\ unjournalled = {}
    /\ walDisk' = wal /\ cut' = FALSE
    /\ pc' = "mark"
    /\ UNCHANGED <<wal, db, dbDisk, commitVars, replay, after, failures, crashes>>

AddCommitMarker ==
    /\ pc = "mark"
    /\ IF Overflows(CommitSize)
       THEN CheckpointFirst
       ELSE /\ wal' = Append(wal, CommitRecord)
            /\ pc' = "seal"
            /\ UNCHANGED <<walDisk, cut, db, dbDisk, commitVars, replay, after>>
    /\ UNCHANGED <<failures, crashes>>

\* Mutant of SyncedMarker: the second sync of commitDataToWal is left out.
UnsyncedMarker == walDisk

\* What the disk holds of the journal when commitDataToWal returns.
SyncedMarker == wal

\* The second sync of commitDataToWal, which then returns.
SyncMarker ==
    /\ pc = "seal"
    /\ walDisk' = SyncedMarker /\ cut' = FALSE
    /\ pc' = "checkpoint"
    /\ UNCHANGED <<wal, db, dbDisk, commitVars, replay, after, failures, crashes>>

-----------------------------------------------------------------------------
(* checkpoint, alone, inside an append or inside recover. *)

Checkpoint ==
    /\ pc = "checkpoint"
    /\ replay' = ToReplay(wal)
    /\ after' = "idle"
    /\ pc' = "copy"
    /\ UNCHANGED <<fileVars, commitVars, failures, crashes>>

CopyWrite ==
    /\ pc = "copy"
    /\ \E i \in replay :
          /\ \A j \in replay : i <= j
          /\ db' = [db EXCEPT ![wal[i].block] = wal[i].value]
          /\ replay' = replay \ {i}
    /\ UNCHANGED <<wal, walDisk, cut, dbDisk, commitVars, pc, after, failures, crashes>>

\* Mutant of SyncedDb: the journal is emptied before the copies are on disk.
UnsyncedDb == dbDisk

\* What the disk holds of the database file when the journal is emptied.
SyncedDb == db

SyncDb ==
    /\ pc = "copy" /\ replay = {}
    /\ dbDisk' = SyncedDb
    /\ pc' = "truncate"
    /\ UNCHANGED <<wal, walDisk, cut, db, commitVars, replay, after, failures, crashes>>

TruncateWal ==
    /\ pc = "truncate"
    /\ wal' = <<>> /\ cut' = TRUE
    /\ pc' = "empty"
    /\ UNCHANGED <<walDisk, db, dbDisk, commitVars, replay, after, failures, crashes>>

\* The sync that ends a checkpoint.  After that of commit the staged writes go,
\* and after that of recover there are none.
SyncEmptyWal ==
    /\ pc = "empty"
    /\ walDisk' = wal /\ cut' = FALSE
    /\ IF after \in {"journal", "mark"}
       THEN /\ pc' = after
            /\ UNCHANGED commitVars
       ELSE /\ pc' = "idle"
            /\ inTransaction' = FALSE
            /\ staged' = NoWrites
            /\ UNCHANGED <<unjournalled, goal, transactions>>
    /\ after' = "idle"
    /\ UNCHANGED <<wal, db, dbDisk, replay, failures, crashes>>

-----------------------------------------------------------------------------
(* Errors, crashes, restarts. *)

\* An operation on a file throws, and so does the call it belongs to.  What
\* commit has staged and journalled stays, the marker too where its sync failed;
\* after recover nothing is open.
Fail ==
    /\ pc \notin {"idle", "down"}
    /\ pc = "seal" => SealFails
    /\ failures < MaxFailures
    /\ failures' = failures + 1
    /\ pc' = IF after = "opened" THEN "down" ELSE "idle"
    /\ after' = "idle"
    /\ unjournalled' = {}
    /\ replay' = {}
    /\ UNCHANGED <<fileVars, inTransaction, staged, goal, transactions, crashes>>

\* What a crash leaves of the journal: of the records appended since the last
\* sync any may be lost, and a truncation may not have reached the disk, nor
\* then what was appended after it.
JournalsLeft ==
    LET synced == IF cut THEN 0 ELSE Len(walDisk)
    IN  {[i \in 1 .. n |-> IF i \in lost THEN Damaged(wal[i]) ELSE wal[i]] :
            n \in synced .. Len(wal), lost \in SUBSET (synced + 1 .. Len(wal))}
            \cup (IF cut THEN {walDisk} ELSE {})

\* And of the database file: a block written since may be old, new or torn.
FilesLeft ==
    {d \in [Block -> Value \cup {Torn}] :
        \A b \in Block : d[b] \in IF db[b] = dbDisk[b] THEN {db[b]} ELSE {dbDisk[b], db[b], Torn}}

Crash ==
    /\ pc # "down"
    /\ crashes < MaxCrashes
    /\ crashes' = crashes + 1
    /\ wal' \in JournalsLeft /\ walDisk' = wal' /\ cut' = FALSE
    /\ db' \in FilesLeft /\ dbDisk' = db'
    /\ pc' = "down" /\ after' = "idle"
    /\ inTransaction' = FALSE
    /\ staged' = NoWrites
    /\ unjournalled' = {}
    /\ replay' = {}
    /\ UNCHANGED <<goal, transactions, failures>>

\* close: safeShutdown syncs both files; an unfinished journal stays as it is.
SafeShutdown ==
    /\ pc = "idle"
    /\ walDisk' = wal /\ cut' = FALSE /\ dbDisk' = db
    /\ pc' = "down"
    /\ inTransaction' = FALSE
    /\ staged' = NoWrites
    /\ UNCHANGED <<wal, db, unjournalled, goal, transactions, replay, after, failures, crashes>>

\* The database is opened; recover comes first, where it is called.
Open ==
    /\ pc = "down"
    /\ replay' = IF RecoversOnOpen /\ SizeOf(wal) <= WalSizeLimit THEN ToReplay(wal) ELSE {}
    /\ IF wal = <<>> \/ ~RecoversOnOpen
       THEN pc' = "idle" /\ UNCHANGED after
       ELSE pc' = (IF replay' = {} THEN "truncate" ELSE "copy") /\ after' = "opened"
    /\ UNCHANGED <<fileVars, commitVars, failures, crashes>>

Next ==
    \/ \E bs \in SUBSET Block : \E writes \in [bs -> Value] : Begin(writes)
    \/ \E b \in Block : LogWrite(b)
    \/ SyncWrites
    \/ AddCommitMarker
    \/ SyncMarker
    \/ Checkpoint
    \/ CopyWrite
    \/ SyncDb
    \/ TruncateWal
    \/ SyncEmptyWal
    \/ Fail
    \/ Crash
    \/ SafeShutdown
    \/ Open

Spec == Init /\ [][Next]_vars

-----------------------------------------------------------------------------
Record ==
    [type : {"WRITE"}, block : Block, value : Value, intact : BOOLEAN]
       \cup [type : {"COMMIT"}, intact : BOOLEAN]

\* The variables keep their types, and the journal its limit
\* (wal-manager.spec.mts: "keeps WAL size at or below 100 MB by auto-checkpointing").
TypeOK ==
    /\ wal \in Seq(Record) /\ walDisk \in Seq(Record)
    /\ SizeOf(wal) <= WalSizeLimit
    /\ cut \in BOOLEAN
    /\ db \in [Block -> Value \cup {Torn}] /\ dbDisk \in [Block -> Value \cup {Torn}]
    /\ inTransaction \in BOOLEAN
    /\ staged \in UNION {[bs -> Value] : bs \in SUBSET Block}
    /\ unjournalled \subseteq DOMAIN staged
    /\ replay \subseteq 1 .. Len(wal)
    /\ pc \in {"idle", "journal", "mark", "seal", "checkpoint", "copy", "truncate", "empty", "down"}
    /\ after \in {"idle", "journal", "mark", "opened"}
    /\ goal \in [Block -> Value]

\* The contents that are safe on disk, whatever happens next.
DiskContents == Copied(dbDisk, walDisk, CommittedWrites(walDisk))

\* The running commit can still take effect or not.
Undecided ==
    \/ pc \in {"journal", "mark", "seal"}
    \/ pc \in {"copy", "truncate", "empty"} /\ after \in {"journal", "mark"}

\* The sync of a commit marker failed, and the journal still holds it: what the
\* failed commit asked for may yet take effect, with the next sync or a crash.
InDoubt == pc # "seal" /\ \E m \in Marks(wal) : m > Len(walDisk)

\* What the disk may yet come to hold, in this order.
ToCome ==
    (IF InDoubt THEN <<Copied(dbDisk, wal, CommittedWrites(wal))>> ELSE <<>>)
        \o (IF Undecided THEN <<goal>> ELSE <<>>)

Store == INSTANCE AtomicStore WITH contents <- DiskContents, pending <- ToCome

\* A transaction takes effect in one step, whole, and nothing takes it back:
\* neither a crash between any two file operations, nor an error, nor another
\* crash during recovery (durability/README.md: "Transaction either fully
\* applied or not at all").  One whose last sync failed may take effect later,
\* but whole, and never over a later one.
AtomicStoreSpec == Store!Spec

\* Once commitDataToWal has returned, the whole transaction is on disk
\* (wal-manager.mts: "Commits the data to the WAL to ensure it is complete").
CommitIsDurable == pc = "checkpoint" => DiskContents = goal

\* Every staged block has its record before the marker, as it has if no
\* checkpoint emptied the journal since the commit began.
Whole == \A b \in DOMAIN staged : WriteRecord(b, staged[b]) \in {wal[i] : i \in CommittedWrites(wal)}

\* The same where checkpoints make room in the journal, for the commits that
\* none of them divided (logWrite, addCommitMarker).
WholeIsDurable == pc = "checkpoint" /\ Whole => DiskContents = goal

\* Between transactions the database file reads as what was committed, but for
\* the blocks a failed commit still holds staged: recovery leaves no torn block
\* and no uncommitted one (checkpoint, recover).
CommittedIsRead ==
    pc = "idle" => \A b \in Block \ DOMAIN staged : db[b] = DiskContents[b] /\ db[b] # Torn
=============================================================================
