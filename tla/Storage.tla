------------------------------- MODULE Storage -------------------------------
(***************************************************************************)
(* The files of a database and what is built on them: the journalled file  *)
(* (AtomicFile), in one setting with transactions of several blocks and in *)
(* one with a journal that fills up; the blocks and blobs over it          *)
(* (FreeBlockFile); the B+ tree over its node storage (BPlusTree) and its  *)
(* building from sorted entries (BulkLoad); the shrinking of a file        *)
(* (Shrink) and the swap that follows it (CompactionSwap).  They share no  *)
(* variable and are checked side by side: a behaviour runs one of them;    *)
(* the others stay as they start.                                          *)
(***************************************************************************)
EXTENDS AtomicFile, FreeBlockFile

CONSTANTS
    FullBlock, FullValue, FullLimit,                    \* of AtomicFile's other setting
    FullSealFails, FullTransactions, FullFailures,
    MaxKey, Order, Loaded, ReadsFirst, AbortsSplits,    \* of BPlusTree
    ReopensBatches, MaxReopens, TreeTransactions,
    Orders, Extra,                                      \* of BulkLoad
    MaxBlock, SeparateHeap, HeapBlock,                  \* of Shrink
    PowerLoss,                                          \* of CompactionSwap
    FewCrashes

VARIABLES
    part,
    fullWal, fullWalDisk, fullCut, fullDb, fullDbDisk, fullInTransaction, fullStaged,
    fullUnjournalled, fullReplay, fullPc, fullAfter, fullGoal, fullTransactions, fullFailures, fullCrashes,
    s, contents, treeBefore, reopens, treeTransactions,
    order, leaves, queues,
    file, phase, keep, before,
    version, temps, marker, swapTask, swapCrashes

Full ==
    INSTANCE AtomicFile WITH
        Block <- FullBlock, Value <- FullValue, WalSizeLimit <- FullLimit,
        SealFails <- FullSealFails,
        MaxTransactions <- FullTransactions, MaxFailures <- FullFailures,
        wal <- fullWal, walDisk <- fullWalDisk, cut <- fullCut, db <- fullDb, dbDisk <- fullDbDisk,
        inTransaction <- fullInTransaction, staged <- fullStaged,
        unjournalled <- fullUnjournalled, replay <- fullReplay, pc <- fullPc,
        after <- fullAfter, goal <- fullGoal, transactions <- fullTransactions,
        failures <- fullFailures, crashes <- fullCrashes
Tree ==
    INSTANCE BPlusTree WITH
        MaxTransactions <- TreeTransactions,
        before <- treeBefore, transactions <- treeTransactions
Bulk == INSTANCE BulkLoad
Compactor == INSTANCE Shrink
Swap ==
    INSTANCE CompactionSwap WITH
        MaxCrashes <- FewCrashes, task <- swapTask, crashes <- swapCrashes

fullVars == <<fullWal, fullWalDisk, fullCut, fullDb, fullDbDisk, fullInTransaction, fullStaged,
              fullUnjournalled, fullReplay, fullPc, fullAfter, fullGoal, fullTransactions,
              fullFailures, fullCrashes>>
treeVars == <<s, contents, treeBefore, reopens, treeTransactions>>
bulkVars == <<order, leaves, queues>>
shrinkVars == <<file, phase, keep, before>>
swapVars == <<version, temps, marker, swapTask, swapCrashes>>
storageVars == <<part, vars, fullVars, blockVars, treeVars, bulkVars, shrinkVars, swapVars>>

\* The building of a tree and the shrinking of a file have several beginnings.
StorageInit ==
    /\ part \in {"journal", "full journal", "blocks", "tree", "bulk", "shrink", "swap"}
    /\ Init /\ Full!Init /\ BlocksInit /\ Tree!Init /\ Swap!Init
    /\ IF part = "bulk" THEN Bulk!Init
       ELSE order = 0 /\ leaves = 0 /\ queues = <<>>
    /\ IF part = "shrink" THEN Compactor!Init
       ELSE file = <<>> /\ phase = "open" /\ keep = 0 /\ before = {}

OfJournal ==
    /\ part = "journal" /\ Next
    /\ UNCHANGED <<part, fullVars, blockVars, treeVars, bulkVars, shrinkVars, swapVars>>
OfFullJournal ==
    /\ part = "full journal" /\ Full!Next
    /\ UNCHANGED <<part, vars, blockVars, treeVars, bulkVars, shrinkVars, swapVars>>
OfBlocks ==
    /\ part = "blocks" /\ BlocksNext
    /\ UNCHANGED <<part, vars, fullVars, treeVars, bulkVars, shrinkVars, swapVars>>
OfTree ==
    /\ part = "tree" /\ Tree!Next
    /\ UNCHANGED <<part, vars, fullVars, blockVars, bulkVars, shrinkVars, swapVars>>
OfBulk ==
    /\ part = "bulk" /\ Bulk!Next
    /\ UNCHANGED <<part, vars, fullVars, blockVars, treeVars, shrinkVars, swapVars>>
OfShrink ==
    /\ part = "shrink" /\ Compactor!Next
    /\ UNCHANGED <<part, vars, fullVars, blockVars, treeVars, bulkVars, swapVars>>
OfSwap ==
    /\ part = "swap" /\ Swap!Next
    /\ UNCHANGED <<part, vars, fullVars, blockVars, treeVars, bulkVars, shrinkVars>>

StorageNext ==
    OfJournal \/ OfFullJournal \/ OfBlocks \/ OfTree \/ OfBulk \/ OfShrink \/ OfSwap

StorageSpec == StorageInit /\ [][StorageNext]_storageVars

-----------------------------------------------------------------------------
(* The properties of the parts; those of AtomicFile and of FreeBlockFile *)
(* keep their names.                                                        *)

\* With a journal that fills up, at a record, at a marker and in the middle of a
\* transaction: a commit that no checkpoint divided is on disk when it returns,
\* what is committed is read, and the journal keeps its limit (AtomicFile,
\* logWrite, addCommitMarker and checkpoint).
FullJournalIsSafe ==
    part = "full journal" => Full!WholeIsDurable /\ Full!CommittedIsRead /\ Full!TypeOK

\* A search finds what is in the tree, scans see every key once and in order, a
\* process that starts now reads the same tree, and no operation throws
\* (BPlusTree, NodeStorage); a bulk-loaded tree finds its entries (BulkLoad,
\* fromSortedStream).
TreeHoldsContents ==
    /\ part = "tree" =>
          /\ Tree!SearchFinds /\ Tree!ScansSeeAll
          /\ Tree!BlocksHoldTree /\ Tree!NothingFails
    /\ part = "bulk" => Bulk!EveryLeafReached

\* A shrunk database reads as before and has no free block (Shrink,
\* shrinkDatabase).
ContentsKept == part = "shrink" => Compactor!ContentsKept /\ Compactor!NothingFree

\* Index and documents are swapped together (CompactionSwap).
OneDatabase == part = "swap" => Swap!OneDatabase
=============================================================================
