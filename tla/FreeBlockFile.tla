---------------------------- MODULE FreeBlockFile ----------------------------
(***************************************************************************)
(* FreeBlockFile: blobs as chains of blocks in one file, with a free list  *)
(* threaded through the blocks not in use.  Writes and frees are staged in *)
(* memory until commit, which AtomicFile makes one step.  A block is       *)
(* [next, data, part]: what part of which blob it holds, and the block     *)
(* after it in its chain or in the free list.  Block 0 holds the header:   *)
(* its next is the head of the free list, its data the client's header.    *)
(* Callers hold the database lock, so the calls do not interleave.         *)
(* (Storage extends this module and AtomicFile together: hence the names.) *)
(***************************************************************************)
EXTENDS Integers, Sequences, SequencesExt, FiniteSetsExt

CONSTANTS
    Data,
    Big,                \* the data that takes two blocks
    Nil,                \* the data of a block of zeros
    BatchMayChange,     \* whether a caller changes a batch before it is committed
    FreesAgain,         \* whether work goes on after a failed commit that freed blobs
    LastBlock, MaxBlockFailures, MaxBlockCrashes     \* bounds of the model

ASSUME BlockAssumption == LastBlock \in Nat

VARIABLES
    blockFile,       \* the blocks of the file, from 0
    stagedWrites,    \* block -> what commit will write there
    stagedBatch,     \* the same for stagedBatchWrites, whose extents are disjoint
    pendingFrees,    \* the first blocks of the blobs to free
    header,          \* cachedFreeListHead and cachedHeaderBuf, as a block
    blobs,           \* first block -> data, as the callers see it
    saved,           \* the same as of the last commit that took effect
    abandoned,       \* blocks a commit added to the file and did not write
    halfFreed,       \* whether a failed commit freed blobs that it still has to free
    blockFailures, blockCrashes

memory == <<stagedWrites, stagedBatch, pendingFrees, header>>
counters == <<halfFreed, blockFailures, blockCrashes>>
blockVars == <<blockFile, memory, blobs, saved, abandoned, counters>>

BlockId == 0 .. LastBlock
NO_BLOCK == 0
None == [b \in {} |-> Nil]
At(b, value) == [x \in {b} |-> value]
Onto(f, g) == [b \in DOMAIN f \cup DOMAIN g |-> IF b \in DOMAIN f THEN f[b] ELSE g[b]]
Without(f, b) == [x \in DOMAIN f \ {b} |-> f[x]]
FileBlock(next, data, part) == [next |-> next, data |-> data, part |-> part]
Zeros == FileBlock(NO_BLOCK, Nil, 0)

Needed(d) == IF d \in Big THEN 2 ELSE 1

-----------------------------------------------------------------------------
(* Reading. *)

\* readRawBlock.
ReadRawBlock ==
    [b \in BlockId |->
        IF b \in DOMAIN stagedWrites THEN stagedWrites[b]
        ELSE IF b \in DOMAIN stagedBatch THEN stagedBatch[b]
        ELSE IF b \in DOMAIN blockFile THEN blockFile[b]
        ELSE Zeros]

OnFile == [b \in BlockId |-> IF b \in DOMAIN blockFile THEN blockFile[b] ELSE Zeros]

\* What read gives as the next block, n times from b on.
Walk(read, b, n) ==
    LET at[i \in 1 .. n] ==
            IF i = 1 THEN b ELSE IF at[i - 1] = NO_BLOCK THEN NO_BLOCK ELSE read[at[i - 1]].next
    IN  at

\* The first n blocks of the chain that starts at b.
ChainUpTo(read, b, n) ==
    LET at == Walk(read, b, n)
    IN  [i \in 1 .. Cardinality({k \in 1 .. n : at[k] # NO_BLOCK}) |-> at[i]]

\* The whole chain; the callers below stop at a block they have visited, and
\* a chain that comes back to one has more than LastBlock blocks here.
Chain(read, b) == ChainUpTo(read, b, LastBlock + 1)

TornData == "torn"

\* readBlob: a blob whose parts do not fit together reads as no data.
ReadBlob(read, b) ==
    LET c == Chain(read, b)
        d == read[b].data
    IN  IF d \in Data /\ Len(c) = Needed(d)
              /\ \A i \in 1 .. Len(c) : read[c[i]].data = d /\ read[c[i]].part = i
        THEN d ELSE TornData

\* getFreeBlockIds: from the cached head, over the committed blocks only.
GetFreeBlockIds == ToSet(Chain(OnFile, header.next)) \cap DOMAIN blockFile

-----------------------------------------------------------------------------
(* Allocating and writing. *)

SetMax(s) == CHOOSE x \in s : \A y \in s : y <= x

\* getMaxReservedBlockId and the block after the end of the file.
Base == 1 + SetMax({0, Cardinality(DOMAIN blockFile) - 1} \cup DOMAIN stagedWrites
                       \cup DOMAIN stagedBatch)

Fresh(n) == [i \in 1 .. n |-> Base + i - 1]

\* Mutant of Allocated: the head stays where it was.
AllocatedTwice(n) ==
    LET reused == ChainUpTo(ReadRawBlock, header.next, n)
    IN  [blocks |-> reused \o Fresh(n - Len(reused)), head |-> header.next]

\* allocateBlocks: blocks of the free list, then blocks past the end.
Allocated(n) ==
    LET reused == ChainUpTo(ReadRawBlock, header.next, n)
    IN  [blocks |-> reused \o Fresh(n - Len(reused)),
         head |-> IF reused = <<>> THEN header.next ELSE ReadRawBlock[Last(reused)].next]

WithinBound(blocks) == \A i \in 1 .. Len(blocks) : blocks[i] <= LastBlock

\* A chain of these blocks that holds d, as staged.
Linked(blocks, d) ==
    [b \in ToSet(blocks) |->
        LET i == CHOOSE i \in 1 .. Len(blocks) : blocks[i] = b
        IN  FileBlock(IF i = Len(blocks) THEN NO_BLOCK ELSE blocks[i + 1], d, i)]

\* stageHeaderBlock with this head.
WithHead(staged, head) == Onto(At(0, [header EXCEPT !.next = head]), staged)

\* A commit that failed leaves what it staged for the next one, blobs it has put
\* on the free list included, which the next one frees again.
Usable == ~halfFreed \/ FreesAgain

AllocateAndWrite(d) ==
    LET got == Allocated(Needed(d)) IN
    /\ Usable
    /\ WithinBound(got.blocks)
    /\ header' = [header EXCEPT !.next = got.head]
    /\ stagedWrites' = Onto(Linked(got.blocks, d), WithHead(stagedWrites, got.head))
    /\ blobs' = Onto(At(got.blocks[1], d), blobs)
    /\ UNCHANGED <<blockFile, stagedBatch, pendingFrees, saved, abandoned, counters>>

\* allocateAndWriteMany: never from the free list, and staged as one extent.
AllocateAndWriteMany(d, e) ==
    LET all == Fresh(Needed(d) + Needed(e))
        one == SubSeq(all, 1, Needed(d))
        two == SubSeq(all, Needed(d) + 1, Len(all))
    IN  /\ Usable
        /\ WithinBound(all)
        /\ stagedBatch' = Onto(Onto(Linked(one, d), Linked(two, e)), stagedBatch)
        /\ blobs' = Onto(Onto(At(one[1], d), At(two[1], e)), blobs)
        /\ UNCHANGED <<blockFile, stagedWrites, pendingFrees, header, saved, abandoned, counters>>

MayChange(b) == b # 0 /\ (BatchMayChange \/ b \notin DOMAIN stagedBatch)

\* The block after those that overwriteBlock keeps.
TailOf(b, kept) == ReadRawBlock[Last(kept)].next

\* overwriteBlock: the chain is cut or prolonged to what the data needs.
OverwriteBlock(b, d) ==
    LET kept == ChainUpTo(ReadRawBlock, b, Needed(d))
        tail == TailOf(b, kept)
        got == Allocated(Needed(d) - Len(kept))
        all == kept \o got.blocks
    IN  /\ Usable /\ MayChange(b)
        /\ WithinBound(all)
        /\ pendingFrees' = IF tail = NO_BLOCK THEN pendingFrees ELSE Append(pendingFrees, tail)
        /\ header' = [header EXCEPT !.next = got.head]
        /\ stagedWrites' = Onto(Linked(all, d),
                                IF got.blocks = <<>> THEN stagedWrites
                                ELSE WithHead(stagedWrites, got.head))
        /\ blobs' = [blobs EXCEPT ![b] = d]
        /\ UNCHANGED <<blockFile, stagedBatch, saved, abandoned, counters>>

FreeBlob(b) ==
    /\ Usable /\ MayChange(b)
    /\ pendingFrees' = Append(pendingFrees, b)
    /\ blobs' = Without(blobs, b)
    /\ UNCHANGED <<blockFile, stagedWrites, stagedBatch, header, saved, abandoned, counters>>

WriteHeader(d) ==
    /\ Usable
    /\ header' = [header EXCEPT !.data = d]
    /\ stagedWrites' = Onto(At(0, header'), stagedWrites)
    /\ blobs' = [blobs EXCEPT ![0] = d]
    /\ UNCHANGED <<blockFile, stagedBatch, pendingFrees, saved, abandoned, counters>>

-----------------------------------------------------------------------------
(* commit. *)

\* One round of the loops over pendingFrees and over a chain: f.current, if
\* any, becomes the head of the free list.
FreeNext(f) ==
    LET Raw(b) == IF b \in DOMAIN f.staged THEN f.staged[b] ELSE ReadRawBlock[b]
    IN  IF f.current # NO_BLOCK
        THEN [f EXCEPT !.staged = Onto(At(f.current, FileBlock(f.head, Nil, 0)), f.staged),
                       !.head = f.current,
                       !.current = Raw(f.current).next]
        ELSE IF f.todo # <<>>
        THEN [f EXCEPT !.current = Head(f.todo), !.todo = Tail(f.todo)]
        ELSE f

Rounds == 3 * (LastBlock + 1)

ToFree == [staged |-> stagedWrites, head |-> header.next, current |-> NO_BLOCK,
           todo |-> pendingFrees]

Freed ==
    LET after[n \in 0 .. Rounds] == IF n = 0 THEN ToFree ELSE FreeNext(after[n - 1])
    IN  after[Rounds]

\* What commit stages before it writes.
Prepared ==
    IF pendingFrees # <<>> \/ 0 \notin DOMAIN stagedWrites
    THEN WithHead(Freed.staged, Freed.head)
    ELSE stagedWrites

\* The file once the writes are applied, the extents of the batch last.
Written(f) == Onto(stagedBatch, Onto(Prepared, f))

\* truncate, to the last block to write.
Extended ==
    LET n == SetMax(DOMAIN blockFile \cup DOMAIN Prepared \cup DOMAIN stagedBatch)
    IN  [b \in 0 .. n |-> OnFile[b]]

NothingToCommit == stagedWrites = None /\ pendingFrees = <<>> /\ stagedBatch = None

Commit ==
    /\ Usable /\ ~NothingToCommit
    /\ blockFile' = Written(Extended)
    /\ header' = [Prepared[0] EXCEPT !.part = 0]
    /\ stagedWrites' = None /\ stagedBatch' = None /\ pendingFrees' = <<>>
    /\ saved' = blobs
    /\ abandoned' = abandoned \ (DOMAIN Prepared \cup DOMAIN stagedBatch)
    /\ halfFreed' = FALSE
    /\ UNCHANGED <<blobs, blockFailures, blockCrashes>>

\* An operation on a file fails, before truncate or after it: the blocks staged
\* are in the journal's hands, which applies all of them or none, at the latest
\* before the next commit takes effect.  What commit prepared stays staged, and
\* pendingFrees as it was.
CommitFails ==
    /\ Usable /\ ~NothingToCommit
    /\ blockFailures < MaxBlockFailures
    /\ blockFailures' = blockFailures + 1
    /\ halfFreed' = (pendingFrees # <<>>)
    /\ header' = [header EXCEPT !.next = Freed.head]
    /\ stagedWrites' = Prepared
    /\ \/ /\ blockFile' \in {blockFile, Extended}
          /\ abandoned' = abandoned \cup (DOMAIN blockFile' \ DOMAIN blockFile)
          /\ UNCHANGED saved
       \/ /\ blockFile' = Written(Extended)
          /\ saved' = blobs
          /\ UNCHANGED abandoned
    /\ UNCHANGED <<stagedBatch, pendingFrees, blobs, blockCrashes>>

\* The process ends, and the file is opened again.
CrashAndOpen ==
    /\ blockCrashes < MaxBlockCrashes
    /\ blockCrashes' = blockCrashes + 1
    /\ halfFreed' = FALSE
    /\ header' = OnFile[0]
    /\ stagedWrites' = IF blockFile = None THEN At(0, Zeros) ELSE None
    /\ stagedBatch' = None /\ pendingFrees' = <<>>
    /\ blobs' = saved
    /\ UNCHANGED <<blockFile, saved, abandoned, blockFailures>>

BlocksInit ==
    /\ blockFile = None
    /\ header = Zeros
    /\ stagedWrites = At(0, Zeros)
    /\ stagedBatch = None
    /\ pendingFrees = <<>>
    /\ blobs = At(0, Nil)
    /\ saved = At(0, Nil)
    /\ abandoned = {}
    /\ halfFreed = FALSE /\ blockFailures = 0 /\ blockCrashes = 0

BlocksNext ==
    \/ \E d \in Data : AllocateAndWrite(d)
    \/ \E d, e \in Data : AllocateAndWriteMany(d, e)
    \/ \E b \in DOMAIN blobs, d \in Data : OverwriteBlock(b, d)
    \/ \E b \in DOMAIN blobs : FreeBlob(b)
    \/ \E d \in Data \ Big : WriteHeader(d)
    \/ Commit
    \/ CommitFails
    \/ CrashAndOpen

BlocksSpec == BlocksInit /\ [][BlocksNext]_blockVars

-----------------------------------------------------------------------------
\* The chains of the blobs, of the blobs to free, and of the free list.
Chains ==
    LET Starts == ((DOMAIN blobs \ {0}) \X {"blob"}) \cup (ToSet(pendingFrees) \X {"pending"})
                      \cup (({header.next} \ {NO_BLOCK}) \X {"free"})
    IN  [s \in Starts |-> Chain(ReadRawBlock, s[1])]

\* Every block is used once, or once in the free list, or about to be freed,
\* and no block is lost but those a commit that failed had added to the file
\* (freeblockfile.mts: "Blocks are either used or part of a free list chain").
UsedOrFree ==
    ~halfFreed =>
    LET chains == Chains IN
    /\ \A s, t \in DOMAIN chains : \A i \in DOMAIN chains[s], j \in DOMAIN chains[t] :
        chains[s][i] = chains[t][j] => s = t /\ i = j
    /\ (DOMAIN blockFile \cup DOMAIN stagedWrites \cup DOMAIN stagedBatch) \ {0}
           \subseteq (UNION {ToSet(chains[s]) : s \in DOMAIN chains}) \cup abandoned

\* What the compactor takes for free blocks of the file are not used, neither
\* by what was committed nor by what is staged (getFreeBlockIds).
FreeIdsAreFree ==
    ~halfFreed =>
    LET Used == (UNION {ToSet(Chain(ReadRawBlock, s)) : s \in DOMAIN blobs \ {0}})
                    \cup (UNION {ToSet(Chain(OnFile, s)) : s \in DOMAIN saved \ {0}})
    IN  GetFreeBlockIds \cap Used = {}

\* Every blob reads as it was last written, whatever was allocated, resized,
\* freed or committed around it, or a crash took back (readBlob, readHeader).
BlobsReadBack ==
    \A b \in DOMAIN blobs :
        blobs[b] = IF b = 0 THEN header.data ELSE ReadBlob(ReadRawBlock, b)

\* The file alone gives every blob as it was last committed (freeblockfile.mts:
\* "Commit all staged writes plus any queued frees to the underlying file").
SavedIsOnFile ==
    \A b \in DOMAIN saved :
        saved[b] = IF b = 0 THEN OnFile[0].data ELSE ReadBlob(OnFile, b)

\* Every block is used once or free, those reported as free are, and blobs read
\* as they were written, from memory and from the file (allocateBlocks,
\* getFreeBlockIds, readBlob, commit).
BlobsAreKept == UsedOrFree /\ FreeIdsAreFree /\ BlobsReadBack /\ SavedIsOnFile
=============================================================================
