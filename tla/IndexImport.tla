----------------------------- MODULE IndexImport -----------------------------
(***************************************************************************)
(* Collecting the entries of a secondary index in parallel with an import: *)
(* a worker thread makes an entry of each document and sends them back in  *)
(* sorted batches (index-builder-worker), the main thread keeps the        *)
(* batches in memory and writes them to sorted chunk files when there are  *)
(* many or memory is short (ParallelIndexBuilder, DiskBackedIndexStorage), *)
(* and at the end merges the files, in as many passes as the number of     *)
(* open files or the memory allows.  An entry is its key, a number; the    *)
(* order of the keys is that of the field, then that of the documents.     *)
(***************************************************************************)
EXTENDS Integers, Sequences, FiniteSets, SequencesExt

CONSTANTS
    Value,              \* the values of the field, from 1 on
    MaxDocs,            \* how many documents are imported; a bound of the model
    BATCH_SIZE,
    BATCH_SIZE_FOR_DISK,
    MAX_CONCURRENT_CHUNKS,
    Overlaps,           \* whether a batch may arrive while one is being written
    ClosesEarly         \* whether a reader may be found closed before the end of
                        \* its file (readline, when it is to go on)

VARIABLES
    sent,       \* the keys of the documents sent to the worker
    inbox,      \* messages for the worker: keys, Missing, or FINALIZE
    batch,      \* what the worker has collected
    outbox,     \* its messages: [type, entries]
    storage,    \* the storage: [entries, chunkFiles, chunkIndex]
    writing,    \* the flushes that wait for their file to be written
    disk,       \* the files: names with the keys they hold
    phase,      \* "sending", "waiting", "done", "merging", "yielded" or
                \* "failed", "cleaned"; or "leftOut": the field gets no index
    merge,      \* the passes: [files, next, pass, alone], alone being by twos
    yielded     \* the keys handed to the tree builder

vars == <<sent, inbox, batch, outbox, storage, writing, disk, phase, merge, yielded>>
Worker == <<sent, inbox, batch>>

Sorted(s) == SortSeq(s, LAMBDA a, b : a < b)

Missing == 0
FINALIZE == -1

\* The value of the field, then the id of the document.
KeyOf(value, doc) == value * (MaxDocs + 1) + doc

-----------------------------------------------------------------------------
(* The worker. *)

SendDocument ==
    /\ phase = "sending"
    /\ Len(sent) < MaxDocs
    /\ \E key \in {Missing} \cup {KeyOf(v, Len(sent) + 1) : v \in Value} :
          sent' = Append(sent, key) /\ inbox' = Append(inbox, key)
    /\ UNCHANGED <<batch, outbox, storage, writing, disk, phase, merge, yielded>>

Message(type, entries) == [type |-> type, entries |-> entries]

ProcessDocument ==
    /\ inbox # <<>> /\ Head(inbox) # FINALIZE
    /\ inbox' = Tail(inbox)
    /\ LET all == IF Head(inbox) = Missing THEN batch ELSE Append(batch, Head(inbox))
       IN  IF Head(inbox) # Missing /\ Len(all) >= BATCH_SIZE
           THEN batch' = <<>> /\ outbox' = Append(outbox, Message("batch", Sorted(all)))
           ELSE batch' = all /\ UNCHANGED outbox
    /\ UNCHANGED <<sent, storage, writing, disk, phase, merge, yielded>>

Finalize ==
    /\ phase = "sending"
    /\ phase' = "waiting"
    /\ inbox' = Append(inbox, FINALIZE)
    /\ UNCHANGED <<sent, batch, outbox, storage, writing, disk, merge, yielded>>

FinalizeWorker ==
    /\ inbox # <<>> /\ Head(inbox) = FINALIZE
    /\ inbox' = Tail(inbox)
    /\ outbox' = Append(outbox, Message("done", Sorted(batch)))
    /\ UNCHANGED <<sent, batch, storage, writing, disk, phase, merge, yielded>>

-----------------------------------------------------------------------------
(* The storage of the main thread. *)

File(kind, pass, n) == <<kind, pass, n>>

\* flushToDisk, up to its await: the file that is written, and for whom.
Flushing(st, type) ==
    [file |-> File("chunk", 0, st.chunkIndex), keys |-> Sorted(st.entries), type |-> type]
Flush(st, type) ==
    /\ storage' = [st EXCEPT !.entries = Sorted(@), !.chunkIndex = @ + 1]
    /\ writing' = writing \cup {Flushing(st, type)}

\* A message: its entries are added, and flushed if they are many or memory is
\* short; the last message resolves the promise once they are stored.
Receive ==
    /\ outbox # <<>> /\ phase \in {"sending", "waiting"}
    /\ ~Overlaps => writing = {}
    /\ outbox' = Tail(outbox)
    /\ LET type == Head(outbox).type
           st == [storage EXCEPT !.entries = @ \o Head(outbox).entries]
       IN  \/ /\ st.entries # <<>>
              /\ Head(outbox).entries # <<>> \/ type = "batch"
              /\ Flush(st, type)
              /\ UNCHANGED phase
           \/ /\ Len(st.entries) < BATCH_SIZE_FOR_DISK \/ Head(outbox).entries = <<>>
              /\ storage' = st
              /\ phase' = IF type = "done" THEN "done" ELSE phase
              /\ UNCHANGED writing
    /\ UNCHANGED <<Worker, disk, merge, yielded>>

\* flushToDisk, from its await on.
Flushed(st, f) == [st EXCEPT !.chunkFiles = Append(@, f.file), !.entries = <<>>]

Written(f) ==
    /\ f \in writing
    /\ writing' = writing \ {f}
    /\ disk' = disk \cup {[name |-> f.file, keys |-> f.keys]}
    /\ storage' = Flushed(storage, f)
    /\ phase' = IF f.type = "done" THEN "done" ELSE phase
    /\ UNCHANGED <<Worker, outbox, merge, yielded>>

\* The file may be there in part.  The promise of the field is rejected, and
\* finalize leaves the field out: nobody cleans up after it.  If it was the
\* file of what was in memory at the end, the index is given up.
WriteFails(f) ==
    /\ f \in writing
    /\ writing' = writing \ {f}
    /\ \/ UNCHANGED disk
       \/ disk' = disk \cup {[name |-> f.file, keys |-> <<>>]}
    /\ phase' = IF f.type = "rest" THEN "failed"
                ELSE IF phase \in {"sending", "waiting"} THEN "leftOut" ELSE phase
    /\ UNCHANGED <<Worker, outbox, storage, merge, yielded>>

-----------------------------------------------------------------------------
(* mergeChunkFiles: a heap holds the next entry of every file. *)

RECURSIVE SiftUp(_, _), SiftDown(_, _), MergeFrom(_, _)

SiftUp(heap, i) ==
    LET parent == i \div 2
    IN  IF i = 1 \/ heap[parent].key <= heap[i].key THEN heap
        ELSE SiftUp([heap EXCEPT ![parent] = heap[i], ![i] = heap[parent]], parent)

\* Mutant of Smallest: the child on the right is not looked at.
SmallestOfTwo(heap, i) ==
    IF 2 * i <= Len(heap) /\ heap[2 * i].key < heap[i].key THEN 2 * i ELSE i

\* Of an item of the heap and its children, the one with the smallest key.
Smallest(heap, i) ==
    LET Family == {i, 2 * i, 2 * i + 1} \cap DOMAIN heap
        Least == {k \in Family : \A l \in Family : heap[k].key <= heap[l].key}
    IN  CHOOSE k \in Least : \A l \in Least : k <= l

SiftDown(heap, i) ==
    LET k == Smallest(heap, i)
    IN  IF k = i THEN heap ELSE SiftDown([heap EXCEPT ![k] = heap[i], ![i] = heap[k]], k)

HeapPush(heap, item) == SiftUp(Append(heap, item), Len(heap) + 1)
HeapPop(heap) ==
    IF Len(heap) = 1 THEN <<>>
    ELSE SiftDown([Front(heap) EXCEPT ![1] = Last(heap)], 1)

Item(key, reader) == [key |-> key, readerIndex |-> reader]
Refill(heap, rests, r) ==
    IF rests[r] = <<>> THEN heap ELSE HeapPush(heap, Item(Head(rests[r]), r))
MergeFrom(heap, rests) ==
    IF heap = <<>> THEN <<>>
    ELSE LET r == heap[1].readerIndex
         IN  <<heap[1].key>> \o
             MergeFrom(Refill(HeapPop(heap), rests, r),
                       [rests EXCEPT ![r] = IF @ = <<>> THEN @ ELSE Tail(@)])

Contents(file) == (CHOOSE f \in disk : f.name = file).keys

\* What a merge may read of its files: ERR_USE_AFTER_CLOSE is taken for the end
\* of a file, whatever was still to come.
Read(files) ==
    LET contents == [r \in DOMAIN files |-> Contents(files[r])]
        Until == {k \in [DOMAIN files -> 1 .. MaxDocs] :
                     \A r \in DOMAIN files : k[r] <= Len(contents[r])}
    IN  IF ClosesEarly
        THEN {[r \in DOMAIN files |-> SubSeq(contents[r], 1, k[r])] : k \in Until}
        ELSE {contents}

MergeChunkFiles(contents) ==
    LET Primed == FoldLeft(LAMBDA heap, r : Refill(heap, contents, r),
                           <<>>, [r \in DOMAIN contents |-> r])
    IN  MergeFrom(Primed, [r \in DOMAIN contents |-> Tail(contents[r])])

-----------------------------------------------------------------------------
(* iterateSortedEntries: what is in memory is flushed, and the files are    *)
(* merged by twos if memory is short, by MAX_CONCURRENT_CHUNKS otherwise,   *)
(* until few enough are left to be read together.                           *)

FlushRest ==
    /\ phase = "done" /\ storage.entries # <<>> /\ \A f \in writing : f.type # "rest"
    /\ Flush(storage, "rest")
    /\ UNCHANGED <<Worker, outbox, disk, phase, merge, yielded>>

StartMerge ==
    /\ phase = "done" /\ storage.entries = <<>> /\ \A f \in writing : f.type # "rest"
    /\ phase' = "merging"
    /\ \E alone \in BOOLEAN :
          merge' = [files |-> storage.chunkFiles, next |-> <<>>, pass |-> 1, alone |-> alone]
    /\ UNCHANGED <<Worker, outbox, storage, writing, disk, yielded>>

Removed(files) == {f \in disk : f.name \notin ToSet(files)}

GroupSize == IF merge.alone THEN 2 ELSE MAX_CONCURRENT_CHUNKS
FewEnough == IF merge.alone THEN 1 ELSE MAX_CONCURRENT_CHUNKS
MergedFile == File(IF merge.alone THEN "seq" ELSE "intermediate", merge.pass, Len(merge.next))

InPass == phase = "merging" /\ (Len(merge.files) > FewEnough \/ merge.next # <<>>)

\* One group of a pass.  A file that is left alone in a merge by twos is kept.
MergeGroup ==
    /\ InPass /\ merge.files # <<>>
    /\ LET n == IF GroupSize < Len(merge.files) THEN GroupSize ELSE Len(merge.files)
           group == SubSeq(merge.files, 1, n)
           kept == merge.alone /\ n = 1
       IN  /\ merge' = [merge EXCEPT
                          !.files = SubSeq(@, n + 1, Len(@)),
                          !.next = Append(@, IF kept THEN group[1] ELSE MergedFile)]
           /\ IF kept THEN UNCHANGED disk
              ELSE \E contents \in Read(group) :
                       disk' = Removed(group) \cup
                                   {[name |-> MergedFile, keys |-> MergeChunkFiles(contents)]}
    /\ UNCHANGED <<Worker, outbox, storage, writing, phase, yielded>>

NextPass ==
    /\ InPass /\ merge.files = <<>>
    /\ merge' = [merge EXCEPT !.files = merge.next, !.next = <<>>, !.pass = @ + 1]
    /\ UNCHANGED <<Worker, outbox, storage, writing, disk, phase, yielded>>

\* The last files are read together, one that is alone to its end; the files of
\* a merge are then removed.
YieldAll ==
    /\ phase = "merging" /\ ~InPass
    /\ yielded' \in IF Len(merge.files) = 1 THEN {Contents(merge.files[1])}
                    ELSE {MergeChunkFiles(contents) : contents \in Read(merge.files)}
    /\ phase' = "yielded"
    /\ disk' = IF Len(storage.chunkFiles) > 1 THEN Removed(merge.files) ELSE disk
    /\ UNCHANGED <<Worker, outbox, storage, writing, merge>>

\* The hard memory limit is exceeded, or the tree builder fails: files may be
\* half written, and the index is given up.
MergeFails ==
    /\ phase = "merging"
    /\ \/ /\ InPass /\ merge.files # <<>>
          /\ disk' = disk \cup {[name |-> MergedFile, keys |-> <<>>]}
       \/ ~InPass /\ UNCHANGED disk
    /\ phase' = "failed"
    /\ UNCHANGED <<Worker, outbox, storage, writing, merge, yielded>>

\* The files that cleanup finds: the chunk files it knows, and those whose
\* names are of a merge.
OfThisImport(f) == f.name \in ToSet(storage.chunkFiles) \/ f.name[1] \in {"intermediate", "seq"}

Cleanup ==
    /\ phase \in {"yielded", "failed"}
    /\ disk' = {f \in disk : ~OfThisImport(f)}
    /\ storage' = [storage EXCEPT !.chunkFiles = <<>>]
    /\ phase' = "cleaned"
    /\ UNCHANGED <<Worker, outbox, writing, merge, yielded>>

-----------------------------------------------------------------------------
Init ==
    /\ sent = <<>> /\ inbox = <<>> /\ batch = <<>> /\ outbox = <<>>
    /\ storage = [entries |-> <<>>, chunkFiles |-> <<>>, chunkIndex |-> 0]
    /\ writing = {} /\ disk = {}
    /\ phase = "sending"
    /\ merge = [files |-> <<>>, next |-> <<>>, pass |-> 0, alone |-> FALSE]
    /\ yielded = <<>>

Next ==
    \/ SendDocument \/ ProcessDocument \/ Finalize \/ FinalizeWorker \/ Receive
    \/ \E f \in writing : Written(f) \/ WriteFails(f)
    \/ FlushRest \/ StartMerge \/ MergeGroup \/ NextPass \/ YieldAll \/ MergeFails \/ Cleanup

Spec == Init /\ [][Next]_vars

-----------------------------------------------------------------------------
\* The tree builder gets the entry of every document that has the field, once,
\* in order, however the entries were spread over batches, chunk files and
\* passes (getSorted: "All entries sorted").  It holds if batches come one at
\* a time and readers go on to the end of their files (~Overlaps, ~ClosesEarly).
AllSorted ==
    phase = "yielded" =>
        yielded = Sorted(SelectSeq(sent, LAMBDA key : key # Missing))

\* Once cleaned up, whether the index was built or given up, no file of the
\* import stays but one whose writing failed.  It says nothing of a field that
\* was left out before: its files do stay.
NothingLeft == phase = "cleaned" => \A f \in disk : f.name[1] = "chunk" /\ f.keys = <<>>
=============================================================================
