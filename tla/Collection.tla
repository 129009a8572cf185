------------------------------ MODULE Collection ------------------------------
(***************************************************************************)
(* A collection of the database engine, and the engine under it: documents *)
(* are blobs of the heap file, the primary tree maps an id to its first    *)
(* block, and a secondary tree holds <<value, id, block>> for the one      *)
(* field the model has.  The trees and the header live in the index file.  *)
(* Each file commits on its own, the index file in the middle of most      *)
(* operations, so an operation is given by the states it goes through: it  *)
(* completes, fails after one of them, or the process ends at one of them. *)
(* The database lock keeps the operations apart.  (Database extends this   *)
(* module and Accounts together: hence the names in Engine.)               *)
(***************************************************************************)
EXTENDS Integers, Sequences, FiniteSets, FiniteSetsExt, TLC

CONSTANTS
    DocId,
    Value,              \* the numbers the field takes
    NullValue, Absent,       \* a field that is null, and one the document has not
    Content,            \* what the field of a document may hold
    MaxBlock,           \* blocks of the heap
    MaxCrashes, MaxFailures, MaxWrites,     \* bounds of the model
    GoesOn,             \* whether operations follow a crash
    ReopensStale        \* whether the database is opened again while the
                        \* header lists an index that was not maintained

ASSUME EngineAssumption ==
    /\ MaxBlock \in Nat /\ Value \subseteq Int
    /\ NullValue \notin Value /\ Absent \notin Value

VARIABLES
    store,         \* the collection in memory and the two files
    docs,       \* id -> field, for the documents whose last write was answered
    settled,    \* the same, as of the last commit and not written since
    unsure,     \* ids with a write that failed or was cut off
    crashes, failures, writes

engineVars == <<store, docs, settled, unsure, crashes, failures, writes>>

Empty == <<>>
Block == 1 .. MaxBlock
NoDocs == [i \in {} |-> Absent]
NoTree == 0             \* its contents are always {}
Tree == 1 .. 3

Without(f, s) == [i \in DOMAIN f \ s |-> f[i]]
Put(f, i, v) == [j \in DOMAIN f \cup {i} |-> IF j = i THEN v ELSE f[j]]

-----------------------------------------------------------------------------
(* The two files: of the store s, s.disk is the index file and s.saved the  *)
(* heap file, as last committed.  A blob that was freed is read until the   *)
(* heap commits.                                                            *)

NotInTransaction == [on |-> FALSE, prim |-> {}, tree |-> NoTree, keys |-> {}]

Fresh ==
    [heap |-> [b \in Block |-> Empty], pending |-> {},
     prim |-> {}, trees |-> [t \in {NoTree} \cup Tree |-> {}],
     attached |-> NoTree,       \* the tree Collection.indexes holds
     listed |-> NoTree,         \* the tree the header lists
     idLast |-> FALSE,          \* the order of Collection.indexes
     auto |-> TRUE, deferred |-> FALSE,
     count |-> 0, first |-> TRUE,
     txn |-> NotInTransaction,
     disk |-> [prim |-> {}, listed |-> NoTree, keys |-> {}],
     saved |-> [b \in Block |-> Empty]]

\* A commit of the index file: a tree in a transaction keeps its changes in
\* memory until commitTransaction.
Flush(s) ==
    [s EXCEPT !.disk =
        [prim |-> IF s.txn.on THEN s.txn.prim ELSE s.prim,
         listed |-> s.listed,
         keys |-> IF s.txn.on /\ s.listed = s.txn.tree THEN s.txn.keys ELSE s.trees[s.listed]]]

CommitHeap(s) ==
    LET now == [b \in Block |-> IF b \in s.pending THEN Empty ELSE s.heap[b]]
    IN  [s EXCEPT !.heap = now, !.pending = {}, !.saved = now]

\* Mutant of CommitSteps: the index file only.
CommitStepsIndexOnly(s) == <<Flush(s)>>

\* SimpleDBMS.commit: the heap first.
CommitSteps(s) == <<CommitHeap(s), Flush(CommitHeap(s))>>

\* SimpleDBMS.open and getCollection: the number of documents is not read.
Opened(s) ==
    [Fresh EXCEPT !.heap = s.saved, !.saved = s.saved,
                  !.prim = s.disk.prim, !.trees[s.disk.listed] = s.disk.keys,
                  !.attached = s.disk.listed, !.listed = s.disk.listed,
                  !.idLast = s.disk.listed # NoTree,
                  !.disk = s.disk]

-----------------------------------------------------------------------------
(* The parts of the operations. *)

FreeBlocks(s) == {b \in Block : s.heap[b] = Empty}

NextBlock(s) == Min(FreeBlocks(s))

AllocateAndWrite(s, i, v) == [s EXCEPT !.heap[NextBlock(s)] = <<i, v>>]

\* search in the primary tree.
BlockOf(s, i) == CHOOSE b \in Block : <<i, b>> \in s.prim
Has(s, i) == \E b \in Block : <<i, b>> \in s.prim

\* findById.
FindById(s, i) == IF Has(s, i) THEN s.heap[BlockOf(s, i)] ELSE Empty

WithEntry(s, i, b) == [s EXCEPT !.prim = @ \cup {<<i, b>>}]
WithKey(s, v, i, b) ==
    IF s.attached # NoTree /\ v \in Value
    THEN [s EXCEPT !.trees[s.attached] = @ \cup {<<v, i, b>>}]
    ELSE s
WithoutKey(s, v, i) ==
    IF s.attached # NoTree
    THEN [s EXCEPT !.trees[s.attached] = {e \in @ : <<e[1], e[2]>> # <<v, i>>}]
    ELSE s

\* The loop of insert over this.indexes.
InEveryIndex(s, i, v, b) ==
    IF s.idLast
    THEN <<WithKey(s, v, i, b), WithEntry(WithKey(s, v, i, b), i, b)>>
    ELSE <<WithEntry(s, i, b), WithKey(WithEntry(s, i, b), v, i, b)>>

\* collectSortedIndexEntries: read through the primary tree.
IndexEntries(s) ==
    {<<s.heap[e[2]][2], e[1], e[2]>> :
        e \in {x \in s.prim : s.heap[x[2]] # Empty /\ s.heap[x[2]][2] \in Value}}

NewTree(s) == Min(Tree \ {s.attached, s.listed})

\* A tree that nothing points at is not looked at again.
Forget(s) == [s EXCEPT !.trees = [t \in DOMAIN @ |->
                                     IF t \in {s.attached, s.listed} THEN @[t] ELSE {}]]

\* createIndex: built, committed, then among this.indexes.
CreateIndexSteps(s) ==
    LET t == NewTree(s)
        built == [s EXCEPT !.trees[t] = IndexEntries(s)]
    IN  <<built, Flush(built), [Flush(built) EXCEPT !.attached = t]>>

\* persistCreatedIndexesMetadata and saveIndexMetadata.
Listed(s) == Forget(Flush([s EXCEPT !.listed = s.attached]))

\* Whether a document with these fields needs an index that is not there.
Missing(s, vs) == s.attached = NoTree /\ vs \cap Value # {}

\* The end of insert and insertMany: the count, and a commit of the header.
Counted(s, n) == Flush([s EXCEPT !.count = @ + n])

-----------------------------------------------------------------------------
(* The operations, each as the states it goes through. *)

IndexIfMissing(s, vs) ==
    IF ~Missing(s, vs) THEN <<s>>
    ELSE IF s.auto
    THEN LET made == CreateIndexSteps(s) IN made \o <<Listed(made[Len(made)])>>
    ELSE <<[s EXCEPT !.deferred = TRUE]>>

InsertSteps(s, i, v) ==
    LET written == AllocateAndWrite(s, i, v)
        added == InEveryIndex(written, i, v, NextBlock(s))
        indexed == IndexIfMissing(added[2], {v})
    IN  <<written>> \o added \o indexed \o <<Counted(indexed[Len(indexed)], 1)>>

\* beginTransaction on every tree.
Begun(s) ==
    [s EXCEPT !.txn = [on |-> TRUE, prim |-> s.prim, tree |-> s.attached,
                       keys |-> s.trees[s.attached]]]

\* abortTransaction on the same trees; an index created since stays.
Aborted(s) ==
    IF s.txn.on
    THEN [s EXCEPT !.prim = s.txn.prim,
                   !.trees = [t \in DOMAIN @ |-> IF t = s.txn.tree THEN s.txn.keys ELSE @[t]],
                   !.txn = NotInTransaction]
    ELSE s

\* insertMany, with a document in each of i and j.
InsertManySteps(s, i, v, j, w) ==
    LET one == AllocateAndWrite(s, i, v)
        two == AllocateAndWrite(one, j, w)
        began == Begun(IF Missing(s, {v, w}) /\ ~s.auto THEN [two EXCEPT !.deferred = TRUE] ELSE two)
        addI == InEveryIndex(began, i, v, NextBlock(s))
        addJ == InEveryIndex(addI[2], j, w, NextBlock(one))
        indexed == IF s.auto THEN IndexIfMissing(addJ[2], {v, w}) ELSE <<addJ[2]>>
        ended == [indexed[Len(indexed)] EXCEPT !.txn = NotInTransaction]
    IN  <<one, began>> \o addI \o addJ \o indexed \o <<ended, Flush(ended), Counted(Flush(ended), 2)>>

\* update: the entries of the index, then the document in its block.
UpdateSteps(s, i, v) ==
    LET b == BlockOf(s, i)
        old == s.heap[b][2]
        removed == IF old # v THEN WithoutKey(s, old, i) ELSE s
        added == IF old # v THEN WithKey(removed, v, i, b) ELSE removed
    IN  <<removed, added, [added EXCEPT !.heap[b] = <<i, v>>]>>

\* delete.
DeleteSteps(s, i) ==
    LET b == BlockOf(s, i)
        unkeyed == WithoutKey(s, s.heap[b][2], i)
        gone == [unkeyed EXCEPT !.prim = {e \in @ : e[1] # i}]
        freed == [gone EXCEPT !.pending = @ \cup {b}]
    IN  <<unkeyed, gone, freed, Counted(freed, IF s.count > 0 THEN -1 ELSE 0)>>

\* dropIndex, and removeIndexMetadata.
DropIndexSteps(s) ==
    LET dropped == [s EXCEPT !.attached = NoTree, !.idLast = FALSE]
    IN  <<dropped, Forget(Flush([dropped EXCEPT !.listed = NoTree]))>>

\* buildMissingSecondaryIndexes.
BuildMissingSteps(s) ==
    LET t == NewTree(s)
        built == [s EXCEPT !.trees[t] = IndexEntries(s), !.attached = t]
        flushed == [Flush(built) EXCEPT !.deferred = FALSE]
    IN  <<built, flushed, Listed(flushed)>>

\* buildSecondaryIndexesFromSortedEntries; flushBuiltIndexField takes the tree
\* out of this.indexes once it is on file.
BuildFromEntriesSteps(s) ==
    LET t == NewTree(s)
        built == [s EXCEPT !.trees[t] = IndexEntries(s), !.attached = t]
        flushed == Listed(built)
    IN  <<built, flushed, [flushed EXCEPT !.attached = NoTree]>>

\* compactDatabase: every document into new files (no two share a block).
\* createIndex makes the index there, and nothing lists it in the header.
CompactSteps(s) ==
    LET kept == {e \in s.prim : s.heap[e[2]] # Empty}
        Place(e) == Cardinality({x \in kept : x[2] <= e[2]})
        new == [Fresh EXCEPT
                    !.prim = {<<e[1], Place(e)>> : e \in kept},
                    !.heap = [b \in Block |->
                        IF b <= Cardinality(kept)
                        THEN s.heap[(CHOOSE e \in kept : Place(e) = b)[2]] ELSE Empty]]
    IN  <<Opened(Flush(CommitHeap(new)))>>

\* countDocuments counts once, then trusts the count it keeps.
CountSteps(s) ==
    LET found == Cardinality({e \in s.prim : s.heap[e[2]] # Empty})
    IN  <<IF s.first THEN [s EXCEPT !.first = FALSE, !.count = found] ELSE s>>

-----------------------------------------------------------------------------
(* find, with one condition on the field.                                   *)

Query == [op : {"eq", "ne", "gt", "gte", "lt", "lte"}, arg : Value]

Holds(op, v, x) ==
    CASE op = "eq" -> v = x [] op = "ne" -> v # x
      [] op = "gt" -> v > x [] op = "gte" -> v >= x
      [] op = "lt" -> v < x [] op = "lte" -> v <= x

\* The tests that find makes on a document: null passes a comparison.
Passes(q, v) ==
    IF v = NullValue /\ q.op \notin {"eq", "ne"} THEN TRUE
    ELSE IF v \notin Value THEN q.op = "ne"
    ELSE Holds(q.op, v, q.arg)

\* serializeFieldValue: keys compare as strings, the sign first, and "+" comes
\* before "-".
KeyRank(v) ==
    IF v < 0 THEN Max({IF x < 0 THEN -x ELSE x : x \in Value}) + 1 - v ELSE v

\* The range of keys that collectInitialPointers reads.
InRange(q, v) ==
    CASE q.op = "eq" -> KeyRank(v) = KeyRank(q.arg)
      [] q.op \in {"gt", "gte"} -> KeyRank(v) >= KeyRank(q.arg)
      [] q.op \in {"lt", "lte"} -> KeyRank(v) <= KeyRank(q.arg)

\* Mutant of Candidates: the tree that the header lists.
CandidatesListed(s, q) == {e[3] : e \in {x \in s.trees[s.listed] : InRange(q, x[1])}}

\* applyFilterOps.
Candidates(s, q) == {e[3] : e \in {x \in s.trees[s.attached] : InRange(q, x[1])}}

\* find: the candidates of the index if they are few, else the primary tree,
\* of whose documents only the candidates count; the condition is tested again.
Find(s, q) ==
    LET usesIndex == s.attached # NoTree /\ q.op # "ne"
        candidates == IF usesIndex THEN Candidates(s, q) ELSE {}
        few == 2 * Cardinality(candidates) <= Max({1, s.count})
        primary == {e[2] : e \in s.prim}
        read == IF ~usesIndex THEN primary
                ELSE IF few THEN candidates
                ELSE primary \cap candidates
    IN  {s.heap[b] : b \in {x \in read : s.heap[x] # Empty /\ Passes(q, s.heap[x][2])}}

-----------------------------------------------------------------------------
(* The actions. *)

Stale == store.listed \notin {NoTree, store.attached}

\* The process ends and the database is opened again: what is known then is
\* what was settled, but for these ids.
CrashAt(s, ids) ==
    /\ crashes < MaxCrashes /\ (ReopensStale \/ ~Stale)
    /\ crashes' = crashes + 1
    /\ store' = Opened(s)
    /\ settled' = Without(settled, ids)
    /\ docs' = settled'
    /\ unsure' = unsure \cup {i \in DocId : Has(store', i) /\ i \notin DOMAIN settled'} \cup ids
    /\ UNCHANGED failures

\* An error ends the operation; the process goes on.
FailAt(s, ids) ==
    /\ failures < MaxFailures
    /\ failures' = failures + 1
    /\ store' = Aborted(s)
    /\ docs' = Without(docs, ids)
    /\ settled' = Without(settled, ids)
    /\ unsure' = unsure \cup ids
    /\ UNCHANGED crashes

\* An operation that writes f, and these ids, goes through these states.
Does(steps, ids, f) ==
    \E run \in {steps} :
       \/ /\ store' = run[Len(run)]
          /\ docs' = [i \in (DOMAIN docs \ ids) \cup DOMAIN f |->
                          IF i \in DOMAIN f THEN f[i] ELSE docs[i]]
          /\ settled' = Without(settled, ids)
          /\ UNCHANGED <<unsure, crashes, failures>>
       \/ \E k \in 1 .. Len(run) - 1 : CrashAt(run[k], ids) \/ FailAt(run[k], ids)

\* The bound on the operations, and whether they follow a crash.
MayRun ==
    /\ GoesOn \/ crashes = 0
    /\ writes < MaxWrites
    /\ writes' = writes + 1

\* The ids of the callers that insert are new; the tree does not check.
New(i) == ~Has(store, i) /\ i \notin unsure

Insert(i, v) ==
    /\ MayRun /\ New(i) /\ FreeBlocks(store) # {}
    /\ Does(InsertSteps(store, i, v), {i}, [x \in {i} |-> v])

InsertMany(i, v, j, w) ==
    /\ MayRun /\ New(i) /\ New(j) /\ i # j
    /\ Cardinality(FreeBlocks(store)) > 1
    /\ Does(InsertManySteps(store, i, v, j, w), {i, j}, [x \in {i, j} |-> IF x = i THEN v ELSE w])

\* update answers null, and changes nothing, for a document it does not find.
Update(i, v) ==
    /\ MayRun /\ FindById(store, i) # Empty
    /\ Does(UpdateSteps(store, i, v), {i}, [x \in {i} \ unsure |-> v])

\* delete answers false, and changes nothing, for one it does not find.
Delete(i) ==
    /\ MayRun /\ FindById(store, i) # Empty
    /\ Does(DeleteSteps(store, i), {i}, NoDocs)

DropIndex ==
    /\ MayRun /\ store.attached # NoTree
    /\ Does(DropIndexSteps(store), {}, NoDocs)

BuildMissingSecondaryIndexes ==
    /\ MayRun /\ store.attached = NoTree
    /\ store.deferred \/ IndexEntries(store) # {}
    /\ Does(BuildMissingSteps(store), {}, NoDocs)

BuildSecondaryIndexesFromEntries ==
    /\ MayRun /\ store.attached = NoTree
    /\ Does(BuildFromEntriesSteps(store), {}, NoDocs)

SetAutoCreate(on) ==
    /\ MayRun /\ store.auto # on
    /\ Does(<<[store EXCEPT !.auto = on]>>, {}, NoDocs)

CountDocuments ==
    /\ MayRun
    /\ Does(CountSteps(store), {}, NoDocs)

Compact ==
    /\ MayRun /\ \A e, f \in store.prim : e[2] = f[2] => e = f
    /\ Does(CompactSteps(store), {}, NoDocs)

Commit ==
    /\ MayRun
    /\ LET steps == CommitSteps(store) IN
       \/ /\ store' = steps[Len(steps)]
          /\ settled' = docs
          /\ UNCHANGED <<docs, unsure, crashes, failures>>
       \/ \E k \in 1 .. Len(steps) - 1 : CrashAt(steps[k], {}) \/ FailAt(steps[k], {})

\* close, then open and getCollection.
Reopen ==
    /\ MayRun /\ (ReopensStale \/ ~Stale)
    /\ LET closed == CommitSteps(store) IN store' = Opened(closed[Len(closed)])
    /\ settled' = docs
    /\ UNCHANGED <<docs, unsure, crashes, failures>>

\* Between two operations.
Crash == CrashAt(store, {}) /\ UNCHANGED writes

EngineInit ==
    /\ store = Fresh
    /\ docs = NoDocs /\ settled = NoDocs /\ unsure = {}
    /\ crashes = 0 /\ failures = 0 /\ writes = 0

EngineNext ==
    \/ \E i \in DocId, v \in Content : Insert(i, v) \/ Update(i, v)
    \/ \E i, j \in DocId, v, w \in Content : InsertMany(i, v, j, w)
    \/ \E i \in DocId : Delete(i)
    \/ \E on \in BOOLEAN : SetAutoCreate(on)
    \/ DropIndex \/ BuildMissingSecondaryIndexes \/ BuildSecondaryIndexesFromEntries
    \/ CountDocuments \/ Compact \/ Commit \/ Reopen \/ Crash

EngineSpec == EngineInit /\ [][EngineNext]_engineVars

-----------------------------------------------------------------------------
\* What find should give among these documents.
Matching(f, q) ==
    {<<i, f[i]>> : i \in {x \in DOMAIN f :
        IF f[x] \in Value THEN Holds(q.op, f[x], q.arg) ELSE q.op = "ne"}}

\* The files hold every document of the last commit that was not written
\* since, with its content, at every moment: whatever commits of one file came
\* between, and wherever the process ends.
SettledOnFile ==
    \A i \in DOMAIN settled : FindById(Opened(store), i) = <<i, settled[i]>>

\* Of the same documents, the index that an opened collection gets misses none.
SettledIndexed ==
    ReopensStale \/ ~Stale =>
    \A q \in Query : \A x \in Matching(settled, q) : x \in Find(Opened(store), q)

\* A document whose last write was answered reads as it was written, though
\* writes of others failed half-way, and without a failure there is no other.
ReadsBack ==
    /\ \A i \in DOMAIN docs : FindById(store, i) = <<i, docs[i]>>
    /\ unsure = {} => {i \in DocId : Has(store, i)} = DOMAIN docs

\* What was committed is on file at every moment, the index of an opened
\* collection misses none of it, and what was answered reads as it was written
\* (the two commits of insert, update and delete; README of the module core:
\* "Zero data loss; consistent state guaranteed").
DocumentsAreKept == SettledOnFile /\ SettledIndexed /\ ReadsBack

\* find gives what the condition says, with an index, with one that was dropped
\* and made again, or without (serializeFieldValue: "a string representation
\* that maintains sort order"); after a failure it still misses nothing.
QueriesAreExact ==
    \A q \in Query :
        /\ \A x \in Matching(docs, q) : x \in Find(store, q)
        /\ unsure = {} => Find(store, q) \subseteq Matching(docs, q)

\* countDocuments is right though the count kept starts from 0 when the
\* database is opened.
CountIsExact ==
    unsure = {} => CountSteps(store)[1].count = Cardinality(DOMAIN docs)

\* find answers what its condition says, and countDocuments is right (find and
\* countDocuments).
FindIsExact == QueriesAreExact /\ CountIsExact
=============================================================================
