----------------------------- MODULE NodeStorage -----------------------------
(***************************************************************************)
(* FBNodeStorage, the nodes of a B+ tree in memory and in their blocks.    *)
(* A store is a record:                                                    *)
(*   heap     node object -> its fields; objects are numbered from 1       *)
(*   disk     block -> what FreeBlockFile reads there                      *)
(*   cache    block -> node object                                         *)
(*   queue    reclaimQueue, the blocks to free                             *)
(*   root     the node object the tree starts from                         *)
(*   session  whether a transaction is open; dirty, fresh (newNodes),      *)
(*            snaps (Snapshots) and savedQueue are its bookkeeping         *)
(*   failed   a call threw                                                 *)
(* 0 stands for null, undefined and NO_BLOCK.  An entry of a leaf, a key   *)
(* with its value, is one number.  kids is the array children, which may   *)
(* have holes and be shorter than ids, childBlockIds.                      *)
(***************************************************************************)
EXTENDS Integers, Sequences, FiniteSets, SequencesExt

Smallest(used) == CHOOSE n \in 1 .. Cardinality(used) + 1 :
                      n \notin used /\ 1 .. n - 1 \subseteq used
At(q, i) == IF i <= Len(q) THEN q[i] ELSE 0
Put(f, x, v) == [y \in DOMAIN f \cup {x} |-> IF y = x THEN v ELSE f[y]]
Drop(f, xs) == [y \in DOMAIN f \ xs |-> f[y]]

\* q with q[i] = v, prolonged by holes if need be.
SetAt(q, i, v) ==
    [j \in 1 .. (IF i > Len(q) THEN i ELSE Len(q)) |-> IF j = i THEN v ELSE At(q, j)]

NewLeaf ==
    [leaf |-> TRUE, keys |-> <<>>, kids |-> <<>>, ids |-> <<>>,
     next |-> 0, prev |-> 0, nextId |-> 0, prevId |-> 0, block |-> 0]

\* What is written of a node.
Payload(n) == [leaf |-> n.leaf, keys |-> n.keys, ids |-> n.ids,
               nextId |-> n.nextId, prevId |-> n.prevId]

EmptyStore ==
    [heap |-> <<NewLeaf>>, disk |-> <<>>, cache |-> <<>>, queue |-> {}, root |-> 1,
     session |-> FALSE, dirty |-> {}, fresh |-> <<>>, snaps |-> <<>>, savedQueue |-> {},
     failed |-> FALSE]

\* The number of the next object.
NewObject(s) == Smallest(DOMAIN s.heap)
AddNode(s, n) == [s EXCEPT !.heap = Put(@, NewObject(s), n)]

WithKeys(s, o, keys) == [s EXCEPT !.heap[o].keys = keys]

-----------------------------------------------------------------------------
(* Loading. *)

\* loadNode: the node in the cache, or a new object without references.
LoadNode(s, b) ==
    IF b \in DOMAIN s.cache THEN [s |-> s, n |-> s.cache[b]]
    ELSE IF b \notin DOMAIN s.disk THEN [s |-> [s EXCEPT !.failed = TRUE], n |-> s.root]
    ELSE LET p == s.disk[b]
             n == [NewLeaf EXCEPT !.leaf = p.leaf, !.keys = p.keys, !.ids = p.ids,
                                  !.nextId = p.nextId, !.prevId = p.prevId, !.block = b]
             o == NewObject(s)
         IN  [s |-> [AddNode(s, n) EXCEPT !.cache = Put(@, b, o)], n |-> o]

\* getChild and getChildAt, child i of p counted from 1.
Child(s, p, i) ==
    LET node == s.heap[p]
        r == LoadNode(s, node.ids[i])
    IN  IF At(node.kids, i) # 0 THEN [s |-> s, n |-> node.kids[i]]
        ELSE [r EXCEPT !.s.heap[p].kids = SetAt(@, i, r.n)]

\* materializeChildren.
Materialize(s, p) ==
    FoldLeft(LAMBDA t, i : Child(t, p, i).s, s, [i \in 1 .. Len(s.heap[p].keys) + 1 |-> i])

\* getNextLeaf and getPrevLeaf: the neighbour is linked both ways.
NextLeaf(s, o) ==
    LET n == s.heap[o]
        r == LoadNode(s, n.nextId)
    IN  IF n.next # 0 \/ n.nextId = 0 THEN [s |-> s, n |-> n.next]
        ELSE [r EXCEPT !.s.heap = [@ EXCEPT ![o].next = r.n,
                                            ![r.n].prev = o, ![r.n].prevId = n.block]]

PrevLeaf(s, o) ==
    LET n == s.heap[o]
        r == LoadNode(s, n.prevId)
    IN  IF n.prev # 0 \/ n.prevId = 0 THEN [s |-> s, n |-> n.prev]
        ELSE [r EXCEPT !.s.heap = [@ EXCEPT ![o].prev = r.n,
                                            ![r.n].next = o, ![r.n].nextId = n.block]]

-----------------------------------------------------------------------------
(* Persisting. *)

\* captureSnapshot: only the first time in a transaction.
Capture(s, o) ==
    IF s.session /\ o \notin DOMAIN s.snaps
    THEN [s EXCEPT !.snaps = Put(@, o, s.heap[o])]
    ELSE s

\* What persisting a node does inside a transaction.
MarkForPersistence(s, o) ==
    LET t == [Capture(s, o) EXCEPT !.dirty = @ \cup {o}]
        b == s.heap[o].block
    IN  IF b # 0 THEN [t EXCEPT !.cache = Put(@, b, o)]
        ELSE IF o \in ToSet(t.fresh) THEN t
        ELSE [t EXCEPT !.fresh = Append(@, o)]

Write(s, o) == [s EXCEPT !.disk = Put(@, s.heap[o].block, Payload(s.heap[o]))]

\* allocateAndWrite for a node without a block.
Allocate(s, o) ==
    LET b == Smallest(DOMAIN s.disk)
    IN  Write([s EXCEPT !.heap[o].block = b, !.cache = Put(@, b, o)], o)

BlockOf(s, o) == s.heap[o].block

\* persistLeaf outside a transaction: a leaf that gets its block rewrites its
\* neighbours, which point to it.
Repointed(s, x, field, b) ==
    IF x = 0 THEN s ELSE Write([s EXCEPT !.heap[x][field] = b], x)

PersistLeafNow(s, o) ==
    LET n == s.heap[o]
        b == Smallest(DOMAIN s.disk)
        t == [s EXCEPT !.heap[o].prevId = IF n.prev # 0 THEN BlockOf(s, n.prev) ELSE @,
                       !.heap[o].nextId = IF n.next # 0 THEN BlockOf(s, n.next) ELSE @]
    IN  IF n.block # 0 THEN Write(t, o)
        ELSE Repointed(Repointed(Allocate(t, o), n.prev, "nextId", b), n.next, "prevId", b)

PersistLeaf(s, o) == IF s.session THEN MarkForPersistence(s, o) ELSE PersistLeafNow(s, o)

\* The children in memory that have no block yet.
Unwritten(s, o) ==
    SelectSeq([i \in 1 .. Len(s.heap[o].keys) + 1 |-> At(s.heap[o].kids, i)],
              LAMBDA c : c # 0 /\ BlockOf(s, c) = 0)

\* The children that are in memory give their ids; the others keep theirs.
WithChildIds(s, o) ==
    [s EXCEPT !.heap[o].ids =
        [i \in 1 .. Len(@) |-> LET c == At(s.heap[o].kids, i)
                               IN  IF c # 0 THEN BlockOf(s, c) ELSE @[i]]]

\* A node is written once its children have their blocks.
WriteInternal(s, o) ==
    IF 0 \in ToSet(s.heap[o].ids) THEN [s EXCEPT !.failed = TRUE]
    ELSE IF BlockOf(s, o) # 0 THEN Write(s, o)
    ELSE Allocate(s, o)

\* markNodeForPersistance and persistInternal outside a transaction.
RECURSIVE PersistInternalNow(_, _)
PersistInternalNow(s, o) ==
    LET Complete(n) == Len(n.ids) = Len(n.keys) + 1 /\ 0 \notin ToSet(n.ids)
        PersistChild(t, c) ==
            IF t.heap[c].leaf THEN PersistLeafNow(t, c)
            ELSE IF Complete(t.heap[c]) THEN Allocate(t, c)
            ELSE PersistInternalNow(t, c)
    IN  WriteInternal(WithChildIds(FoldLeft(PersistChild, s, Unwritten(s, o)), o), o)

\* persistInternal.
PersistInternal(s, o) ==
    IF s.session
    THEN MarkForPersistence(FoldLeft(MarkForPersistence, Capture(s, o), Unwritten(s, o)), o)
    ELSE PersistInternalNow(s, o)

PersistNode(s, o) == IF s.heap[o].leaf THEN PersistLeaf(s, o) ELSE PersistInternal(s, o)

NewInternal(s, kids, keys) ==
    LET n == [NewLeaf EXCEPT !.leaf = FALSE, !.keys = keys, !.kids = kids,
                             !.ids = [i \in 1 .. Len(kids) |-> BlockOf(s, kids[i])]]
    IN  [s |-> PersistInternal(AddNode(s, n), NewObject(s)), n |-> NewObject(s)]

\* allocateInternalNodeStorage: leaves among the children are written again.
AllocateInternal(s, kids, keys) ==
    LET Persist(t, c) == IF t.heap[c].leaf \/ BlockOf(t, c) = 0 THEN PersistNode(t, c) ELSE t
    IN  NewInternal(FoldLeft(Persist, s, kids), kids, keys)

Enqueue(s, b) == IF b = 0 THEN s ELSE [s EXCEPT !.queue = @ \cup {b}]

-----------------------------------------------------------------------------
(* Transactions. *)

BeginTransaction(s) ==
    [s EXCEPT !.session = TRUE, !.dirty = {}, !.fresh = <<>>, !.snaps = <<>>,
              !.savedQueue = s.queue]

Ended(s) ==
    [s EXCEPT !.session = FALSE, !.dirty = {}, !.fresh = <<>>, !.snaps = <<>>,
              !.savedQueue = {}]

\* A leaf takes the ids of the neighbours it has references to.
LeafRefs(s, o) ==
    LET n == s.heap[o]
        Ref(x, id) == IF x # 0 /\ BlockOf(s, x) # 0 THEN BlockOf(s, x) ELSE id
    IN  [s EXCEPT !.heap[o].nextId = Ref(n.next, @), !.heap[o].prevId = Ref(n.prev, @)]

\* commitTransaction: blocks for the new nodes, then leaves, then internal
\* nodes; the queued blocks are freed (reclaimQueuedBlocksNow).
Numbered(s, o) ==
    LET b == Smallest(DOMAIN s.disk)
    IN  [s EXCEPT !.heap[o].block = b, !.disk = Put(@, b, Payload(NewLeaf))]

Final(s, o) ==
    LET u == [s EXCEPT !.heap[o].ids = [i \in 1 .. Len(s.heap[o].keys) + 1 |-> At(@, i)]]
    IN  IF s.heap[o].leaf THEN LeafRefs(s, o).heap[o] ELSE WithChildIds(u, o).heap[o]

WriteDirty(s) ==
    LET Of(b) == {o \in s.dirty : BlockOf(s, o) = b}
    IN  [s EXCEPT !.disk = [b \in DOMAIN @ |-> IF Of(b) # {} THEN Payload(s.heap[CHOOSE o \in Of(b) : TRUE])
                                                ELSE @[b]],
                  !.failed = @ \/ \E o \in s.dirty : ~s.heap[o].leaf /\ 0 \in ToSet(s.heap[o].ids)]

WithFinal(s) == [s EXCEPT !.heap = [o \in DOMAIN @ |-> IF o \in s.dirty THEN Final(s, o) ELSE @[o]]]

Reclaimed(s) ==
    [s EXCEPT !.disk = Drop(@, s.queue), !.cache = Drop(@, s.queue), !.queue = {}]

CommitTransaction(s) ==
    Ended(Reclaimed(WriteDirty(WithFinal(FoldLeft(Numbered, s, s.fresh)))))

\* abortTransaction.
AbortTransaction(s) ==
    Ended([s EXCEPT !.heap = [o \in DOMAIN @ |-> IF o \in DOMAIN s.snaps THEN s.snaps[o] ELSE @[o]],
                    !.queue = s.savedQueue])

-----------------------------------------------------------------------------
(* The nodes' own operations. *)

\* mergeWithNext of a leaf.
MergeLeaves(s, a, b) ==
    LET n == s.heap[b]
        PointedBack(t) == IF n.next = 0 THEN t
                          ELSE PersistLeaf([t EXCEPT !.heap[n.next].prev = a,
                                                     !.heap[n.next].prevId = BlockOf(t, a)], n.next)
    IN  Enqueue(PointedBack(PersistLeaf([s EXCEPT !.heap[a].keys = @ \o n.keys,
                                                  !.heap[a].next = n.next,
                                                  !.heap[a].nextId = n.nextId], a)), n.block)

\* mergeWithNext of an internal node: the arrays are concatenated as they are.
MergeInternals(s, a, b, separator) ==
    LET n == s.heap[b]
        t == PersistInternal([s EXCEPT !.heap[a].keys = @ \o <<separator>> \o n.keys,
                                       !.heap[a].ids = @ \o n.ids,
                                       !.heap[a].kids = @ \o n.kids], a)
    IN  Enqueue(t, n.block)

FrontOf(q) == IF q = <<>> THEN <<>> ELSE Front(q)
TailOf(q) == IF q = <<>> THEN <<>> ELSE Tail(q)
LastOf(q) == IF q = <<>> THEN 0 ELSE Last(q)

\* moveLastChildTo: pop and unshift, on each array for itself.
MoveLastChild(s, a, b, separator) ==
    LET n == s.heap[a]
        t == [s EXCEPT !.heap[a].keys = Front(@), !.heap[a].ids = Front(@),
                       !.heap[a].kids = FrontOf(@),
                       !.heap[b].keys = <<separator>> \o @, !.heap[b].ids = <<Last(n.ids)>> \o @,
                       !.heap[b].kids = <<LastOf(n.kids)>> \o @]
    IN  PersistInternal(PersistInternal(t, a), b)

\* moveFirstChildTo: shift and push.
MoveFirstChild(s, a, b, separator) ==
    LET n == s.heap[a]
        t == [s EXCEPT !.heap[a].keys = Tail(@), !.heap[a].ids = Tail(@),
                       !.heap[a].kids = TailOf(@),
                       !.heap[b].keys = Append(@, separator), !.heap[b].ids = Append(@, n.ids[1]),
                       !.heap[b].kids = Append(@, At(n.kids, 1))]
    IN  PersistInternal(PersistInternal(t, a), b)

-----------------------------------------------------------------------------
(* Numbers of objects and blocks mean nothing: after each operation they are *)
(* given anew, and what nothing refers to is left out.                       *)

RefsOf(n) == [objects |-> (ToSet(n.kids) \cup {n.next, n.prev}) \ {0},
              blocks |-> (ToSet(n.ids) \cup {n.nextId, n.prevId, n.block}) \ {0}]

BlockRefs(s, b) ==
    LET p == s.disk[b]
    IN  IF b \in DOMAIN s.disk THEN (ToSet(p.ids) \cup {p.nextId, p.prevId}) \ {0} ELSE {}

RECURSIVE Reach(_, _)
Reach(s, set) ==
    LET refs == {RefsOf(s.heap[o]) : o \in set.objects}
        more == [objects |-> set.objects \cup UNION {r.objects : r \in refs}
                                \cup {s.cache[b] : b \in set.blocks \cap DOMAIN s.cache},
                 blocks |-> set.blocks \cup UNION {r.blocks : r \in refs}
                                \cup UNION {BlockRefs(s, b) : b \in set.blocks}]
    IN  IF more = set THEN set ELSE Reach(s, more)

\* The objects and blocks that the root or the open transaction leads to.
Referred(s) ==
    LET snapped == {RefsOf(s.snaps[o]) : o \in DOMAIN s.snaps}
    IN  Reach(s, [objects |-> {s.root} \cup s.dirty \cup DOMAIN s.snaps
                                  \cup UNION {r.objects : r \in snapped},
                  blocks |-> UNION {r.blocks : r \in snapped}])

\* Nodes in the order of their kind and keys.
RECURSIVE Digits(_)
Digits(q) == IF q = <<>> THEN 0 ELSE Head(q) + 16 * Digits(Tail(q))
Rank(n) == 2 * Digits(n.keys) + (IF n.leaf THEN 0 ELSE 1)

\* The numbers of a set in the order of a rank; 0 keeps its own.
Places(set, rank) ==
    [x \in set \cup {0} |->
        IF x = 0 THEN 0
        ELSE Cardinality({y \in set : rank[y] < rank[x] \/ (rank[y] = rank[x] /\ y <= x)})]

\* The store with the block b as blockOf[b] and likewise its objects.
Renumbered(s, blockOf, number) ==
    LET InOrder(f) == [i \in 1 .. Cardinality(DOMAIN f) - 1 |-> CHOOSE x \in DOMAIN f : f[x] = i]
        blockOrder == InOrder(blockOf)
        objectOrder == InOrder(number)
        Ids(q) == [i \in DOMAIN q |-> blockOf[q[i]]]
        Renamed(n) == [n EXCEPT !.kids = [i \in DOMAIN @ |-> number[@[i]]],
                                !.next = number[@], !.prev = number[@], !.ids = Ids(@),
                                !.nextId = blockOf[@], !.prevId = blockOf[@], !.block = blockOf[@]]
        OnDisk(p) == [p EXCEPT !.ids = Ids(@), !.nextId = blockOf[@], !.prevId = blockOf[@]]
        Blocks(set) == {blockOf[b] : b \in set \cap DOMAIN blockOf}
        Objects(set) == {number[o] : o \in set}
    IN  [s EXCEPT !.heap = [n \in DOMAIN objectOrder |-> Renamed(@[objectOrder[n]])],
                  !.disk = [b \in Blocks(DOMAIN @) |-> OnDisk(@[blockOrder[b]])],
                  !.cache = [b \in Blocks(DOMAIN @) |-> number[@[blockOrder[b]]]],
                  !.queue = Blocks(@), !.savedQueue = Blocks(@),
                  !.root = number[@],
                  !.dirty = Objects(@),
                  !.fresh = [i \in DOMAIN @ |-> number[@[i]]],
                  !.snaps = [n \in Objects(DOMAIN @) |-> Renamed(@[objectOrder[n]])]]

Keeping(s, kept) ==
    Renumbered(s, Places(kept.blocks, [b \in kept.blocks |->
                                          IF b \in DOMAIN s.disk THEN Rank(s.disk[b]) ELSE 0]),
                  Places(kept.objects, [o \in kept.objects |-> Rank(s.heap[o])]))

Collected(s) == Keeping(s, Referred(s))
=============================================================================
