------------------------------ MODULE BPlusTree ------------------------------
(***************************************************************************)
(* BPlusTree over FBNodeStorage: every operation, with the loads it makes, *)
(* the links it sets and the blocks it writes, between restarts that keep  *)
(* only the blocks.  Transactions are those of insertMany.  A path is the  *)
(* sequence of [node, i] from the root, i the child taken, counted from 1. *)
(***************************************************************************)
EXTENDS NodeStorage

CONSTANTS
    MaxKey,           \* the largest key
    Order,            \* at most so many keys in a node, from 2 on
    Loaded,           \* the keys the tree starts with
    ReadsFirst,       \* whether a process reads the whole tree before it changes it
    AbortsSplits,     \* whether transactions abort that changed more than leaves
    ReopensBatches,   \* whether a process opens what a transaction has written
    MaxReopens, MaxTransactions     \* bounds of the model

VARIABLES
    s,             \* the store
    contents,      \* the keys the tree is to hold
    before,        \* those at the start of the open transaction
    reopens, transactions

vars == <<s, contents, before, reopens, transactions>>

Key == 1 .. MaxKey
Ascending(set) == SelectSeq([k \in Key |-> k], LAMBDA k : k \in set)

MinKeys == (Order + 1) \div 2
Keys(t, o) == t.heap[o].keys

LowerBound(keys, k) == Cardinality({i \in 1 .. Len(keys) : keys[i] < k})
UpperBound(keys, k) == Cardinality({i \in 1 .. Len(keys) : keys[i] <= k})

-----------------------------------------------------------------------------
(* Finding. *)

\* The child to take for k.
ChildIndex(keys, k) == UpperBound(keys, k) + 1

\* findLeafWithPath, from a node of a store on.
RECURSIVE Descend(_, _, _)
Descend(at, k, path) ==
    LET i == ChildIndex(Keys(at.s, at.n), k)
    IN  IF at.s.heap[at.n].leaf THEN [s |-> at.s, leaf |-> at.n, path |-> path]
        ELSE Descend(Child(at.s, at.n, i), k, Append(path, [node |-> at.n, i |-> i]))

Root(t) == [s |-> t, n |-> t.root]
FindLeaf(t, k) == Descend(Root(t), k, <<>>)

\* getLeftmostLeaf, getRightmostLeaf.
RECURSIVE Edge(_, _)
Edge(at, right) ==
    IF at.s.heap[at.n].leaf THEN at
    ELSE Edge(Child(at.s, at.n, IF right THEN Len(Keys(at.s, at.n)) + 1 ELSE 1), right)

\* A walk along the leaves; it is cut after as many as there are objects.
RECURSIVE WalkOn(_, _, _, _)
WalkOn(at, forward, keys, fuel) ==
    IF at.n = 0 \/ fuel = 0 THEN [s |-> at.s, keys |-> keys]
    ELSE WalkOn(IF forward THEN NextLeaf(at.s, at.n) ELSE PrevLeaf(at.s, at.n),
                forward, Append(keys, Keys(at.s, at.n)), fuel - 1)

Walk(at, forward) ==
    WalkOn(at, forward, <<>>, Cardinality(DOMAIN at.s.heap) + Cardinality(DOMAIN at.s.disk) + 1)

\* entries.
Entries(t) == [Walk(Edge(Root(t), FALSE), TRUE) EXCEPT !.keys = FlattenSeq(@)]

\* reverseEntries.
ReverseEntries(t) ==
    [Walk(Edge(Root(t), TRUE), FALSE)
        EXCEPT !.keys = FlattenSeq([i \in 1 .. Len(@) |-> Reverse(@[i])])]

\* entriesFrom: the first leaf from the lower bound on, the others whole.
FromBound(leaves, k) ==
    SubSeq(Head(leaves), LowerBound(Head(leaves), k) + 1, Len(Head(leaves)))
        \o FlattenSeq(Tail(leaves))

WalkFrom(f) == Walk([s |-> f.s, n |-> f.leaf], TRUE)
EntriesFrom(t, k) == FromBound(WalkFrom(FindLeaf(t, k)).keys, k)

\* range with its two options: what entriesFrom gives, filtered and cut off.
RangeKeys(keys, from, to, inclusiveStart, inclusiveEnd) ==
    LET Beyond(k) == k > to \/ (k = to /\ ~inclusiveEnd)
        stop == SelectInSeq(keys, LAMBDA k : Beyond(k))
        taken == IF stop = 0 THEN keys ELSE SubSeq(keys, 1, stop - 1)
    IN  SelectSeq(taken, LAMBDA k : inclusiveStart \/ k # from)

\* search.
IsAt(f, k) == k \in ToSet(Keys(f.s, f.leaf))
Found(t, k) == IsAt(FindLeaf(t, k), k)

-----------------------------------------------------------------------------
(* Inserting. *)

PersistAll(t, os) == FoldLeft(PersistNode, t, os)

\* The two siblings of child i of p, loaded; 0 where there is none.
WithRight(l, p, i) ==
    IF i <= Len(Keys(l.s, p))
    THEN LET r == Child(l.s, p, i + 1) IN [s |-> r.s, left |-> l.n, right |-> r.n]
    ELSE [s |-> l.s, left |-> l.n, right |-> 0]

Siblings(t, p, i) ==
    WithRight(IF i > 1 THEN Child(t, p, i - 1) ELSE [s |-> t, n |-> 0], p, i)

HasRoom(t, o) == o # 0 /\ Len(Keys(t, o)) < Order

\* tryRedistributeLeafBeforeSplit, given the siblings of a leaf.
RedistributeLeaf(sib, leaf, p, i) ==
    LET t == sib.s
        l == sib.left
        r == sib.right
        keys == Keys(t, leaf)
        toLeft == [t EXCEPT
            !.heap = [@ EXCEPT ![leaf].keys = Tail(@), ![l].keys = Append(@, keys[1]),
                               ![p].keys = SetAt(@, i - 1, keys[2]),
                               ![leaf].prev = l, ![leaf].prevId = BlockOf(t, l),
                               ![l].next = leaf, ![l].nextId = BlockOf(t, leaf)]]
        toRight == [t EXCEPT
            !.heap = [@ EXCEPT ![leaf].keys = Front(@), ![r].keys = <<Last(keys)>> \o @,
                               ![p].keys = SetAt(@, i, Last(keys)),
                               ![leaf].next = r, ![leaf].nextId = BlockOf(t, r),
                               ![r].prev = leaf, ![r].prevId = BlockOf(t, leaf)]]
    IN  IF HasRoom(t, l) THEN [s |-> PersistAll(toLeft, <<l, leaf, p>>), done |-> TRUE]
        ELSE IF HasRoom(t, r) THEN [s |-> PersistAll(toRight, <<r, leaf, p>>), done |-> TRUE]
        ELSE [s |-> t, done |-> FALSE]

\* The siblings of an internal node, their children loaded too.
Materialized(sib) ==
    [sib EXCEPT !.s = FoldLeft(Materialize, @, SelectSeq(<<sib.left, sib.right>>, LAMBDA o : o # 0))]

\* tryRedistributeInternalBeforeSplit, given them.
RedistributeInternal(sib, n, p, i) ==
    LET v == sib.s
        l == sib.left
        r == sib.right
        node == v.heap[n]
        toLeft == [v EXCEPT
            !.heap = [@ EXCEPT ![l].keys = Append(@, Keys(v, p)[i - 1]),
                               ![l].kids = Append(@, node.kids[1]),
                               ![l].ids = Append(@, node.ids[1]),
                               ![n].keys = Tail(@), ![n].kids = Tail(@), ![n].ids = Tail(@),
                               ![p].keys = SetAt(@, i - 1, node.keys[1])]]
        toRight == [v EXCEPT
            !.heap = [@ EXCEPT ![r].keys = <<Keys(v, p)[i]>> \o @,
                               ![r].kids = <<Last(node.kids)>> \o @,
                               ![r].ids = <<Last(node.ids)>> \o @,
                               ![n].keys = Front(@), ![n].kids = Front(@), ![n].ids = Front(@),
                               ![p].keys = SetAt(@, i, Last(node.keys))]]
    IN  IF HasRoom(v, l) THEN [s |-> PersistAll(toLeft, <<n, l, p>>), done |-> TRUE]
        ELSE IF HasRoom(v, r) THEN [s |-> PersistAll(toRight, <<n, r, p>>), done |-> TRUE]
        ELSE [s |-> v, done |-> FALSE]

\* Either of them, for a node that has a parent.
TryRedistribute(t, n, path) ==
    LET p == Last(path).node
        i == Last(path).i
    IN  IF path = <<>> THEN [s |-> t, done |-> FALSE]
        ELSE IF t.heap[n].leaf THEN RedistributeLeaf(Siblings(t, p, i), n, p, i)
        ELSE RedistributeInternal(Materialized(Siblings(Materialize(t, n), p, i)), n, p, i)

Rooted(at) == [at.s EXCEPT !.root = at.n]

RECURSIVE InsertInParent(_, _, _, _)

\* splitInternalNode, its children loaded.
SplitInternal(t, n, path) ==
    LET node == t.heap[n]
        mid == Len(node.keys) \div 2
        Left(q) == SubSeq(q, 1, mid + 1)
        v == PersistNode([t EXCEPT !.heap[n].keys = SubSeq(@, 1, mid),
                                   !.heap[n].kids = Left(@), !.heap[n].ids = Left(@)], n)
    IN  InsertInParent(AllocateInternal(v, SubSeq(node.kids, mid + 2, Len(node.kids)),
                                        SubSeq(node.keys, mid + 2, Len(node.keys))),
                       n, node.keys[mid + 1], path)

\* Mutant of SplitLinks: the leaf after the new one keeps pointing to the old.
SplitLinksOneWay(t, leaf, new) ==
    [t EXCEPT !.heap = [@ EXCEPT ![new].next = t.heap[leaf].next, ![new].prev = leaf,
                                 ![leaf].next = new]]

\* The links splitLeaf sets: references only, and from those it has.
SplitLinks(t, leaf, new) ==
    LET after == t.heap[leaf].next
        u == SplitLinksOneWay(t, leaf, new)
    IN  IF after = 0 THEN u ELSE [u EXCEPT !.heap[after].prev = new]

\* splitLeaf.
SplitLeaf(t, leaf, path) ==
    LET keys == Keys(t, leaf)
        mid == (Len(keys) + 1) \div 2
        u == AddNode(t, [NewLeaf EXCEPT !.keys = SubSeq(keys, mid + 1, Len(keys))])
        v == SplitLinks([u EXCEPT !.heap[leaf].keys = SubSeq(@, 1, mid)], leaf, NewObject(t))
    IN  InsertInParent([s |-> v, n |-> NewObject(t)], leaf, keys[mid + 1], path)

Split(tried, n, path) ==
    IF tried.done THEN tried.s
    ELSE IF tried.s.heap[n].leaf THEN SplitLeaf(tried.s, n, path)
    ELSE SplitInternal(Materialize(tried.s, n), n, path)

\* insertInParent: the new node at.n, with key k, after the child n.
WithChild(t, p, i, k, new) ==
    [t EXCEPT !.heap[p].keys = InsertAt(@, i, k),
              !.heap[p].kids = InsertAt(@, i + 1, new),
              !.heap[p].ids = InsertAt(@, i + 1, BlockOf(t, new))]

SplitIfFull(t, n, path) ==
    IF Len(Keys(t, n)) > Order THEN Split(TryRedistribute(t, n, path), n, path)
    ELSE PersistNode(t, n)

InsertInParent(at, n, k, path) ==
    LET p == Last(path).node
    IN  IF n = at.s.root THEN Rooted(AllocateInternal(at.s, <<n, at.n>>, <<k>>))
        ELSE SplitIfFull(WithChild(PersistNode(Materialize(at.s, p), at.n), p, Last(path).i, k, at.n),
                         p, Front(path))

\* insert, at the leaf that was found.
InsertAtLeaf(f, k) ==
    LET keys == Keys(f.s, f.leaf)
        t == PersistLeaf(WithKeys(Capture(f.s, f.leaf), f.leaf,
                                  InsertAt(keys, LowerBound(keys, k) + 1, k)), f.leaf)
    IN  IF Len(keys) < Order THEN t
        ELSE Split(TryRedistribute(t, f.leaf, f.path), f.leaf, f.path)

InsertKey(t, k) == InsertAtLeaf(FindLeaf(t, k), k)

-----------------------------------------------------------------------------
(* Deleting. *)

\* Borrowing a key of a leaf, or a child of an internal node, from a sibling.
BorrowLeft(t, n, l, p, i) ==
    LET k == Last(Keys(t, l))
        separators == SetAt(Keys(t, p), i - 1, k)
        moved == [t EXCEPT !.heap = [@ EXCEPT ![l].keys = Front(@), ![n].keys = <<k>> \o @,
                                              ![p].keys = separators]]
    IN  IF t.heap[n].leaf THEN PersistAll(moved, <<l, n, p>>)
        ELSE PersistNode(WithKeys(MoveLastChild(t, l, n, Keys(t, p)[i - 1]), p, separators), p)

BorrowRight(t, n, r, p, i) ==
    LET k == Keys(t, r)[1]
        moved == [t EXCEPT !.heap = [@ EXCEPT ![r].keys = Tail(@), ![n].keys = Append(@, k),
                                              ![p].keys = SetAt(@, i, Keys(t, r)[2])]]
    IN  IF t.heap[n].leaf THEN PersistAll(moved, <<r, n, p>>)
        ELSE PersistNode(WithKeys(MoveFirstChild(t, r, n, Keys(t, p)[i]), p,
                                  SetAt(Keys(t, p), i, k)), p)

\* Merging child i + 1 of p into child i.
Merge(t, a, b, p, i) ==
    LET u == IF t.heap[a].leaf THEN MergeLeaves(t, a, b)
             ELSE MergeInternals(t, a, b, Keys(t, p)[i])
    IN  PersistNode([u EXCEPT !.heap[p].keys = RemoveAt(@, i), !.heap[p].kids = RemoveAt(@, i + 1),
                              !.heap[p].ids = RemoveAt(@, i + 1)], p)

\* A sibling keeps what it needs itself.
CanLend(t, o) == o # 0 /\ Len(Keys(t, o)) > MinKeys

\* handleUnderflow, the children of the parent loaded.
RECURSIVE HandleUnderflow(_, _, _)
AfterMerge(t, p, path) ==
    IF p = t.root THEN IF Keys(t, p) = <<>> THEN Rooted(Child(t, p, 1)) ELSE t
    ELSE IF Len(Keys(t, p)) < MinKeys THEN HandleUnderflow(t, p, path)
    ELSE t

BorrowOrMerge(t, n, at, path) ==
    LET p == at.node
        kids == t.heap[p].kids
        i == IF At(kids, at.i) = n THEN at.i ELSE SelectInSeq(kids, LAMBDA c : c = n)
        l == IF i > 1 THEN kids[i - 1] ELSE 0
        r == IF i <= Len(Keys(t, p)) THEN kids[i + 1] ELSE 0
    IN  IF i = 0 THEN [t EXCEPT !.failed = TRUE]
        ELSE IF CanLend(t, l) THEN BorrowLeft(t, n, l, p, i)
        ELSE IF CanLend(t, r) THEN BorrowRight(t, n, r, p, i)
        ELSE AfterMerge(IF l # 0 THEN Merge(t, l, n, p, i - 1) ELSE Merge(t, n, r, p, i), p, path)

HandleUnderflow(t, n, path) ==
    IF path = <<>> THEN t
    ELSE BorrowOrMerge(Materialize(t, Last(path).node), n, Last(path), Front(path))

\* delete, at the leaf that was found.
AfterDelete(t, leaf, path) ==
    IF leaf = t.root
    THEN IF Keys(t, leaf) = <<>> THEN [AddNode(t, NewLeaf) EXCEPT !.root = NewObject(t)] ELSE t
    ELSE IF Len(Keys(t, leaf)) < MinKeys THEN HandleUnderflow(t, leaf, path)
    ELSE t

DeleteAtLeaf(f, k) ==
    IF ~IsAt(f, k) THEN f.s
    ELSE AfterDelete(PersistLeaf(WithKeys(Capture(f.s, f.leaf), f.leaf,
                                          SelectSeq(Keys(f.s, f.leaf), LAMBDA x : x # k)), f.leaf),
                     f.leaf, f.path)

DeleteKey(t, k) == DeleteAtLeaf(FindLeaf(t, k), k)

-----------------------------------------------------------------------------
Init ==
    /\ contents = Loaded
    /\ s = Collected(FoldLeft(InsertKey, EmptyStore, Ascending(Loaded)))
    /\ before = {} /\ reopens = 0 /\ transactions = 0



\* Every child and every neighbour of the nodes in memory is in memory.
AllLoaded(t) ==
    \A o \in DOMAIN t.heap :
        LET n == t.heap[o]
        IN  /\ \A i \in DOMAIN n.ids : At(n.kids, i) # 0
            /\ (n.nextId # 0 => n.next # 0) /\ (n.prevId # 0 => n.prev # 0)

Insert(k) ==
    /\ k \notin contents
    /\ ReadsFirst => AllLoaded(s)
    /\ s' = Collected(InsertKey(s, k))
    /\ contents' = contents \cup {k}
    /\ UNCHANGED <<before, reopens, transactions>>

Delete(k) ==
    /\ ~s.session /\ k \in contents
    /\ ReadsFirst => AllLoaded(s)
    /\ s' = Collected(DeleteKey(s, k))
    /\ contents' = contents \ {k}
    /\ UNCHANGED <<before, reopens, transactions>>

\* Reading loads nodes and links leaves; with all of them loaded it changes nothing.
Search(k) ==
    /\ ~AllLoaded(s)
    /\ s' = Collected(FindLeaf(s, k).s)
    /\ UNCHANGED <<contents, before, reopens, transactions>>

Scan ==
    /\ ~AllLoaded(s)
    /\ \/ s' = Collected(Entries(s).s)
       \/ s' = Collected(ReverseEntries(s).s)
    /\ UNCHANGED <<contents, before, reopens, transactions>>

Begin ==
    /\ ~s.session
    /\ transactions < MaxTransactions
    /\ ReopensBatches \/ reopens = 0
    /\ transactions' = transactions + 1
    /\ s' = BeginTransaction(s)
    /\ before' = contents
    /\ UNCHANGED <<contents, reopens>>

Commit ==
    /\ s.session
    /\ s' = Collected(CommitTransaction(s))
    /\ before' = {}
    /\ UNCHANGED <<contents, reopens, transactions>>

Abort ==
    /\ s.session
    /\ AbortsSplits \/ (s.fresh = <<>> /\ \A o \in s.dirty : s.heap[o].leaf)
    /\ s' = Collected(AbortTransaction(s))
    /\ contents' = before
    /\ before' = {}
    /\ UNCHANGED <<reopens, transactions>>

\* What a new process makes of the blocks; it knows the root's (loadNode).
Reloaded(t) ==
    Rooted(LoadNode([EmptyStore EXCEPT !.heap = <<>>, !.disk = t.disk], BlockOf(t, t.root)))

Reopen ==
    /\ ~s.session
    /\ BlockOf(s, s.root) # 0
    /\ reopens < MaxReopens
    /\ ReopensBatches \/ transactions = 0
    /\ reopens' = reopens + 1
    /\ s' = Collected(Reloaded(s))
    /\ UNCHANGED <<contents, before, transactions>>

Next ==
    \/ \E k \in Key : Insert(k) \/ Delete(k) \/ Search(k)
    \/ Scan
    \/ Begin \/ Commit \/ Abort
    \/ Reopen

Spec == Init /\ [][Next]_vars

-----------------------------------------------------------------------------
Sorted == Ascending(contents)

\* A search finds a key exactly if it is in the tree (search).
SearchFinds == \A k \in Key : Found(s, k) <=> k \in contents

\* A scan along the leaves, forward, backward or from any key on, gives every
\* key once, in order, and a range those in it (entries, reverseEntries,
\* entriesFrom, range).
ScansFrom(keys, from) ==
    /\ keys = SelectSeq(Sorted, LAMBDA x : x >= from)
    /\ \A to \in Key :
          /\ RangeKeys(keys, from, to, TRUE, FALSE) = Ascending(contents \cap from .. to - 1)
          /\ RangeKeys(keys, from, to, FALSE, TRUE) = Ascending(contents \cap from + 1 .. to)

ScansSeeAll ==
    /\ Entries(s).keys = Sorted
    /\ ReverseEntries(s).keys = Reverse(Sorted)
    /\ \A k \in Key : ScansFrom(EntriesFrom(s, k), k)

\* What is written is the tree: a process that starts now finds the same keys,
\* and its scans see them all (persistLeaf, persistInternal, commitTransaction).
BlocksHoldTree ==
    (~s.session /\ BlockOf(s, s.root) # 0) =>
        LET t == Reloaded(s)
        IN  /\ \A k \in Key : Found(t, k) <=> k \in contents
            /\ Entries(t).keys = Sorted
            /\ transactions = 0 => ReverseEntries(t).keys = Reverse(Sorted)

\* No operation throws.
NothingFails == ~s.failed
=============================================================================
