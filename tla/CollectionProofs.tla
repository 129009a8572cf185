--------------------------- MODULE CollectionProofs ---------------------------
(***************************************************************************)
(* Proofs about Collection: the documents that were answered are read, the *)
(* committed ones are on file at every moment, find and countDocuments are *)
(* right.  Until the process ends the store is Good: each document has one *)
(* block of its own in the primary tree, the index in use has its entry    *)
(* and no other, and of what was committed both are on file as well.  An   *)
(* operation is a run of states of which the last is Good for the          *)
(* documents after it and the ones on the way for those it does not write, *)
(* so every part of an operation has a lemma of its own ("...IsGood"), and *)
(* every operation one that puts them in order ("...KeepsInv").  Once the  *)
(* process has ended the store is only Legible: what is settled is read    *)
(* from it, and there may be more.                                         *)
(***************************************************************************)
EXTENDS Collection, FiniteSetTheorems, SequenceTheorems, WellFoundedInduction, TLAPS

-----------------------------------------------------------------------------
(* Types. *)

Cell == {Empty} \cup (DocId \X Content)
Pointer == DocId \X Block
Entry == Value \X DocId \X Block
Trees == {NoTree} \cup Tree

Store ==
    [heap : [Block -> Cell], pending : SUBSET Block,
     prim : SUBSET Pointer, trees : [Trees -> SUBSET Entry],
     attached : Trees, listed : Trees, idLast : BOOLEAN, auto : BOOLEAN, deferred : BOOLEAN,
     count : Int, first : BOOLEAN,
     txn : [on : BOOLEAN, prim : SUBSET Pointer, tree : Trees, keys : SUBSET Entry],
     disk : [prim : SUBSET Pointer, listed : Trees, keys : SUBSET Entry],
     saved : [Block -> Cell]]

\* A document is not the empty cell.
LEMMA DocIsNotEmpty == \A i, v : <<i, v>> # Empty
<1> TAKE i, v
<1>1. Len(<<i, v>>) = 2 /\ Len(Empty) = 0
  BY DEF Empty
<1> QED BY <1>1

\* A set of natural numbers has a least element.
LEMMA LeastExists ==
    ASSUME NEW S \in SUBSET Nat, S # {}
    PROVE  Min(S) \in S /\ \A j \in S : Min(S) <= j
<1> DEFINE R == OpToRel(<, Nat)
<1>1. IsWellFoundedOn(R, Nat)
  BY NatLessThanWellFounded
<1>2. ASSUME NEW x \in Nat, NEW y \in Nat, x < y PROVE <<x, y>> \in R
  BY <1>2 DEF OpToRel
<1> HIDE DEF R
<1>3. PICK x \in S : \A y \in S : ~(<<y, x>> \in R)
  BY <1>1, WFMin
<1>4. ASSUME NEW y \in S PROVE x <= y
  <2>1. x \in Nat /\ y \in Nat
    OBVIOUS
  <2>2. ~(y < x)
    BY <1>2, <1>3, <2>1
  <2> QED BY <2>1, <2>2
<1> QED BY <1>4 DEF Min

\* A block or a tree that is asked for is free.
LEMMA NextBlockIsFree ==
    ASSUME NEW s \in Store, FreeBlocks(s) # {}
    PROVE  NextBlock(s) \in Block /\ s.heap[NextBlock(s)] = Empty
<1>1. FreeBlocks(s) \in SUBSET Nat
  BY EngineAssumption DEF FreeBlocks, Block
<1> QED BY <1>1, LeastExists DEF FreeBlocks, NextBlock

LEMMA NewTreeIsUnused ==
    ASSUME NEW s \in Store
    PROVE  /\ NewTree(s) \in Trees
           /\ NewTree(s) \notin {NoTree, s.attached, s.listed}
<1> DEFINE unused == Tree \ {s.attached, s.listed}
<1>1. unused \in SUBSET Nat
  BY DEF Tree
<1>2. unused # {}
  <2>1. {1, 2, 3} \subseteq Tree
    BY DEF Tree
  <2> QED BY <2>1
<1>3. NewTree(s) \in unused
  BY <1>1, <1>2, LeastExists DEF NewTree
<1> QED BY <1>3 DEF Trees, Tree, NoTree

LEMMA FreshIsStore == Fresh \in Store
BY DEF Fresh, Store, NotInTransaction, Cell, Pointer, Entry, Trees, Tree, NoTree

-----------------------------------------------------------------------------
(* The inductive invariant.                                                 *)

\* The header lists no index but the one that is maintained.
InUse(t) == t.listed \in {NoTree, t.attached}

\* The primary tree has a block for each id, of its own; what is freed was not
\* empty; in a transaction the trees only grow.
Shape(t) ==
    /\ \A i \in DocId, b, c \in Block : <<i, b>> \in t.prim /\ <<i, c>> \in t.prim => b = c
    /\ \A i \in DocId, b \in Block :
        <<i, b>> \in t.prim => t.heap[b] = <<i, t.heap[b][2]>> /\ b \notin t.pending
    /\ \A b \in t.pending : t.heap[b] # Empty
    /\ t.trees[NoTree] = {}
    /\ t.disk.listed = t.listed
    /\ t.listed = NoTree => t.disk.keys = {}
    /\ t.txn.on =>
        /\ t.txn.prim \subseteq t.prim
        /\ t.txn.tree \in {NoTree, t.attached}
        /\ t.txn.tree = NoTree => t.txn.keys = {}

\* The index has the entry of i, and no other of it.
TrueIndex(t, i) ==
    t.attached # NoTree =>
    \A v \in Value, b \in Block :
        <<v, i, b>> \in t.trees[t.attached] <=> <<i, b>> \in t.prim /\ t.heap[b] = <<i, v>>

\* The transaction has not written i.
InTxn(t, i) ==
    t.txn.on =>
    /\ \A b \in Block : <<i, b>> \in t.txn.prim <=> <<i, b>> \in t.prim
    /\ \A v \in Value, b \in Block :
        <<v, i, b>> \in t.txn.keys <=> <<v, i, b>> \in t.trees[t.txn.tree]

\* The index on file points where the primary tree on file does.
TrueOnDisk(t, i) ==
    InUse(t) =>
    \A v \in Value, b \in Block : <<v, i, b>> \in t.disk.keys => <<i, b>> \in t.disk.prim

Reads(t, i, x) == \E b \in Block : <<i, b>> \in t.prim /\ t.heap[b] = <<i, x>>

\* The files hold i as memory does.
OnFile(t, i) ==
    /\ \A b \in Block :
        /\ <<i, b>> \in t.disk.prim <=> <<i, b>> \in t.prim
        /\ <<i, b>> \in t.prim => t.saved[b] = t.heap[b]
    /\ InUse(t) /\ t.listed # NoTree =>
       \A v \in Value, b \in Block :
            <<i, b>> \in t.prim /\ t.heap[b] = <<i, v>> => <<v, i, b>> \in t.disk.keys

\* A store that holds the documents g, of which h are on file, where U may be
\* anything.
Good(t, g, h, U) ==
    /\ t \in Store
    /\ Shape(t)
    /\ \A i \in DocId \ U :
        /\ TrueIndex(t, i) /\ InTxn(t, i) /\ TrueOnDisk(t, i)
        /\ Has(t, i) => i \in DOMAIN g
    /\ \A i \in DOMAIN g : i \in DocId \ U /\ Reads(t, i, g[i])
    /\ \A i \in DOMAIN h : i \in DOMAIN g /\ h[i] = g[i] /\ OnFile(t, i)

\* A store from which the documents g are read, where U may be anything.
Legible(t, g, U) ==
    /\ \A i \in DOMAIN g : \E b \in Block :
        /\ \A c \in Block : <<i, c>> \in t.prim <=> c = b
        /\ t.heap[b] = <<i, g[i]>>
        /\ t.attached # NoTree /\ g[i] \in Value => <<g[i], i, b>> \in t.trees[t.attached]
    /\ \A i \in DocId \ U :
        /\ Has(t, i) => i \in DOMAIN g
        /\ t.attached # NoTree =>
           \A v \in Value, b \in Block :
                <<v, i, b>> \in t.trees[t.attached] => <<i, b>> \in t.prim

\* The count that is kept.
Counts(t, g, U) == U = {} /\ ~t.first => t.count = Cardinality(DOMAIN g)

Running ==
    /\ Good(store, docs, settled, unsure)
    /\ ~store.txn.on
    /\ Counts(store, docs, unsure)

Crashed ==
    /\ store \in Store
    /\ store = Opened(store)
    /\ Legible(store, docs, unsure)
    /\ settled = docs

EngineInv ==
    /\ crashes \in Nat
    /\ DOMAIN docs \subseteq DocId \ unsure /\ IsFiniteSet(DOMAIN docs)
    /\ \A i \in DOMAIN docs : docs[i] \in Content
    /\ crashes = 0 => Running
    /\ crashes # 0 => Crashed

-----------------------------------------------------------------------------
(* One part of an operation at a time: what it does to ids in U is its own  *)
(* affair, and the rest stays as it was.                                    *)

Elsewhere(s, t, U) ==
    /\ t.attached = s.attached /\ t.listed = s.listed
    /\ t.txn = s.txn /\ t.disk = s.disk /\ t.saved = s.saved
    /\ t.count = s.count /\ t.first = s.first
    /\ \A x \in DocId \ U, b \in Block :
        /\ <<x, b>> \in t.prim <=> <<x, b>> \in s.prim
        /\ <<x, b>> \in s.prim => t.heap[b] = s.heap[b]
        /\ \A v \in Value, k \in {NoTree, s.attached} :
            <<v, x, b>> \in t.trees[k] <=> <<v, x, b>> \in s.trees[k]

LEMMA ElsewhereIsTrue ==
    ASSUME NEW s, NEW t, NEW U, Elsewhere(s, t, U), NEW x \in DocId \ U
    PROVE  /\ TrueIndex(s, x) => TrueIndex(t, x)
           /\ \A y : Reads(s, x, y) => Reads(t, x, y)
           /\ Has(t, x) <=> Has(s, x)
BY DEF Elsewhere, TrueIndex, Reads, Has

LEMMA ElsewhereIsGood ==
    ASSUME NEW s, NEW t \in Store, NEW g, NEW h, NEW U,
           Good(s, g, h, U), Shape(t), Elsewhere(s, t, U)
    PROVE  Good(t, g, h, U)
<1>1. ASSUME NEW i \in DocId \ U
      PROVE  /\ TrueIndex(t, i) /\ InTxn(t, i) /\ TrueOnDisk(t, i)
             /\ Has(t, i) => i \in DOMAIN g
  <2>1. TrueIndex(s, i) /\ InTxn(s, i) /\ TrueOnDisk(s, i) /\ (Has(s, i) => i \in DOMAIN g)
    BY DEF Good
  <2>2. TrueIndex(t, i) /\ (Has(t, i) => i \in DOMAIN g)
    BY <2>1, ElsewhereIsTrue
  <2>3. InTxn(t, i)
    <3>1. s.txn.on => s.txn.tree \in {NoTree, s.attached}
      BY DEF Good, Shape
    <3> QED BY <2>1, <3>1 DEF Elsewhere, InTxn
  <2>4. TrueOnDisk(t, i)
    BY <2>1 DEF Elsewhere, TrueOnDisk, InUse
  <2> QED BY <2>2, <2>3, <2>4
<1>2. ASSUME NEW i \in DOMAIN g
      PROVE  i \in DocId \ U /\ Reads(t, i, g[i])
  BY ElsewhereIsTrue DEF Good
<1>3. ASSUME NEW i \in DOMAIN h
      PROVE  i \in DOMAIN g /\ h[i] = g[i] /\ OnFile(t, i)
  <2>1. i \in DOMAIN g /\ h[i] = g[i] /\ OnFile(s, i) /\ i \in DocId \ U
    BY DEF Good
  <2>2. OnFile(t, i)
    BY <2>1 DEF OnFile, Elsewhere, InUse
  <2> QED BY <2>1, <2>2
<1> QED BY <1>1, <1>2, <1>3 DEF Good

LEMMA AllocateIsGood ==
    ASSUME NEW s, NEW g, NEW h, NEW U, Good(s, g, h, U), FreeBlocks(s) # {},
           NEW i \in DocId, NEW v \in Content
    PROVE  LET t == AllocateAndWrite(s, i, v)
               b == NextBlock(s)
           IN  /\ Good(t, g, h, U) /\ Elsewhere(s, t, {})
               /\ b \in Block /\ t.heap[b] = <<i, v>> /\ b \notin t.pending
               /\ \A x \in DocId : <<x, b>> \notin t.prim
               /\ t.prim = s.prim /\ t.pending = s.pending
               /\ s.heap[b] = Empty /\ \A c \in Block \ {b} : t.heap[c] = s.heap[c]
<1> DEFINE t == AllocateAndWrite(s, i, v)
           b == NextBlock(s)
<1>1. s \in Store /\ Shape(s)
  BY DEF Good
<1>2. b \in Block /\ s.heap[b] = Empty
  BY <1>1, NextBlockIsFree
<1> HIDE DEF b
<1>3. /\ t \in Store /\ t.heap = [s.heap EXCEPT ![b] = <<i, v>>]
      /\ t.pending = s.pending /\ t.prim = s.prim /\ t.trees = s.trees
      /\ t.attached = s.attached /\ t.listed = s.listed /\ t.txn = s.txn
      /\ t.disk = s.disk /\ t.saved = s.saved /\ t.count = s.count /\ t.first = s.first
  BY <1>1, <1>2 DEF AllocateAndWrite, Store, Cell, b
<1>4. t.heap[b] = <<i, v>> /\ \A c \in Block : c # b => t.heap[c] = s.heap[c]
  BY <1>1, <1>2, <1>3 DEF Store
<1> HIDE DEF t
<1>5. b \notin s.pending
  BY <1>1, <1>2 DEF Shape
<1>6. \A x \in DocId : <<x, b>> \notin s.prim
  BY <1>1, <1>2, DocIsNotEmpty DEF Shape
<1>7. Elsewhere(s, t, {})
  BY <1>3, <1>4, <1>6 DEF Elsewhere
<1>8. Shape(t)
  <2>1. \A x \in DocId, c \in Block :
            <<x, c>> \in t.prim => t.heap[c] = <<x, t.heap[c][2]>> /\ c \notin t.pending
    BY <1>1, <1>3, <1>4, <1>6 DEF Shape
  <2>2. \A c \in t.pending : t.heap[c] # Empty
    BY <1>1, <1>3, <1>4, <1>5 DEF Shape, Store
  <2> QED BY <1>1, <1>3, <2>1, <2>2 DEF Shape
<1>9. Elsewhere(s, t, U)
  BY <1>7 DEF Elsewhere
<1>10. Good(t, g, h, U)
  BY <1>3, <1>8, <1>9, ElsewhereIsGood
<1> QED BY <1>2, <1>3, <1>4, <1>5, <1>6, <1>7, <1>10 DEF t, b

LEMMA WithEntryIsGood ==
    ASSUME NEW s, NEW g, NEW h, NEW U, Good(s, g, h, U),
           NEW i \in DocId \cap U, NEW v, NEW b \in Block,
           s.heap[b] = <<i, v>>, b \notin s.pending, ~Has(s, i)
    PROVE  LET t == WithEntry(s, i, b) IN
           /\ Good(t, g, h, U) /\ Elsewhere(s, t, {i})
           /\ t.prim = s.prim \cup {<<i, b>>} /\ t.trees = s.trees /\ t.heap = s.heap
           /\ t.pending = s.pending
<1> DEFINE t == WithEntry(s, i, b)
<1>1. s \in Store /\ Shape(s)
  BY DEF Good
<1>2. /\ t \in Store /\ t.heap = s.heap
      /\ t.pending = s.pending /\ t.prim = s.prim \cup {<<i, b>>} /\ t.trees = s.trees
      /\ t.attached = s.attached /\ t.listed = s.listed /\ t.txn = s.txn
      /\ t.disk = s.disk /\ t.saved = s.saved /\ t.count = s.count /\ t.first = s.first
  BY <1>1 DEF WithEntry, Store, Pointer
<1> HIDE DEF t
<1>3. Elsewhere(s, t, {i})
  BY <1>2 DEF Elsewhere
<1>4. Elsewhere(s, t, U)
  BY <1>3 DEF Elsewhere
<1>5. Shape(t)
  <2>1. \A x \in DocId, c, d \in Block : <<x, c>> \in t.prim /\ <<x, d>> \in t.prim => c = d
    BY <1>1, <1>2 DEF Shape, Has
  <2>2. \A x \in DocId, c \in Block :
            <<x, c>> \in t.prim => t.heap[c] = <<x, t.heap[c][2]>> /\ c \notin t.pending
    BY <1>1, <1>2 DEF Shape
  <2> QED BY <1>1, <1>2, <2>1, <2>2 DEF Shape
<1> QED BY <1>2, <1>3, <1>4, <1>5, ElsewhereIsGood DEF t

\* What the index has of i, after an entry was added or taken out.
KeyAdded(s, t, i, v, b) ==
    s.attached # NoTree =>
    \A w \in Value, c \in Block :
        <<w, i, c>> \in t.trees[s.attached]
            <=> <<w, i, c>> \in s.trees[s.attached] \/ (w = v /\ c = b)

KeyRemoved(s, t, i, v) ==
    s.attached # NoTree =>
    \A w \in Value, c \in Block :
        <<w, i, c>> \in t.trees[s.attached] <=> <<w, i, c>> \in s.trees[s.attached] /\ w # v

LEMMA WithKeyIsGood ==
    ASSUME NEW s, NEW g, NEW h, NEW U, Good(s, g, h, U),
           NEW i \in DocId \cap U, NEW v, NEW b \in Block
    PROVE  LET t == WithKey(s, v, i, b) IN
           /\ Good(t, g, h, U) /\ Elsewhere(s, t, {i})
           /\ t.prim = s.prim /\ t.heap = s.heap /\ t.pending = s.pending
           /\ KeyAdded(s, t, i, v, b)
<1> DEFINE t == WithKey(s, v, i, b)
<1>1. s \in Store /\ Shape(s)
  BY DEF Good
<1>2. CASE s.attached # NoTree /\ v \in Value
  <2>1. /\ t \in Store /\ t.heap = s.heap
        /\ t.pending = s.pending /\ t.prim = s.prim
        /\ t.trees = [s.trees EXCEPT ![s.attached] = @ \cup {<<v, i, b>>}]
        /\ t.attached = s.attached /\ t.listed = s.listed /\ t.txn = s.txn
        /\ t.disk = s.disk /\ t.saved = s.saved /\ t.count = s.count /\ t.first = s.first
    BY SMTT(30), <1>1, <1>2 DEF WithKey, Store, Entry
  <2>2. /\ t.trees[s.attached] = s.trees[s.attached] \cup {<<v, i, b>>}
        /\ t.trees[NoTree] = s.trees[NoTree]
    BY <1>1, <1>2, <2>1 DEF Store, Trees
  <2> HIDE DEF t
  <2>3. Elsewhere(s, t, {i})
    BY <2>1, <2>2 DEF Elsewhere
  <2>4. Elsewhere(s, t, U)
    BY <2>3 DEF Elsewhere
  <2>5. Shape(t)
    BY <1>1, <2>1, <2>2 DEF Shape
  <2>6. KeyAdded(s, t, i, v, b)
    BY <1>2, <2>1, <2>2 DEF KeyAdded
  <2> QED BY <2>1, <2>3, <2>4, <2>5, <2>6, ElsewhereIsGood DEF t
<1>3. CASE ~(s.attached # NoTree /\ v \in Value)
  <2>1. t = s
    BY <1>3 DEF WithKey
  <2> QED BY <1>3, <2>1 DEF Elsewhere, KeyAdded
<1> QED BY <1>2, <1>3

LEMMA WithoutKeyIsGood ==
    ASSUME NEW s, NEW g, NEW h, NEW U, Good(s, g, h, U), NEW i \in DocId \cap U, NEW v
    PROVE  LET t == WithoutKey(s, v, i) IN
           /\ Good(t, g, h, U) /\ Elsewhere(s, t, {i})
           /\ t.prim = s.prim /\ t.heap = s.heap /\ t.pending = s.pending
           /\ KeyRemoved(s, t, i, v)
<1> DEFINE t == WithoutKey(s, v, i)
<1>1. s \in Store /\ Shape(s)
  BY DEF Good
<1>2. CASE s.attached # NoTree
  <2> DEFINE left == {e \in s.trees[s.attached] : <<e[1], e[2]>> # <<v, i>>}
  <2>0. left \subseteq s.trees[s.attached]
    OBVIOUS
  <2>1. /\ t \in Store /\ t.heap = s.heap
        /\ t.pending = s.pending /\ t.prim = s.prim
        /\ t.trees = [s.trees EXCEPT ![s.attached] = left]
        /\ t.attached = s.attached /\ t.listed = s.listed /\ t.txn = s.txn
        /\ t.disk = s.disk /\ t.saved = s.saved /\ t.count = s.count /\ t.first = s.first
    BY <1>1, <1>2 DEF WithoutKey, Store
  <2>2. t.trees[s.attached] = left /\ t.trees[NoTree] = s.trees[NoTree]
    BY <1>1, <1>2, <2>1 DEF Store, Trees
  <2>3. \A w \in Value, x \in DocId, c \in Block :
            <<w, x, c>> \in left
                <=> <<w, x, c>> \in s.trees[s.attached] /\ ~(w = v /\ x = i)
    OBVIOUS
  <2> HIDE DEF t, left
  <2>4. Elsewhere(s, t, {i})
    BY <2>1, <2>2, <2>3 DEF Elsewhere
  <2>5. Elsewhere(s, t, U)
    BY <2>4 DEF Elsewhere
  <2>6. Shape(t)
    BY <1>1, <2>1, <2>2 DEF Shape
  <2>7. KeyRemoved(s, t, i, v)
    BY <2>1, <2>2, <2>3 DEF KeyRemoved
  <2> QED BY <2>1, <2>4, <2>5, <2>6, <2>7, ElsewhereIsGood DEF t
<1>3. CASE s.attached = NoTree
  <2>1. t = s
    BY <1>3 DEF WithoutKey
  <2> QED BY <1>3, <2>1 DEF Elsewhere, KeyRemoved
<1> QED BY <1>2, <1>3

\* A document written over in its block.
LEMMA RewriteIsGood ==
    ASSUME NEW s, NEW g, NEW h, NEW U, Good(s, g, h, U),
           NEW i \in DocId \cap U, NEW v \in Content, NEW b \in Block, <<i, b>> \in s.prim
    PROVE  LET t == [s EXCEPT !.heap[b] = <<i, v>>] IN
           /\ Good(t, g, h, U) /\ Elsewhere(s, t, {i})
           /\ t.prim = s.prim /\ t.trees = s.trees /\ t.heap[b] = <<i, v>>
<1> DEFINE t == [s EXCEPT !.heap[b] = <<i, v>>]
<1>1. s \in Store /\ Shape(s)
  BY DEF Good
<1>2. /\ t \in Store /\ t.heap = [s.heap EXCEPT ![b] = <<i, v>>]
      /\ t.pending = s.pending /\ t.prim = s.prim /\ t.trees = s.trees
      /\ t.attached = s.attached /\ t.listed = s.listed /\ t.txn = s.txn
      /\ t.disk = s.disk /\ t.saved = s.saved /\ t.count = s.count /\ t.first = s.first
  BY <1>1 DEF Store, Cell
<1>3. t.heap[b] = <<i, v>> /\ \A c \in Block : c # b => t.heap[c] = s.heap[c]
  BY <1>1, <1>2 DEF Store
<1> HIDE DEF t
<1>4. \A x \in DocId : <<x, b>> \in s.prim => x = i
  BY <1>1 DEF Shape
<1>5. Elsewhere(s, t, {i})
  BY <1>2, <1>3, <1>4 DEF Elsewhere
<1>6. Elsewhere(s, t, U)
  BY <1>5 DEF Elsewhere
<1>7. Shape(t)
  <2>1. \A x \in DocId, c \in Block :
            <<x, c>> \in t.prim => t.heap[c] = <<x, t.heap[c][2]>> /\ c \notin t.pending
    BY <1>1, <1>2, <1>3, <1>4 DEF Shape
  <2>2. \A c \in t.pending : t.heap[c] # Empty
    BY <1>1, <1>2, <1>3, DocIsNotEmpty DEF Shape, Store
  <2> QED BY <1>1, <1>2, <2>1, <2>2 DEF Shape
<1> QED BY <1>2, <1>3, <1>5, <1>6, <1>7, ElsewhereIsGood DEF t

\* An id taken out of the primary tree.
LEMMA RemoveIsGood ==
    ASSUME NEW s, NEW g, NEW h, NEW U, Good(s, g, h, U), ~s.txn.on, NEW i \in DocId \cap U
    PROVE  LET t == [s EXCEPT !.prim = {e \in @ : e[1] # i}] IN
           /\ Good(t, g, h, U) /\ Elsewhere(s, t, {i}) /\ ~Has(t, i)
           /\ t.heap = s.heap /\ t.pending = s.pending /\ t.trees = s.trees
           /\ \A x \in DocId, b \in Block : <<x, b>> \in t.prim <=> <<x, b>> \in s.prim /\ x # i
<1> DEFINE left == {e \in s.prim : e[1] # i}
           t == [s EXCEPT !.prim = {e \in @ : e[1] # i}]
<1>1. s \in Store /\ Shape(s)
  BY DEF Good
<1>2. /\ t \in Store /\ t.heap = s.heap
      /\ t.pending = s.pending /\ t.prim = left /\ t.trees = s.trees
      /\ t.attached = s.attached /\ t.listed = s.listed /\ t.txn = s.txn
      /\ t.disk = s.disk /\ t.saved = s.saved /\ t.count = s.count /\ t.first = s.first
  BY <1>1 DEF Store
<1>3. \A x \in DocId, b \in Block : <<x, b>> \in left <=> <<x, b>> \in s.prim /\ x # i
  OBVIOUS
<1> HIDE DEF t, left
<1>4. Elsewhere(s, t, {i}) /\ Elsewhere(s, t, U)
  BY <1>2, <1>3 DEF Elsewhere
<1>5. Shape(t)
  BY <1>1, <1>2, <1>3 DEF Shape
<1> QED BY <1>2, <1>3, <1>4, <1>5, ElsewhereIsGood DEF t, Has

\* A block freed.
LEMMA FreeIsGood ==
    ASSUME NEW s, NEW g, NEW h, NEW U, Good(s, g, h, U),
           NEW b \in Block, s.heap[b] # Empty, \A x \in DocId : <<x, b>> \notin s.prim
    PROVE  LET t == [s EXCEPT !.pending = @ \cup {b}] IN
           /\ Good(t, g, h, U) /\ Elsewhere(s, t, {})
           /\ t.heap = s.heap /\ t.prim = s.prim /\ t.trees = s.trees
<1> DEFINE t == [s EXCEPT !.pending = @ \cup {b}]
<1>1. s \in Store /\ Shape(s)
  BY DEF Good
<1>2. /\ t \in Store /\ t.heap = s.heap
      /\ t.pending = s.pending \cup {b} /\ t.prim = s.prim /\ t.trees = s.trees
      /\ t.attached = s.attached /\ t.listed = s.listed /\ t.txn = s.txn
      /\ t.disk = s.disk /\ t.saved = s.saved /\ t.count = s.count /\ t.first = s.first
  BY <1>1 DEF Store
<1> HIDE DEF t
<1>3. Elsewhere(s, t, {}) /\ Elsewhere(s, t, U)
  BY <1>2 DEF Elsewhere
<1>4. Shape(t)
  BY <1>1, <1>2 DEF Shape
<1> QED BY <1>2, <1>3, <1>4, ElsewhereIsGood DEF t

\* The flags and the count.
LEMMA FlagsAreGood ==
    ASSUME NEW s, NEW g, NEW h, NEW U, Good(s, g, h, U), NEW t \in Store,
           t.heap = s.heap, t.pending = s.pending, t.prim = s.prim, t.trees = s.trees,
           t.attached = s.attached, t.listed = s.listed, t.txn = s.txn,
           t.disk = s.disk, t.saved = s.saved
    PROVE  Good(t, g, h, U)
<1>1. s \in Store /\ Shape(s)
  BY DEF Good
<1>2. \A i \in DocId : /\ TrueIndex(s, i) <=> TrueIndex(t, i)
                       /\ InTxn(s, i) <=> InTxn(t, i)
                       /\ TrueOnDisk(s, i) <=> TrueOnDisk(t, i)
                       /\ Has(s, i) <=> Has(t, i)
  BY DEF TrueIndex, InTxn, TrueOnDisk, Has, InUse
<1>3. \A i : /\ \A x : Reads(s, i, x) <=> Reads(t, i, x)
             /\ OnFile(s, i) <=> OnFile(t, i)
  BY DEF Reads, OnFile, InUse
<1>4. Shape(t)
  BY <1>1 DEF Shape
<1> QED BY <1>2, <1>3, <1>4 DEF Good

-----------------------------------------------------------------------------
(* The commits. *)

LEMMA FlushIsGood ==
    ASSUME NEW s, NEW g, NEW h, NEW U, Good(s, g, h, U)
    PROVE  LET t == Flush(s) IN
           /\ Good(t, g, h, U)
           /\ t.heap = s.heap /\ t.pending = s.pending /\ t.prim = s.prim /\ t.trees = s.trees
           /\ t.attached = s.attached /\ t.listed = s.listed /\ t.txn = s.txn
           /\ t.saved = s.saved /\ t.count = s.count /\ t.first = s.first
           /\ t.idLast = s.idLast /\ t.auto = s.auto
           /\ ~s.txn.on => \A i \in DocId : TrueIndex(t, i) => TrueOnDisk(t, i)
<1> DEFINE t == Flush(s)
           keys == IF s.txn.on /\ s.listed = s.txn.tree THEN s.txn.keys ELSE s.trees[s.listed]
           prim == IF s.txn.on THEN s.txn.prim ELSE s.prim
<1>1. s \in Store /\ Shape(s)
  BY DEF Good
<1>2. /\ keys \in SUBSET Entry /\ prim \in SUBSET Pointer
      /\ t.disk = [prim |-> prim, listed |-> s.listed, keys |-> keys]
  BY <1>1 DEF Flush, Store
<1>3. /\ t \in Store /\ t.heap = s.heap
      /\ t.pending = s.pending /\ t.prim = s.prim /\ t.trees = s.trees
      /\ t.attached = s.attached /\ t.listed = s.listed /\ t.txn = s.txn
      /\ t.saved = s.saved /\ t.count = s.count /\ t.first = s.first
      /\ t.idLast = s.idLast /\ t.auto = s.auto
  BY <1>1, <1>2 DEF Flush, Store
<1>4. t.disk.prim = prim /\ t.disk.listed = s.listed /\ t.disk.keys = keys
  BY <1>2
<1>5. s.listed = NoTree => keys = {}
  BY <1>1 DEF Shape
<1> HIDE DEF t
<1>6. Shape(t)
  BY <1>1, <1>3, <1>4, <1>5 DEF Shape
<1>7. ASSUME NEW i \in DocId, InTxn(s, i) \/ ~s.txn.on
      PROVE  /\ \A b \in Block : <<i, b>> \in prim <=> <<i, b>> \in s.prim
             /\ InUse(s) /\ s.listed # NoTree =>
                \A v \in Value, b \in Block :
                    <<v, i, b>> \in keys <=> <<v, i, b>> \in s.trees[s.attached]
  BY <1>1, <1>7 DEF InTxn, Shape, InUse
<1> HIDE DEF keys, prim
<1>8. ASSUME NEW i \in DocId, InTxn(s, i) \/ ~s.txn.on, TrueIndex(t, i)
      PROVE  TrueOnDisk(t, i)
  <2>1. CASE s.listed = NoTree
    BY <1>3, <1>4, <1>5, <2>1 DEF TrueOnDisk
  <2>2. CASE s.listed # NoTree
    BY <1>3, <1>4, <1>7, <1>8, <2>2 DEF TrueOnDisk, TrueIndex, InUse
  <2> QED BY <2>1, <2>2
<1>9. ASSUME NEW i \in DocId \ U
      PROVE  /\ TrueIndex(t, i) /\ InTxn(t, i) /\ TrueOnDisk(t, i)
             /\ Has(t, i) => i \in DOMAIN g
  <2>1. TrueIndex(s, i) /\ InTxn(s, i) /\ (Has(s, i) => i \in DOMAIN g)
    BY DEF Good
  <2>2. TrueIndex(t, i) /\ InTxn(t, i) /\ (Has(t, i) => i \in DOMAIN g)
    BY <1>3, <2>1 DEF TrueIndex, InTxn, Has
  <2> QED BY <1>8, <2>1, <2>2
<1>10. ASSUME NEW i \in DOMAIN g
       PROVE  i \in DocId \ U /\ Reads(t, i, g[i])
  BY <1>3 DEF Good, Reads
<1>11. ASSUME NEW i \in DOMAIN h
       PROVE  i \in DOMAIN g /\ h[i] = g[i] /\ OnFile(t, i)
  <2>1. i \in DOMAIN g /\ h[i] = g[i] /\ OnFile(s, i) /\ i \in DocId \ U
    BY DEF Good
  <2>2. TrueIndex(s, i) /\ InTxn(s, i)
    BY <2>1 DEF Good
  <2>3. ASSUME InUse(t), t.listed # NoTree, NEW v \in Value, NEW b \in Block,
               <<i, b>> \in t.prim, t.heap[b] = <<i, v>>
        PROVE  <<v, i, b>> \in t.disk.keys
    BY <1>3, <1>4, <1>7, <2>1, <2>2, <2>3 DEF TrueIndex, InUse
  <2>4. \A b \in Block :
            /\ <<i, b>> \in t.disk.prim <=> <<i, b>> \in t.prim
            /\ <<i, b>> \in t.prim => t.saved[b] = t.heap[b]
    BY <1>3, <1>4, <1>7, <2>1, <2>2 DEF OnFile
  <2> QED BY <2>1, <2>3, <2>4 DEF OnFile
<1>12. Good(t, g, h, U)
  BY <1>3, <1>6, <1>9, <1>10, <1>11 DEF Good
<1> QED BY <1>3, <1>8, <1>12 DEF t

LEMMA CommitHeapIsGood ==
    ASSUME NEW s, NEW g, NEW h, NEW U, Good(s, g, h, U)
    PROVE  LET t == CommitHeap(s) IN
           /\ Good(t, g, h, U)
           /\ t.prim = s.prim /\ t.trees = s.trees
           /\ t.attached = s.attached /\ t.listed = s.listed /\ t.txn = s.txn
           /\ t.disk = s.disk /\ t.count = s.count /\ t.first = s.first
           /\ t.saved = t.heap /\ t.pending = {}
<1> DEFINE t == CommitHeap(s)
           now == [b \in Block |-> IF b \in s.pending THEN Empty ELSE s.heap[b]]
<1>1. s \in Store /\ Shape(s)
  BY DEF Good
<1>2. now \in [Block -> Cell]
  BY <1>1 DEF Store, Cell
<1>3. /\ t \in Store /\ t.heap = now /\ t.saved = now /\ t.pending = {}
      /\ t.prim = s.prim /\ t.trees = s.trees
      /\ t.attached = s.attached /\ t.listed = s.listed /\ t.txn = s.txn
      /\ t.disk = s.disk /\ t.count = s.count /\ t.first = s.first
  BY <1>1, <1>2 DEF CommitHeap, Store
<1> HIDE DEF t
<1>4. ASSUME NEW i \in DocId, NEW b \in Block, <<i, b>> \in s.prim
      PROVE  now[b] = s.heap[b]
  BY <1>1, <1>4 DEF Shape
<1> HIDE DEF now
<1>5. Shape(t)
  <2>1. \A x \in DocId, c \in Block :
            <<x, c>> \in t.prim => t.heap[c] = <<x, t.heap[c][2]>> /\ c \notin t.pending
    BY <1>1, <1>3, <1>4 DEF Shape
  <2> QED BY <1>1, <1>3, <2>1 DEF Shape
<1>6. ASSUME NEW i \in DocId \ U
      PROVE  /\ TrueIndex(t, i) /\ InTxn(t, i) /\ TrueOnDisk(t, i)
             /\ Has(t, i) => i \in DOMAIN g
  <2>1. TrueIndex(s, i) /\ InTxn(s, i) /\ TrueOnDisk(s, i) /\ (Has(s, i) => i \in DOMAIN g)
    BY DEF Good
  <2>2. TrueIndex(t, i)
    BY <1>3, <1>4, <2>1 DEF TrueIndex
  <2>3. InTxn(t, i) /\ (Has(t, i) => i \in DOMAIN g) /\ TrueOnDisk(t, i)
    BY <1>3, <2>1 DEF InTxn, Has, TrueOnDisk, InUse
  <2> QED BY <2>2, <2>3
<1>7. ASSUME NEW i \in DOMAIN g
      PROVE  i \in DocId \ U /\ Reads(t, i, g[i])
  BY ZenonT(60), <1>3, <1>4 DEF Good, Reads
<1>8. ASSUME NEW i \in DOMAIN h
      PROVE  i \in DOMAIN g /\ h[i] = g[i] /\ OnFile(t, i)
  <2>1. i \in DOMAIN g /\ h[i] = g[i] /\ OnFile(s, i) /\ i \in DocId \ U
    BY DEF Good
  <2>2. OnFile(t, i)
    BY <1>3, <1>4, <2>1 DEF OnFile, InUse
  <2> QED BY <2>1, <2>2
<1> QED BY <1>3, <1>5, <1>6, <1>7, <1>8 DEF Good, t

\* After the two commits everything is on file.
LEMMA CommittedIsGood ==
    ASSUME NEW s, NEW g, NEW h, NEW U, Good(s, g, h, U), ~s.txn.on
    PROVE  LET t == Flush(CommitHeap(s)) IN
           /\ Good(t, g, g, U)
           /\ t.saved = t.heap /\ t.pending = {} /\ t.disk.prim = t.prim
           /\ t.disk.keys = t.trees[t.listed] /\ ~t.txn.on
           /\ t.prim = s.prim /\ t.trees = s.trees
           /\ t.attached = s.attached /\ t.listed = s.listed
           /\ t.count = s.count /\ t.first = s.first
<1> DEFINE c == CommitHeap(s)
           t == Flush(c)
<1>1. /\ Good(c, g, h, U) /\ ~c.txn.on /\ c.saved = c.heap /\ c.pending = {}
      /\ c.prim = s.prim /\ c.trees = s.trees
      /\ c.attached = s.attached /\ c.listed = s.listed
      /\ c.count = s.count /\ c.first = s.first
  BY CommitHeapIsGood
<1> HIDE DEF c
<1>2. /\ Good(t, g, h, U) /\ ~t.txn.on /\ t.saved = t.heap /\ t.pending = {}
      /\ t.prim = c.prim /\ t.trees = c.trees
      /\ t.attached = c.attached /\ t.listed = c.listed
      /\ t.count = c.count /\ t.first = c.first
  BY <1>1, FlushIsGood
<1>3. t.disk.prim = t.prim /\ t.disk.keys = t.trees[t.listed]
  <2>1. c \in Store
    BY <1>1 DEF Good
  <2>2. t.disk = [prim |-> c.prim, listed |-> c.listed, keys |-> c.trees[c.listed]]
    BY <1>1, <2>1 DEF Flush, Store
  <2> QED BY <1>2, <2>2
<1> HIDE DEF t
<1>4. ASSUME NEW i \in DOMAIN g
      PROVE  OnFile(t, i)
  <2>1. TrueIndex(t, i)
    BY <1>2 DEF Good
  <2>2. i \in DocId
    BY <1>2 DEF Good
  <2> QED BY <1>2, <1>3, <2>1, <2>2 DEF OnFile, TrueIndex, InUse
<1>5. Good(t, g, g, U)
  BY <1>2, <1>4 DEF Good
<1> QED BY <1>1, <1>2, <1>3, <1>5 DEF t, c

-----------------------------------------------------------------------------
(* The secondary index. *)

LEMMA EntriesAreTrue ==
    ASSUME NEW s \in Store, Shape(s)
    PROVE  /\ IndexEntries(s) \in SUBSET Entry
           /\ \A v \in Value, x \in DocId, b \in Block :
                <<v, x, b>> \in IndexEntries(s) <=> <<x, b>> \in s.prim /\ s.heap[b] = <<x, v>>
<1>1. ASSUME NEW e \in s.prim, s.heap[e[2]] # Empty, s.heap[e[2]][2] \in Value
      PROVE  <<s.heap[e[2]][2], e[1], e[2]>> \in Entry
  BY <1>1 DEF Store, Pointer, Entry
<1>2. IndexEntries(s) \in SUBSET Entry
  BY <1>1 DEF IndexEntries
<1>3. ASSUME NEW v \in Value, NEW x \in DocId, NEW b \in Block,
             <<v, x, b>> \in IndexEntries(s)
      PROVE  <<x, b>> \in s.prim /\ s.heap[b] = <<x, v>>
  <2>1. PICK e \in s.prim : /\ s.heap[e[2]] # Empty
                            /\ <<v, x, b>> = <<s.heap[e[2]][2], e[1], e[2]>>
    BY <1>3 DEF IndexEntries
  <2>2. e = <<x, b>> /\ s.heap[b][2] = v
    BY <2>1 DEF Store, Pointer
  <2> QED BY <2>2 DEF Shape
<1>4. ASSUME NEW v \in Value, NEW x \in DocId, NEW b \in Block,
             <<x, b>> \in s.prim, s.heap[b] = <<x, v>>
      PROVE  <<v, x, b>> \in IndexEntries(s)
  <2> DEFINE e == <<x, b>>
  <2>1. e \in s.prim /\ s.heap[e[2]] # Empty /\ s.heap[e[2]][2] \in Value
    BY <1>4, DocIsNotEmpty
  <2>2. <<v, x, b>> = <<s.heap[e[2]][2], e[1], e[2]>>
    BY <1>4
  <2> QED BY <2>1, <2>2 DEF IndexEntries
<1> QED BY <1>2, <1>3, <1>4

\* A tree built where nothing points at it.
LEMMA BuiltIsGood ==
    ASSUME NEW s, NEW g, NEW h, NEW U, Good(s, g, h, U), s.attached = NoTree
    PROVE  LET k == NewTree(s)
               t == [s EXCEPT !.trees[k] = IndexEntries(s)] IN
           /\ Good(t, g, h, U) /\ Elsewhere(s, t, {})
           /\ t.heap = s.heap /\ t.prim = s.prim
           /\ t.trees[k] = IndexEntries(t)
           /\ k \in Trees /\ k \notin {NoTree, t.listed}
<1> DEFINE k == NewTree(s)
           t == [s EXCEPT !.trees[k] = IndexEntries(s)]
<1>1. s \in Store /\ Shape(s)
  BY DEF Good
<1>2. k \in Trees /\ k \notin {NoTree, s.attached, s.listed}
  BY <1>1, NewTreeIsUnused
<1>3. IndexEntries(s) \in SUBSET Entry
  BY <1>1, EntriesAreTrue
<1> HIDE DEF k
<1>4. /\ t \in Store /\ t.heap = s.heap
      /\ t.pending = s.pending /\ t.prim = s.prim
      /\ t.trees = [s.trees EXCEPT ![k] = IndexEntries(s)]
      /\ t.attached = s.attached /\ t.listed = s.listed /\ t.txn = s.txn
      /\ t.disk = s.disk /\ t.saved = s.saved /\ t.count = s.count /\ t.first = s.first
  BY <1>1, <1>2, <1>3 DEF Store
<1>5. t.trees[k] = IndexEntries(s) /\ t.trees[NoTree] = s.trees[NoTree]
  BY <1>1, <1>2, <1>4 DEF Store, Trees
<1> HIDE DEF t
<1>6. Elsewhere(s, t, {}) /\ Elsewhere(s, t, U)
  BY <1>4, <1>5 DEF Elsewhere
<1>7. Shape(t)
  BY <1>1, <1>4, <1>5 DEF Shape
<1>8. IndexEntries(t) = IndexEntries(s)
  BY <1>4 DEF IndexEntries
<1> QED BY <1>2, <1>4, <1>5, <1>6, <1>7, <1>8, ElsewhereIsGood DEF t, k

\* The built tree among Collection.indexes.
LEMMA AttachedIsGood ==
    ASSUME NEW s, NEW g, NEW h, NEW U, Good(s, g, h, U), s.attached = NoTree,
           NEW k \in Trees, k \notin {NoTree, s.listed}, s.trees[k] = IndexEntries(s)
    PROVE  LET t == [s EXCEPT !.attached = k] IN
           /\ Good(t, g, h, U)
           /\ t.heap = s.heap /\ t.prim = s.prim /\ t.attached = k /\ t.listed = s.listed
           /\ t.txn = s.txn /\ t.count = s.count /\ t.first = s.first
           /\ InUse(t) <=> InUse(s)
           /\ \A i \in DocId : TrueIndex(t, i)
<1> DEFINE t == [s EXCEPT !.attached = k]
<1>1. s \in Store /\ Shape(s)
  BY DEF Good
<1>2. /\ t \in Store /\ t.heap = s.heap
      /\ t.pending = s.pending /\ t.prim = s.prim /\ t.trees = s.trees
      /\ t.attached = k /\ t.listed = s.listed /\ t.txn = s.txn
      /\ t.disk = s.disk /\ t.saved = s.saved /\ t.count = s.count /\ t.first = s.first
  BY <1>1 DEF Store
<1> HIDE DEF t
<1>3. InUse(t) <=> InUse(s)
  BY <1>2 DEF InUse
<1>4. Shape(t)
  BY <1>1, <1>2 DEF Shape
<1>5. \A i \in DocId : TrueIndex(t, i)
  BY <1>1, <1>2, EntriesAreTrue DEF TrueIndex
<1>6. \A i \in DocId : /\ InTxn(s, i) => InTxn(t, i)
                       /\ TrueOnDisk(s, i) => TrueOnDisk(t, i)
                       /\ Has(s, i) <=> Has(t, i)
                       /\ \A x : Reads(s, i, x) => Reads(t, i, x)
                       /\ OnFile(s, i) => OnFile(t, i)
  BY <1>2, <1>3 DEF InTxn, TrueOnDisk, Has, Reads, OnFile
<1>7. Good(t, g, h, U)
  <2>1. \A i \in DocId \ U :
        /\ TrueIndex(t, i) /\ InTxn(t, i) /\ TrueOnDisk(t, i)
        /\ Has(t, i) => i \in DOMAIN g
    BY <1>5, <1>6 DEF Good
  <2>2. \A i \in DOMAIN g : i \in DocId \ U /\ Reads(t, i, g[i])
    BY <1>6 DEF Good
  <2>3. \A i \in DOMAIN h : i \in DOMAIN g /\ h[i] = g[i] /\ OnFile(t, i)
    BY <1>6, <2>2 DEF Good
  <2> QED BY <1>2, <1>4, <2>1, <2>2, <2>3 DEF Good
<1> QED BY <1>2, <1>3, <1>5, <1>7 DEF t

\* The tree out of Collection.indexes.
LEMMA DetachedIsGood ==
    ASSUME NEW s, NEW g, NEW h, NEW U, Good(s, g, h, U), ~s.txn.on, NEW t \in Store,
           t.heap = s.heap, t.pending = s.pending, t.prim = s.prim, t.trees = s.trees,
           t.attached = NoTree, t.listed = s.listed, t.txn = s.txn,
           t.disk = s.disk, t.saved = s.saved
    PROVE  Good(t, g, h, U)
<1>1. Shape(t)
  BY DEF Good, Shape
<1>2. t.listed = NoTree => t.disk.keys = {}
  BY <1>1 DEF Shape
<1>3. \A i \in DocId : /\ TrueIndex(t, i)
                       /\ InTxn(t, i)
                       /\ TrueOnDisk(t, i)
                       /\ Has(s, i) <=> Has(t, i)
                       /\ \A x : Reads(s, i, x) => Reads(t, i, x)
                       /\ OnFile(s, i) => OnFile(t, i)
  BY <1>2 DEF TrueIndex, InTxn, TrueOnDisk, Has, Reads, OnFile, InUse
<1>4. \A i \in DOMAIN g : i \in DocId \ U /\ Reads(t, i, g[i])
  BY <1>3 DEF Good
<1>5. \A i \in DOMAIN h : i \in DOMAIN g /\ h[i] = g[i] /\ OnFile(t, i)
  BY <1>3, <1>4 DEF Good
<1> QED BY <1>1, <1>3, <1>4, <1>5 DEF Good

\* The header lists what is maintained.
LEMMA ListedIsGood ==
    ASSUME NEW s, NEW g, NEW h, NEW U, Good(s, g, h, U)
    PROVE  LET t == Listed(s) IN
           /\ Good(t, g, h, U)
           /\ t.heap = s.heap /\ t.pending = s.pending /\ t.prim = s.prim /\ t.attached = s.attached
           /\ t.trees[t.attached] = s.trees[s.attached]
           /\ t.txn = s.txn /\ t.count = s.count /\ t.first = s.first
           /\ InUse(t)
<1> DEFINE r == [s EXCEPT !.listed = s.attached]
           f == Flush(r)
           t == Listed(s)
           keys == IF s.txn.on /\ s.attached = s.txn.tree THEN s.txn.keys ELSE s.trees[s.attached]
           prim == IF s.txn.on THEN s.txn.prim ELSE s.prim
           left == [k \in Trees |-> IF k \in {s.attached} THEN s.trees[k] ELSE {}]
<1>1. s \in Store /\ Shape(s)
  BY DEF Good
<1>2. /\ r \in Store /\ r.heap = s.heap
      /\ r.pending = s.pending /\ r.prim = s.prim /\ r.trees = s.trees
      /\ r.attached = s.attached /\ r.listed = s.attached /\ r.txn = s.txn
      /\ r.saved = s.saved /\ r.count = s.count /\ r.first = s.first
  BY <1>1 DEF Store
<1>3. /\ keys \in SUBSET Entry /\ prim \in SUBSET Pointer
      /\ left \in [Trees -> SUBSET Entry]
  BY <1>1 DEF Store
<1> HIDE DEF r
<1>4. /\ f \in Store /\ f.heap = s.heap
      /\ f.pending = s.pending /\ f.prim = s.prim /\ f.trees = s.trees
      /\ f.attached = s.attached /\ f.listed = s.attached /\ f.txn = s.txn
      /\ f.saved = s.saved /\ f.count = s.count /\ f.first = s.first
      /\ f.disk = [prim |-> prim, listed |-> s.attached, keys |-> keys]
  BY <1>2, <1>3 DEF Flush, Store
<1>5. t = [f EXCEPT !.trees = left]
  <2>1. t = Forget(f)
    BY DEF Listed, r
  <2>2. DOMAIN f.trees = Trees
    BY <1>4 DEF Store
  <2> HIDE DEF f, t
  <2> QED BY <1>4, <2>1, <2>2 DEF Forget
<1> HIDE DEF f
<1>6. /\ t \in Store /\ t.heap = s.heap
      /\ t.pending = s.pending /\ t.prim = s.prim /\ t.trees = left
      /\ t.attached = s.attached /\ t.listed = s.attached /\ t.txn = s.txn
      /\ t.saved = s.saved /\ t.count = s.count /\ t.first = s.first
      /\ t.disk.prim = prim /\ t.disk.listed = s.attached /\ t.disk.keys = keys
  <2> HIDE DEF t, left
  <2>1. /\ t \in Store /\ t.heap = f.heap
        /\ t.pending = f.pending /\ t.prim = f.prim /\ t.trees = left
        /\ t.attached = f.attached /\ t.listed = f.listed /\ t.txn = f.txn
        /\ t.saved = f.saved /\ t.count = f.count /\ t.first = f.first
        /\ t.disk = f.disk
    BY <1>3, <1>4, <1>5 DEF Store
  <2> QED BY <1>4, <2>1
<1>7. s.attached \in Trees /\ NoTree \in Trees /\ (s.txn.on => s.txn.tree \in {NoTree, s.attached})
  BY <1>1 DEF Store, Trees, Shape
<1>8. /\ left[s.attached] = s.trees[s.attached] /\ left[NoTree] = s.trees[NoTree]
      /\ s.attached = NoTree => keys = {}
  BY <1>1, <1>7 DEF Shape
<1> HIDE DEF t, left
<1>9. Shape(t)
  BY <1>1, <1>6, <1>8 DEF Shape
<1>10. ASSUME NEW i \in DocId, InTxn(s, i)
       PROVE  /\ \A b \in Block : <<i, b>> \in prim <=> <<i, b>> \in s.prim
              /\ \A v \in Value, b \in Block :
                    <<v, i, b>> \in keys <=> <<v, i, b>> \in s.trees[s.attached]
  BY <1>10 DEF InTxn
<1> HIDE DEF keys, prim
<1>11. ASSUME NEW i \in DocId \ U
      PROVE  /\ TrueIndex(t, i) /\ InTxn(t, i) /\ TrueOnDisk(t, i)
             /\ Has(t, i) => i \in DOMAIN g
  <2>1. TrueIndex(s, i) /\ InTxn(s, i) /\ (Has(s, i) => i \in DOMAIN g)
    BY DEF Good
  <2>2. TrueIndex(t, i) /\ (Has(t, i) => i \in DOMAIN g)
    BY <1>6, <1>8, <2>1 DEF TrueIndex, Has
  <2>3. InTxn(t, i)
    BY <1>6, <1>7, <1>8, <2>1 DEF InTxn
  <2>4. TrueOnDisk(t, i)
    BY <1>6, <1>8, <1>10, <2>1 DEF TrueOnDisk, TrueIndex
  <2> QED BY <2>1, <2>2, <2>3, <2>4
<1>12. ASSUME NEW i \in DOMAIN g
       PROVE  i \in DocId \ U /\ Reads(t, i, g[i])
  BY <1>6 DEF Good, Reads
<1>13. ASSUME NEW i \in DOMAIN h
       PROVE  i \in DOMAIN g /\ h[i] = g[i] /\ OnFile(t, i)
  <2>1. i \in DOMAIN g /\ h[i] = g[i] /\ OnFile(s, i) /\ i \in DocId \ U
    BY DEF Good
  <2>2. TrueIndex(s, i) /\ InTxn(s, i)
    BY <2>1 DEF Good
  <2>3. ASSUME t.listed # NoTree, NEW v \in Value, NEW b \in Block,
               <<i, b>> \in t.prim, t.heap[b] = <<i, v>>
        PROVE  <<v, i, b>> \in t.disk.keys
    BY <1>6, <1>10, <2>1, <2>2, <2>3 DEF TrueIndex
  <2>4. \A b \in Block :
            /\ <<i, b>> \in t.disk.prim <=> <<i, b>> \in t.prim
            /\ <<i, b>> \in t.prim => t.saved[b] = t.heap[b]
    BY <1>6, <1>10, <2>1, <2>2 DEF OnFile
  <2> QED BY <2>1, <2>3, <2>4 DEF OnFile
<1>14. Good(t, g, h, U)
  BY <1>6, <1>9, <1>11, <1>12, <1>13 DEF Good
<1> QED BY <1>6, <1>8, <1>14 DEF t, InUse

-----------------------------------------------------------------------------
(* Transactions. *)

LEMMA BegunIsGood ==
    ASSUME NEW s, NEW g, NEW h, NEW U, Good(s, g, h, U)
    PROVE  LET t == Begun(s) IN
           /\ Good(t, g, h, U) /\ t.txn.on
           /\ t.heap = s.heap /\ t.prim = s.prim /\ t.trees = s.trees /\ t.pending = s.pending
           /\ t.attached = s.attached /\ t.listed = s.listed
           /\ t.disk = s.disk /\ t.saved = s.saved /\ t.count = s.count /\ t.first = s.first
<1> DEFINE t == Begun(s)
<1>1. s \in Store /\ Shape(s)
  BY DEF Good
<1>2. /\ t \in Store /\ t.heap = s.heap
      /\ t.pending = s.pending /\ t.prim = s.prim /\ t.trees = s.trees
      /\ t.attached = s.attached /\ t.listed = s.listed
      /\ t.disk = s.disk /\ t.saved = s.saved /\ t.count = s.count /\ t.first = s.first
      /\ t.txn = [on |-> TRUE, prim |-> s.prim, tree |-> s.attached, keys |-> s.trees[s.attached]]
  BY <1>1 DEF Begun, Store
<1>3. /\ t.txn.on /\ t.txn.prim = s.prim /\ t.txn.tree = s.attached
      /\ t.txn.keys = s.trees[s.attached]
  BY <1>2
<1> HIDE DEF t
<1>4. Shape(t)
  BY <1>1, <1>2, <1>3 DEF Shape
<1>5. \A i \in DocId : /\ TrueIndex(s, i) <=> TrueIndex(t, i)
                       /\ InTxn(t, i)
                       /\ TrueOnDisk(s, i) <=> TrueOnDisk(t, i)
                       /\ Has(s, i) <=> Has(t, i)
                       /\ \A x : Reads(s, i, x) <=> Reads(t, i, x)
                       /\ OnFile(s, i) <=> OnFile(t, i)
  BY <1>2, <1>3 DEF TrueIndex, InTxn, TrueOnDisk, Has, InUse, Reads, OnFile
<1>6. Good(t, g, h, U)
  BY <1>2, <1>4, <1>5 DEF Good
<1> QED BY <1>2, <1>3, <1>6 DEF t

LEMMA EndedIsGood ==
    ASSUME NEW s, NEW g, NEW h, NEW U, Good(s, g, h, U)
    PROVE  LET t == [s EXCEPT !.txn = NotInTransaction] IN
           /\ Good(t, g, h, U) /\ ~t.txn.on
           /\ t.heap = s.heap /\ t.prim = s.prim /\ t.trees = s.trees
           /\ t.attached = s.attached /\ t.listed = s.listed
           /\ t.count = s.count /\ t.first = s.first
<1> DEFINE t == [s EXCEPT !.txn = NotInTransaction]
<1>1. s \in Store /\ Shape(s)
  BY DEF Good
<1>2. /\ t \in Store /\ t.heap = s.heap
      /\ t.pending = s.pending /\ t.prim = s.prim /\ t.trees = s.trees
      /\ t.attached = s.attached /\ t.listed = s.listed
      /\ t.disk = s.disk /\ t.saved = s.saved /\ t.count = s.count /\ t.first = s.first
      /\ ~t.txn.on
  BY ZenonT(60), <1>1 DEF Store, NotInTransaction, Pointer, Entry, Trees
<1> HIDE DEF t
<1>3. Shape(t)
  BY <1>1, <1>2 DEF Shape
<1>4. \A i \in DocId : /\ TrueIndex(s, i) <=> TrueIndex(t, i)
                       /\ InTxn(t, i)
                       /\ TrueOnDisk(s, i) <=> TrueOnDisk(t, i)
                       /\ Has(s, i) <=> Has(t, i)
                       /\ \A x : Reads(s, i, x) <=> Reads(t, i, x)
                       /\ OnFile(s, i) <=> OnFile(t, i)
  BY <1>2 DEF TrueIndex, InTxn, TrueOnDisk, Has, InUse, Reads, OnFile
<1>5. Good(t, g, h, U)
  BY <1>2, <1>3, <1>4 DEF Good
<1> QED BY <1>2, <1>5 DEF t

\* What an operation that failed leaves.
LEMMA AbortedIsGood ==
    ASSUME NEW s, NEW g, NEW h, NEW U, Good(s, g, h, U)
    PROVE  LET t == Aborted(s) IN
           Good(t, g, h, U) /\ ~t.txn.on /\ t.count = s.count /\ t.first = s.first
<1> DEFINE t == Aborted(s)
           back == [k \in Trees |-> IF k = s.txn.tree THEN s.txn.keys ELSE s.trees[k]]
<1>1. s \in Store /\ Shape(s)
  BY DEF Good
<1>2. CASE ~s.txn.on
  BY <1>2 DEF Aborted
<1>3. CASE s.txn.on
  <2>1. /\ back \in [Trees -> SUBSET Entry] /\ DOMAIN s.trees = Trees
        /\ NotInTransaction \in
            [on : BOOLEAN, prim : SUBSET Pointer, tree : Trees, keys : SUBSET Entry]
    BY <1>1 DEF Store, NotInTransaction, Trees, Pointer, Entry
  <2>2. /\ t \in Store /\ t.heap = s.heap
        /\ t.pending = s.pending /\ t.prim = s.txn.prim /\ t.trees = back
        /\ t.attached = s.attached /\ t.listed = s.listed
        /\ t.disk = s.disk /\ t.saved = s.saved /\ t.count = s.count /\ t.first = s.first
        /\ t.txn = NotInTransaction
    <3> HIDE DEF back
    <3>1. t = [s EXCEPT !.prim = s.txn.prim, !.trees = back, !.txn = NotInTransaction]
      BY <1>1, <1>3, <2>1 DEF Aborted, Store, back
    <3> HIDE DEF t
    <3> QED BY <1>1, <2>1, <3>1 DEF Store
  <2>3. ~t.txn.on
    BY <2>2 DEF NotInTransaction
  <2>4. s.txn.prim \subseteq s.prim /\ s.txn.tree \in {NoTree, s.attached}
        /\ (s.txn.tree = NoTree => s.txn.keys = {})
    BY <1>1, <1>3 DEF Shape
  <2>5. s.attached \in Trees /\ NoTree \in Trees /\ s.trees[NoTree] = {}
    BY <1>1 DEF Store, Trees, Shape
  <2>6. /\ back[NoTree] = {}
        /\ back[s.attached] = IF s.attached = s.txn.tree THEN s.txn.keys ELSE s.trees[s.attached]
    BY <2>4, <2>5
  <2> HIDE DEF t, back
  <2>7. Shape(t)
    BY <1>1, <2>2, <2>3, <2>4, <2>6 DEF Shape
  <2>8. \A i \in DocId : InTxn(s, i) =>
            /\ TrueIndex(s, i) => TrueIndex(t, i)
            /\ TrueOnDisk(s, i) => TrueOnDisk(t, i)
            /\ Has(s, i) <=> Has(t, i)
            /\ \A x : Reads(s, i, x) => Reads(t, i, x)
            /\ OnFile(s, i) => OnFile(t, i)
    <3> TAKE i \in DocId
    <3> HAVE InTxn(s, i)
    <3>1. /\ \A b \in Block : <<i, b>> \in t.prim <=> <<i, b>> \in s.prim
          /\ \A v \in Value, b \in Block :
                <<v, i, b>> \in t.trees[t.attached] <=> <<v, i, b>> \in s.trees[s.attached]
      BY <1>3, <2>2, <2>6 DEF InTxn
    <3>2. TrueIndex(s, i) => TrueIndex(t, i)
      BY <2>2, <3>1 DEF TrueIndex
    <3>3. TrueOnDisk(s, i) => TrueOnDisk(t, i)
      BY <2>2 DEF TrueOnDisk, InUse
    <3>4. (Has(s, i) <=> Has(t, i)) /\ \A x : Reads(s, i, x) => Reads(t, i, x)
      BY <2>2, <3>1 DEF Has, Reads
    <3>5. OnFile(s, i) => OnFile(t, i)
      BY <2>2, <3>1 DEF OnFile, InUse
    <3> QED BY <3>2, <3>3, <3>4, <3>5
  <2>9. ASSUME NEW i \in DocId \ U
        PROVE  /\ TrueIndex(t, i) /\ InTxn(t, i) /\ TrueOnDisk(t, i)
               /\ Has(t, i) => i \in DOMAIN g
    <3>1. InTxn(t, i)
      BY <2>3 DEF InTxn
    <3> QED BY <2>8, <3>1 DEF Good
  <2>10. ASSUME NEW i \in DOMAIN g
         PROVE  i \in DocId \ U /\ Reads(t, i, g[i])
    BY <2>8 DEF Good
  <2>11. ASSUME NEW i \in DOMAIN h
         PROVE  i \in DOMAIN g /\ h[i] = g[i] /\ OnFile(t, i)
    BY <2>8, <2>10 DEF Good
  <2>12. Good(t, g, h, U)
    BY <2>2, <2>7, <2>9, <2>10, <2>11 DEF Good
  <2> QED BY <2>2, <2>3, <2>12 DEF t
<1> QED BY <1>2, <1>3

-----------------------------------------------------------------------------
(* A database that is opened. *)

LEMMA OpenedIsStore ==
    ASSUME NEW s \in Store
    PROVE  LET o == Opened(s) IN
           /\ o \in Store /\ o.heap = s.saved /\ o.saved = s.saved /\ o.pending = {}
           /\ o.prim = s.disk.prim /\ o.disk = s.disk
           /\ o.attached = s.disk.listed /\ o.listed = s.disk.listed
           /\ o.trees[s.disk.listed] = s.disk.keys
           /\ s.disk.listed # NoTree => o.trees[NoTree] = {}
           /\ o.txn = NotInTransaction /\ o.first
           /\ Opened(o) = o
<1> DEFINE o == Opened(s)
           trees == [Fresh.trees EXCEPT ![s.disk.listed] = s.disk.keys]
<1>1. /\ Fresh \in Store /\ Fresh.trees = [k \in Trees |-> {}] /\ Fresh.pending = {}
      /\ Fresh.txn = NotInTransaction /\ Fresh.first
  BY FreshIsStore DEF Fresh, Trees
<1>2. /\ s.saved \in [Block -> Cell] /\ s.disk.prim \in SUBSET Pointer
      /\ s.disk.listed \in Trees /\ s.disk.keys \in SUBSET Entry
      /\ s.disk \in [prim : SUBSET Pointer, listed : Trees, keys : SUBSET Entry]
  BY DEF Store
<1>3. /\ trees \in [Trees -> SUBSET Entry] /\ trees[s.disk.listed] = s.disk.keys
      /\ s.disk.listed # NoTree => trees[NoTree] = {}
  BY <1>1, <1>2 DEF Trees
<1>4. o = [Fresh EXCEPT !.heap = s.saved, !.saved = s.saved,
                  !.prim = s.disk.prim, !.trees = trees,
                  !.attached = s.disk.listed, !.listed = s.disk.listed,
                  !.idLast = s.disk.listed # NoTree,
                  !.disk = s.disk]
  BY <1>1 DEF Opened, Store
<1>5. Opened(o) = o
  <2>1. o.saved = s.saved /\ o.disk = s.disk
    BY <1>1, <1>4 DEF Store
  <2> QED BY <2>1 DEF Opened
<1> HIDE DEF o, trees
<1>6. /\ o \in Store /\ o.heap = s.saved /\ o.saved = s.saved /\ o.pending = {}
      /\ o.prim = s.disk.prim /\ o.disk = s.disk
      /\ o.attached = s.disk.listed /\ o.listed = s.disk.listed /\ o.trees = trees
      /\ o.txn = NotInTransaction /\ o.first
  BY ZenonT(60), <1>1, <1>2, <1>3, <1>4 DEF Store
<1> QED BY <1>3, <1>5, <1>6 DEF o

\* What was settled is on file.
LEMMA OnFileIsRead ==
    ASSUME NEW s, NEW g, NEW h, NEW U, Good(s, g, h, U), NEW i \in DOMAIN h
    PROVE  \E b \in Block :
            /\ \A c \in Block : <<i, c>> \in s.disk.prim <=> c = b
            /\ s.saved[b] = <<i, h[i]>>
            /\ InUse(s) /\ s.listed # NoTree /\ h[i] \in Value => <<h[i], i, b>> \in s.disk.keys
<1>1. Shape(s) /\ i \in DocId /\ Reads(s, i, h[i]) /\ OnFile(s, i)
  BY DEF Good
<1>2. PICK b \in Block : <<i, b>> \in s.prim /\ s.heap[b] = <<i, h[i]>>
  BY <1>1 DEF Reads
<1>3. \A c \in Block : <<i, c>> \in s.disk.prim <=> c = b
  BY <1>1, <1>2 DEF Shape, OnFile
<1> QED BY <1>1, <1>2, <1>3 DEF OnFile

LEMMA OpenedIsLegible ==
    ASSUME NEW s, NEW g, NEW h, NEW U, Good(s, g, h, U), InUse(s)
    PROVE  Legible(Opened(s), h, U \cup {i \in DocId : Has(Opened(s), i) /\ i \notin DOMAIN h})
<1> DEFINE o == Opened(s)
<1>1. s \in Store /\ Shape(s) /\ s.disk.listed = s.listed
  BY DEF Good, Shape
<1>2. /\ o.heap = s.saved /\ o.prim = s.disk.prim /\ o.attached = s.listed
      /\ o.trees[s.listed] = s.disk.keys
  BY <1>1, OpenedIsStore
<1> HIDE DEF o
<1>3. ASSUME NEW i \in DOMAIN h
      PROVE  \E b \in Block :
                /\ \A c \in Block : <<i, c>> \in o.prim <=> c = b
                /\ o.heap[b] = <<i, h[i]>>
                /\ o.attached # NoTree /\ h[i] \in Value => <<h[i], i, b>> \in o.trees[o.attached]
  <2>1. PICK b \in Block :
            /\ \A c \in Block : <<i, c>> \in s.disk.prim <=> c = b
            /\ s.saved[b] = <<i, h[i]>>
            /\ InUse(s) /\ s.listed # NoTree /\ h[i] \in Value => <<h[i], i, b>> \in s.disk.keys
    BY OnFileIsRead
  <2> QED BY <1>2, <2>1
<1>4. ASSUME NEW i \in DocId \ (U \cup {x \in DocId : Has(o, x) /\ x \notin DOMAIN h})
      PROVE  /\ Has(o, i) => i \in DOMAIN h
             /\ o.attached # NoTree =>
                \A v \in Value, b \in Block :
                    <<v, i, b>> \in o.trees[o.attached] => <<i, b>> \in o.prim
  <2>1. TrueOnDisk(s, i)
    BY DEF Good
  <2> QED BY <1>2, <2>1 DEF TrueOnDisk
<1> QED BY <1>3, <1>4 DEF Legible, o

LEMMA GoodIsLegible ==
    ASSUME NEW s, NEW g, NEW h, NEW U, Good(s, g, h, U)
    PROVE  Legible(s, g, U)
<1>1. ASSUME NEW i \in DOMAIN g
      PROVE  \E b \in Block :
                /\ \A c \in Block : <<i, c>> \in s.prim <=> c = b
                /\ s.heap[b] = <<i, g[i]>>
                /\ s.attached # NoTree /\ g[i] \in Value => <<g[i], i, b>> \in s.trees[s.attached]
  <2>1. Shape(s) /\ i \in DocId /\ TrueIndex(s, i) /\ Reads(s, i, g[i])
    BY DEF Good
  <2>2. PICK b \in Block : <<i, b>> \in s.prim /\ s.heap[b] = <<i, g[i]>>
    BY <2>1 DEF Reads
  <2>3. \A c \in Block : <<i, c>> \in s.prim <=> c = b
    BY <2>1, <2>2 DEF Shape
  <2> QED BY <2>1, <2>2, <2>3 DEF TrueIndex
<1>2. ASSUME NEW i \in DocId \ U
      PROVE  /\ Has(s, i) => i \in DOMAIN g
             /\ s.attached # NoTree =>
                \A v \in Value, b \in Block :
                    <<v, i, b>> \in s.trees[s.attached] => <<i, b>> \in s.prim
  BY DEF Good, TrueIndex
<1> QED BY <1>1, <1>2 DEF Legible

\* A database that is closed and opened holds what it held.
LEMMA ReopenedIsGood ==
    ASSUME NEW s, NEW g, NEW U, Good(s, g, g, U), InUse(s), ~s.txn.on,
           s.saved = s.heap, s.disk.prim = s.prim, s.disk.keys = s.trees[s.listed]
    PROVE  LET o == Opened(s) IN Good(o, g, g, U) /\ ~o.txn.on /\ o.first
<1> DEFINE o == Opened(s)
<1>1. s \in Store /\ Shape(s) /\ s.disk.listed = s.listed
  BY DEF Good, Shape
<1>2. /\ o \in Store /\ o.heap = s.heap /\ o.saved = s.heap /\ o.pending = {}
      /\ o.prim = s.prim /\ o.disk = s.disk
      /\ o.attached = s.listed /\ o.listed = s.listed
      /\ o.trees[s.listed] = s.trees[s.listed]
      /\ s.listed # NoTree => o.trees[NoTree] = {}
      /\ ~o.txn.on /\ o.first
  BY <1>1, OpenedIsStore DEF NotInTransaction
<1> HIDE DEF o
<1>3. Shape(o)
  <2>1. o.trees[NoTree] = {}
    BY <1>1, <1>2 DEF Shape
  <2> QED BY <1>1, <1>2, <2>1 DEF Shape
<1>4. ASSUME NEW i \in DocId
      PROVE  /\ TrueIndex(s, i) => TrueIndex(o, i) /\ TrueOnDisk(o, i)
             /\ InTxn(o, i)
             /\ Has(s, i) <=> Has(o, i)
             /\ \A x : Reads(s, i, x) <=> Reads(o, i, x)
             /\ OnFile(s, i) => OnFile(o, i)
  <2>1. InTxn(o, i) /\ (Has(s, i) <=> Has(o, i)) /\ \A x : Reads(s, i, x) <=> Reads(o, i, x)
    BY <1>2 DEF InTxn, Has, Reads
  <2>2. OnFile(s, i) => OnFile(o, i)
    BY <1>2 DEF OnFile, InUse
  <2>3. TrueIndex(s, i) => TrueIndex(o, i)
    BY <1>2 DEF TrueIndex, InUse
  <2>4. CASE s.listed = NoTree
    <3>1. TrueOnDisk(o, i)
      BY <1>1, <1>2, <2>4 DEF TrueOnDisk, Shape
    <3> QED BY <2>1, <2>2, <2>3, <3>1
  <2>5. CASE s.listed # NoTree
    <3>1. TrueIndex(s, i) => TrueOnDisk(o, i)
      BY <1>2, <2>5 DEF TrueOnDisk, TrueIndex, InUse
    <3> QED BY <2>1, <2>2, <2>3, <3>1
  <2> QED BY <2>4, <2>5
<1>5. ASSUME NEW i \in DocId \ U
      PROVE  /\ TrueIndex(o, i) /\ InTxn(o, i) /\ TrueOnDisk(o, i)
             /\ Has(o, i) => i \in DOMAIN g
  BY <1>4 DEF Good
<1>6. ASSUME NEW i \in DOMAIN g
      PROVE  i \in DocId \ U /\ Reads(o, i, g[i]) /\ OnFile(o, i)
  BY <1>4 DEF Good
<1>7. Good(o, g, g, U)
  BY <1>2, <1>3, <1>5, <1>6 DEF Good
<1> QED BY <1>2, <1>7 DEF o

-----------------------------------------------------------------------------
(* What is answered from a store that can be read. *)

LEMMA LegibleIsFound ==
    ASSUME NEW t, NEW g, NEW U, Legible(t, g, U), NEW i \in DOMAIN g
    PROVE  FindById(t, i) = <<i, g[i]>>
<1>1. PICK b \in Block : (\A c \in Block : <<i, c>> \in t.prim <=> c = b) /\ t.heap[b] = <<i, g[i]>>
  BY DEF Legible
<1>2. Has(t, i) /\ BlockOf(t, i) = b
  BY <1>1 DEF Has, BlockOf
<1> QED BY <1>1, <1>2 DEF FindById

\* The keys of numbers that are not negative sort as the numbers.
LEMMA KeysSort ==
    ASSUME Value \subseteq Nat, NEW q \in Query, q.op # "ne", NEW v \in Value,
           Holds(q.op, v, q.arg)
    PROVE  InRange(q, v)
<1>1. v \in Nat /\ q.arg \in Nat /\ q.op \in {"eq", "gt", "gte", "lt", "lte"}
  BY DEF Query
<1>2. KeyRank(v) = v /\ KeyRank(q.arg) = q.arg
  BY <1>1 DEF KeyRank
<1>3. CASE q.op = "eq"
  BY <1>1, <1>2, <1>3 DEF Holds, InRange
<1>4. CASE q.op = "gt"
  BY <1>1, <1>2, <1>4 DEF Holds, InRange
<1>5. CASE q.op = "gte"
  BY <1>1, <1>2, <1>5 DEF Holds, InRange
<1>6. CASE q.op = "lt"
  BY <1>1, <1>2, <1>6 DEF Holds, InRange
<1>7. CASE q.op = "lte"
  BY <1>1, <1>2, <1>7 DEF Holds, InRange
<1> QED BY <1>1, <1>3, <1>4, <1>5, <1>6, <1>7

LEMMA LegibleMissesNone ==
    ASSUME Value \subseteq Nat, NEW t, NEW g, NEW U, Legible(t, g, U), NEW q \in Query
    PROVE  Matching(g, q) \subseteq Find(t, q)
<1> DEFINE usesIndex == t.attached # NoTree /\ q.op # "ne"
           candidates == IF usesIndex THEN Candidates(t, q) ELSE {}
           few == 2 * Cardinality(candidates) <= Max({1, t.count})
           primary == {e[2] : e \in t.prim}
           read == IF ~usesIndex THEN primary
                   ELSE IF few THEN candidates
                   ELSE primary \cap candidates
<1>1. SUFFICES ASSUME NEW i \in DOMAIN g,
                      IF g[i] \in Value THEN Holds(q.op, g[i], q.arg) ELSE q.op = "ne"
               PROVE  <<i, g[i]>> \in Find(t, q)
  BY DEF Matching
<1>2. PICK b \in Block : /\ <<i, b>> \in t.prim
                         /\ t.heap[b] = <<i, g[i]>>
                         /\ t.attached # NoTree /\ g[i] \in Value =>
                            <<g[i], i, b>> \in t.trees[t.attached]
  BY DEF Legible
<1>3. b \in primary
  <2>1. <<i, b>>[2] = b
    OBVIOUS
  <2> QED BY <1>2, <2>1
<1>4. usesIndex => b \in candidates
  <2> SUFFICES ASSUME usesIndex PROVE b \in Candidates(t, q)
    OBVIOUS
  <2>1. g[i] \in Value /\ <<g[i], i, b>> \in t.trees[t.attached]
    BY <1>1, <1>2
  <2>2. InRange(q, g[i])
    BY <1>1, <2>1, KeysSort
  <2>3. <<g[i], i, b>>[1] = g[i] /\ <<g[i], i, b>>[3] = b
    OBVIOUS
  <2> QED BY <2>1, <2>2, <2>3 DEF Candidates
<1>5. b \in read
  <2> HIDE DEF primary, candidates, few
  <2> QED BY <1>3, <1>4
<1>6. Passes(q, g[i])
  <2>1. NullValue \notin Value
    BY EngineAssumption
  <2>2. CASE g[i] \in Value
    BY <1>1, <2>1, <2>2 DEF Passes
  <2>3. CASE g[i] \notin Value
    BY <1>1, <2>3 DEF Passes
  <2> QED BY <2>2, <2>3
<1>7. t.heap[b] # Empty /\ t.heap[b][2] = g[i]
  BY <1>2, DocIsNotEmpty
<1>8. b \in {x \in read : t.heap[x] # Empty /\ Passes(q, t.heap[x][2])}
  <2> HIDE DEF read
  <2> QED BY <1>5, <1>6, <1>7
<1>9. Find(t, q) = {t.heap[x] : x \in {y \in read : t.heap[y] # Empty /\ Passes(q, t.heap[y][2])}}
  BY DEF Find
<1> HIDE DEF read
<1> QED BY <1>2, <1>8, <1>9

LEMMA LegibleAddsNone ==
    ASSUME NEW t \in Store, NEW g, Legible(t, g, {}), \A i \in DOMAIN g : g[i] # NullValue,
           NEW q \in Query
    PROVE  Find(t, q) \subseteq Matching(g, q)
<1> DEFINE usesIndex == t.attached # NoTree /\ q.op # "ne"
           candidates == IF usesIndex THEN Candidates(t, q) ELSE {}
           few == 2 * Cardinality(candidates) <= Max({1, t.count})
           primary == {e[2] : e \in t.prim}
           read == IF ~usesIndex THEN primary
                   ELSE IF few THEN candidates
                   ELSE primary \cap candidates
<1>1. Find(t, q) = {t.heap[x] : x \in {y \in read : t.heap[y] # Empty /\ Passes(q, t.heap[y][2])}}
  BY DEF Find
<1>2. SUFFICES ASSUME NEW b \in read, t.heap[b] # Empty, Passes(q, t.heap[b][2])
               PROVE  t.heap[b] \in Matching(g, q)
  <2> HIDE DEF read
  <2> QED BY <1>1
<1>3. \E i \in DocId : b \in Block /\ <<i, b>> \in t.prim
  <2>1. CASE b \in primary
    <3>1. PICK e \in t.prim : b = e[2]
      BY <2>1
    <3>2. e = <<e[1], b>> /\ e[1] \in DocId /\ b \in Block
      BY <3>1 DEF Store, Pointer
    <3> QED BY <3>1, <3>2
  <2>2. CASE usesIndex /\ b \in Candidates(t, q)
    <3>1. PICK e \in t.trees[t.attached] : b = e[3]
      BY <2>2 DEF Candidates
    <3>2. e = <<e[1], e[2], b>> /\ e[1] \in Value /\ e[2] \in DocId /\ b \in Block
      BY <3>1 DEF Store, Entry
    <3>3. <<e[2], b>> \in t.prim
      BY <2>2, <3>1, <3>2 DEF Legible
    <3> QED BY <3>2, <3>3
  <2> HIDE DEF primary, few
  <2> QED BY <2>1, <2>2
<1>4. PICK i \in DocId : b \in Block /\ <<i, b>> \in t.prim
  BY <1>3
<1>5. i \in DOMAIN g
  BY <1>4 DEF Legible, Has
<1>6. t.heap[b] = <<i, g[i]>>
  BY <1>4, <1>5 DEF Legible
<1>7. Passes(q, g[i])
  BY <1>2, <1>6
<1>8. IF g[i] \in Value THEN Holds(q.op, g[i], q.arg) ELSE q.op = "ne"
  BY <1>5, <1>7 DEF Passes
<1> QED BY <1>5, <1>6, <1>8 DEF Matching

LEMMA LegibleIsCounted ==
    ASSUME NEW t \in Store, NEW g, Legible(t, g, {}),
           IsFiniteSet(DOMAIN g), DOMAIN g \subseteq DocId,
           Counts(t, g, {})
    PROVE  CountSteps(t)[1].count = Cardinality(DOMAIN g)
<1> DEFINE kept == {e \in t.prim : t.heap[e[2]] # Empty}
           found == Cardinality(kept)
<1>1. CASE ~t.first
  BY <1>1 DEF CountSteps, Counts
<1>2. CASE t.first
  <2>1. CountSteps(t)[1] = [t EXCEPT !.first = FALSE, !.count = found]
    BY <1>2 DEF CountSteps
  <2>2. CountSteps(t)[1].count = found
    <3> HIDE DEF found
    <3> QED BY <2>1 DEF Store
  <2>3. found = Cardinality(DOMAIN g)
    <3> DEFINE Idf == [e \in kept |-> e[1]]
         <3>1. \A e \in kept :
              e = <<e[1], e[2]>> /\ e[1] \in DocId /\ e[2] \in Block /\ e[1] \in DOMAIN g
      <4>1. \A e \in kept : e = <<e[1], e[2]>> /\ e[1] \in DocId /\ e[2] \in Block
        BY DEF Store, Pointer
      <4> QED BY <4>1 DEF Legible, Has
    <3>2. \A e, f \in kept : e[1] = f[1] => e = f
      <4> TAKE e, f \in kept
      <4> HAVE e[1] = f[1]
      <4>1. <<e[1], e[2]>> \in t.prim /\ <<e[1], f[2]>> \in t.prim
        BY <3>1
      <4>2. e[2] = f[2]
        BY ZenonT(60), <3>1, <4>1 DEF Legible
      <4> QED BY <3>1, <4>2
    <3>3. \A i \in DOMAIN g : \E e \in kept : e[1] = i
      <4> TAKE i \in DOMAIN g
      <4>1. PICK b \in Block : <<i, b>> \in t.prim /\ t.heap[b] = <<i, g[i]>>
        BY DEF Legible
      <4>2. <<i, b>> \in kept /\ <<i, b>>[1] = i
        BY <4>1, DocIsNotEmpty
      <4> QED BY <4>2
    <3> HIDE DEF kept
    <3>4. Idf \in Bijection(kept, DOMAIN g)
      BY <3>1, <3>2, <3>3 DEF Bijection, Injection, Surjection, IsInjective
    <3>5. IsFiniteSet(kept)
      BY <3>4, FS_Injection DEF Bijection
    <3> QED BY <3>4, <3>5, FS_Bijection DEF ExistsBijection
  <2> QED BY <2>2, <2>3
<1> QED BY <1>1, <1>2

-----------------------------------------------------------------------------
(* The invariant implies the properties. *)

LEMMA LegibleReadsBack ==
    ASSUME Legible(store, docs, unsure), DOMAIN docs \subseteq DocId
    PROVE  ReadsBack
<1>1. \A i \in DOMAIN docs : FindById(store, i) = <<i, docs[i]>>
  BY LegibleIsFound
<1>2. \A i \in DOMAIN docs : Has(store, i)
  BY DEF Legible, Has
<1>3. unsure = {} => \A i \in DocId : Has(store, i) => i \in DOMAIN docs
  BY DEF Legible
<1> QED BY <1>1, <1>2, <1>3 DEF ReadsBack

LEMMA InvImpliesKept ==
    ASSUME EngineInv, Value \subseteq Nat, ~ReopensStale
    PROVE  DocumentsAreKept
<1>1. CASE crashes = 0
  <2>1. Good(store, docs, settled, unsure)
    BY <1>1 DEF EngineInv, Running
  <2>2. store \in Store
    BY <2>1 DEF Good
  <2>3. SettledOnFile
    <3> SUFFICES ASSUME NEW i \in DOMAIN settled
                 PROVE  FindById(Opened(store), i) = <<i, settled[i]>>
      BY DEF SettledOnFile
    <3>1. PICK b \in Block :
            /\ \A c \in Block : <<i, c>> \in store.disk.prim <=> c = b
            /\ store.saved[b] = <<i, settled[i]>>
            /\ InUse(store) /\ store.listed # NoTree /\ settled[i] \in Value =>
                <<settled[i], i, b>> \in store.disk.keys
      BY <2>1, OnFileIsRead
    <3>2. Opened(store).prim = store.disk.prim /\ Opened(store).heap = store.saved
      BY <2>2, OpenedIsStore
    <3>3. Has(Opened(store), i) /\ BlockOf(Opened(store), i) = b
      BY <3>1, <3>2 DEF Has, BlockOf
    <3> QED BY <3>1, <3>2, <3>3 DEF FindById
  <2>4. SettledIndexed
    <3> SUFFICES ASSUME ~Stale, NEW q \in Query
                 PROVE  Matching(settled, q) \subseteq Find(Opened(store), q)
      BY DEF SettledIndexed
    <3>1. InUse(store)
      BY DEF Stale, InUse
    <3> QED BY <2>1, <3>1, OpenedIsLegible, LegibleMissesNone
  <2>5. Legible(store, docs, unsure)
    BY <2>1, GoodIsLegible
  <2>6. ReadsBack
    BY <2>5, LegibleReadsBack DEF EngineInv
  <2> QED BY <2>3, <2>4, <2>6 DEF DocumentsAreKept
<1>2. CASE crashes # 0
  <2>1. Crashed
    BY <1>2 DEF EngineInv
  <2>2. Legible(store, docs, unsure) /\ settled = docs /\ Opened(store) = store
    BY <2>1 DEF Crashed
  <2>3. SettledOnFile
    BY <2>2, LegibleIsFound DEF SettledOnFile
  <2>4. SettledIndexed
    BY <2>2, LegibleMissesNone DEF SettledIndexed
  <2>5. ReadsBack
    BY <2>2, LegibleReadsBack DEF EngineInv
  <2> QED BY <2>3, <2>4, <2>5 DEF DocumentsAreKept
<1> QED BY <1>1, <1>2

LEMMA InvImpliesExact ==
    ASSUME EngineInv, Value \subseteq Nat, NullValue \notin Content
    PROVE  FindIsExact
<1>1. /\ store \in Store /\ Legible(store, docs, unsure)
      /\ unsure = {} => Counts(store, docs, unsure)
  <2>1. CASE crashes = 0
    BY <2>1, GoodIsLegible DEF EngineInv, Running, Good
  <2>2. CASE crashes # 0
    <3>1. Crashed
      BY <2>2 DEF EngineInv
    <3>2. store.first
      BY <3>1, OpenedIsStore DEF Crashed
    <3> QED BY <3>1, <3>2 DEF Crashed, Counts
  <2> QED BY <2>1, <2>2
<1>2. \A i \in DOMAIN docs : docs[i] # NullValue
  BY DEF EngineInv
<1>3. QueriesAreExact
  BY <1>1, <1>2, LegibleMissesNone, LegibleAddsNone DEF QueriesAreExact
<1>4. CountIsExact
  BY <1>1, LegibleIsCounted DEF CountIsExact, EngineInv
<1> QED BY <1>3, <1>4 DEF FindIsExact

-----------------------------------------------------------------------------
(* Operations. *)

LEMMA WithoutIsGood ==
    ASSUME NEW t, NEW g, NEW h, NEW U, NEW W, Good(t, g, h, U)
    PROVE  Good(t, Without(g, W), Without(h, W), U \cup W)
BY DEF Good, Without

\* The documents g after a write of f to the ids in W.
Written(g, W, f) ==
    [i \in (DOMAIN g \ W) \cup DOMAIN f |-> IF i \in DOMAIN f THEN f[i] ELSE g[i]]

\* A write that is done is known.
LEMMA WrittenIsGood ==
    ASSUME NEW t, NEW g, NEW h, NEW U, NEW W, Good(t, Without(g, W), Without(h, W), U \cup W),
           NEW f, DOMAIN f \subseteq (DocId \cap W) \ U,
           \A i \in (DocId \cap W) \ U :
                /\ TrueIndex(t, i) /\ InTxn(t, i) /\ TrueOnDisk(t, i)
                /\ Has(t, i) => i \in DOMAIN f,
           \A i \in DOMAIN f : Reads(t, i, f[i])
    PROVE  Good(t, Written(g, W, f), Without(h, W), U)
<1> DEFINE d == Written(g, W, f)
           g2 == Without(g, W)
<1>1. /\ DOMAIN g2 = DOMAIN g \ W
      /\ \A i \in DOMAIN g2 : g2[i] = g[i]
  BY DEF Without
<1>2. \A i \in DOMAIN g2 : i \in DOMAIN d /\ i \notin DOMAIN f /\ d[i] = g2[i]
  BY <1>1 DEF Written
<1>3. \A i \in DOMAIN f : i \in DOMAIN d /\ d[i] = f[i]
  BY DEF Written
<1>4. DOMAIN d = DOMAIN g2 \cup DOMAIN f
  BY <1>1 DEF Written
<1> HIDE DEF d, g2
<1>5. ASSUME NEW i \in DocId \ U
      PROVE  /\ TrueIndex(t, i) /\ InTxn(t, i) /\ TrueOnDisk(t, i)
             /\ Has(t, i) => i \in DOMAIN d
  <2>1. CASE i \in W
    BY <1>3, <2>1
  <2>2. CASE i \notin W
    BY <1>2, <2>2 DEF Good, g2
  <2> QED BY <2>1, <2>2
<1>6. ASSUME NEW i \in DOMAIN d
      PROVE  i \in DocId \ U /\ Reads(t, i, d[i])
  <2>1. CASE i \in DOMAIN f
    BY <1>3, <2>1
  <2>2. CASE i \in DOMAIN g2
    BY <1>2, <2>2 DEF Good, g2
  <2> QED BY <1>4, <2>1, <2>2
<1>7. ASSUME NEW i \in DOMAIN Without(h, W)
      PROVE  i \in DOMAIN d /\ Without(h, W)[i] = d[i] /\ OnFile(t, i)
  BY <1>2 DEF Good, g2
<1>8. Good(t, d, Without(h, W), U)
  BY <1>5, <1>6, <1>7 DEF Good
<1> QED BY <1>8 DEF d

\* The states an operation may go through.
States(s, g, h, U) ==
    {t \in Store : /\ Good(t, g, h, U)
                   /\ t.count = s.count /\ t.first = s.first
                   /\ InUse(s) => InUse(t)}

\* The process ends, and the database is opened again.
LEMMA CrashKeepsInv ==
    ASSUME EngineInv, crashes = 0, ~ReopensStale, NEW ids \in SUBSET DocId,
           NEW t \in States(store, Without(docs, ids), Without(settled, ids), unsure \cup ids),
           CrashAt(t, ids)
    PROVE  EngineInv'
<1> DEFINE h == Without(settled, ids)
           V == (unsure \cup ids) \cup {i \in DocId : Has(Opened(t), i) /\ i \notin DOMAIN h}
<1>1. /\ store' = Opened(t) /\ settled' = h /\ docs' = h /\ crashes' = crashes + 1
      /\ unsure' = V /\ ~Stale
  BY DEF CrashAt
<1>2. Good(t, Without(docs, ids), h, unsure \cup ids) /\ InUse(t) /\ t \in Store
  BY <1>1 DEF States, InUse, Stale
<1>3. Legible(Opened(t), h, V)
  BY <1>2, OpenedIsLegible
<1>4. Opened(t) \in Store /\ Opened(Opened(t)) = Opened(t)
  BY <1>2, OpenedIsStore
<1>5. Crashed'
  BY <1>1, <1>3, <1>4 DEF Crashed
<1>6. \A i \in DOMAIN h : i \in DOMAIN docs /\ i \in DocId \ (unsure \cup ids) /\ h[i] = docs[i]
  <2>1. \A i \in DOMAIN h : /\ i \in DOMAIN Without(docs, ids) /\ h[i] = Without(docs, ids)[i]
                            /\ i \in DocId \ (unsure \cup ids)
    BY <1>2 DEF Good
  <2> QED BY <2>1 DEF Without
<1> HIDE DEF h
<1>7. DOMAIN h \subseteq DocId \ V /\ IsFiniteSet(DOMAIN h) /\ \A i \in DOMAIN h : h[i] \in Content
  <2>1. DOMAIN h \in SUBSET DOMAIN docs
    BY <1>6
  <2>2. IsFiniteSet(DOMAIN h)
    BY <2>1, FS_Subset DEF EngineInv
  <2> QED BY <1>6, <2>2 DEF EngineInv
<1>8. crashes' \in Nat /\ crashes' # 0
  BY <1>1
<1> HIDE DEF V
<1> QED BY <1>1, <1>5, <1>7, <1>8 DEF EngineInv

\* The operation ends with an error.
LEMMA FailureKeepsInv ==
    ASSUME EngineInv, crashes = 0, NEW ids \in SUBSET DocId,
           NEW t, Good(t, Without(docs, ids), Without(settled, ids), unsure \cup ids),
           t.count = store.count, t.first = store.first,
           FailAt(t, ids)
    PROVE  EngineInv'
<1>1. /\ store' = Aborted(t) /\ settled' = Without(settled, ids) /\ docs' = Without(docs, ids)
      /\ crashes' = crashes /\ unsure' = unsure \cup ids
  BY DEF FailAt
<1>2. /\ Good(Aborted(t), docs', settled', unsure') /\ ~Aborted(t).txn.on
      /\ Aborted(t).count = store.count /\ Aborted(t).first = store.first
  BY <1>1, AbortedIsGood
<1>3. DOMAIN docs' = DOMAIN docs \ ids /\ \A i \in DOMAIN docs' : docs'[i] = docs[i]
  BY <1>1 DEF Without
<1>4. Counts(store', docs', unsure')
  BY <1>1, <1>2, <1>3 DEF Counts, EngineInv, Running
<1>5. Running'
  BY <1>1, <1>2, <1>4 DEF Running
<1>6. IsFiniteSet(DOMAIN docs')
  BY <1>3, FS_Subset DEF EngineInv
<1> QED BY <1>1, <1>3, <1>5, <1>6 DEF EngineInv

\* The operation is done.
LEMMA DoneKeepsInv ==
    ASSUME EngineInv, crashes = 0,
           NEW ids \in SUBSET DocId, IsFiniteSet(ids),
           NEW f, DOMAIN f \subseteq ids \ unsure, \A i \in DOMAIN f : f[i] \in Content,
           docs' = Written(docs, ids, f), settled' = Without(settled, ids),
           UNCHANGED <<unsure, crashes>>,
           Good(store', docs', settled', unsure), ~store'.txn.on, Counts(store', docs', unsure)
    PROVE  EngineInv'
<1> DEFINE d == Written(docs, ids, f)
<1>1. Running'
  BY DEF Running
<1>2. \A i \in DOMAIN d : d[i] \in Content /\ i \in DocId \ unsure
  BY DEF EngineInv, Written
<1>3. IsFiniteSet(DOMAIN d)
  <2>1. IsFiniteSet(DOMAIN docs \cup ids)
    BY FS_Union DEF EngineInv
  <2>2. DOMAIN d \in SUBSET (DOMAIN docs \cup ids)
    BY DEF Written
  <2> QED BY <2>1, <2>2, FS_Subset
<1> HIDE DEF d
<1> QED BY <1>1, <1>2, <1>3 DEF EngineInv, d

LEMMA OperationKeepsInv ==
    ASSUME EngineInv, crashes = 0, ~ReopensStale,
           NEW ids \in SUBSET DocId, IsFiniteSet(ids),
           NEW f, DOMAIN f \subseteq ids \ unsure, \A i \in DOMAIN f : f[i] \in Content,
           NEW steps, Does(steps, ids, f),
           \A k \in 1 .. Len(steps) - 1 :
              steps[k] \in States(store, Without(docs, ids), Without(settled, ids), unsure \cup ids),
           LET t == steps[Len(steps)]
               d == Written(docs, ids, f)
           IN  Good(t, d, Without(settled, ids), unsure) /\ ~t.txn.on /\ Counts(t, d, unsure)
    PROVE  EngineInv'
<1> DEFINE t == steps[Len(steps)]
           d == Written(docs, ids, f)
<1>1. CASE /\ store' = t /\ docs' = d /\ settled' = Without(settled, ids)
           /\ UNCHANGED <<unsure, crashes, failures>>
  BY <1>1, DoneKeepsInv
<1>2. CASE \E k \in 1 .. Len(steps) - 1 : CrashAt(steps[k], ids) \/ FailAt(steps[k], ids)
  BY <1>2, CrashKeepsInv, FailureKeepsInv DEF States
<1> QED BY <1>1, <1>2 DEF Does, Written

-----------------------------------------------------------------------------
(* The runs of the operations. *)

\* The states before the last one.
LEMMA RunEnds ==
    ASSUME NEW S, NEW run \in Seq(S), NEW c
    PROVE  LET all == run \o <<c>> IN
           /\ Len(all) = Len(run) + 1 /\ Len(run) \in Nat
           /\ all[Len(all)] = c
           /\ \A k \in 1 .. Len(all) - 1 : all[k] \in S
<1>1. <<c>> \in Seq({c}) /\ Len(<<c>>) = 1 /\ run \in Seq(S \cup {c})
  OBVIOUS
<1> QED BY <1>1

LEMMA OneMore == \A a, b, c : <<a, b>> \o <<c>> = <<a, b, c>>
<1> TAKE a, b, c
<1> DEFINE S == {a, b, c}
<1>1. <<a, b>> \in Seq(S) /\ <<c>> \in Seq(S) /\ <<a, b, c>> \in Seq(S)
  OBVIOUS
<1>2. Len(<<a, b>>) = 2 /\ Len(<<c>>) = 1 /\ Len(<<a, b, c>>) = 3
  OBVIOUS
<1> HIDE DEF S
<1>3. /\ <<a, b>> \o <<c>> \in Seq(S) /\ Len(<<a, b>> \o <<c>>) = 3
      /\ \A k \in 1 .. 3 : (<<a, b>> \o <<c>>)[k] = IF k <= 2 THEN <<a, b>>[k] ELSE <<c>>[k - 2]
  BY <1>1, <1>2, ConcatProperties
<1>4. \A k \in 1 .. 3 : (<<a, b>> \o <<c>>)[k] = <<a, b, c>>[k]
  BY <1>3
<1> QED BY <1>1, <1>2, <1>3, <1>4, SeqEqual

LEMMA StateFollows ==
    ASSUME NEW s, NEW g, NEW h, NEW U, NEW t \in States(s, g, h, U),
           NEW u, Good(u, g, h, U), NEW W, Elsewhere(t, u, W)
    PROVE  u \in States(s, g, h, U)
BY DEF States, Good, Elsewhere, InUse

\* insert, update: a document among the indexes.
LEMMA InEveryIndexIsGood ==
    ASSUME NEW s, NEW g, NEW h, NEW U, Good(s, g, h, U),
           NEW i \in DocId \cap U, NEW v, NEW b \in Block,
           s.heap[b] = <<i, v>>, b \notin s.pending, ~Has(s, i)
    PROVE  LET run == InEveryIndex(s, i, v, b)
               t == run[2]
           IN  /\ run = <<run[1], t>>
               /\ Good(run[1], g, h, U) /\ Elsewhere(s, run[1], {i})
               /\ Good(t, g, h, U) /\ Elsewhere(s, t, {i})
               /\ t.prim = s.prim \cup {<<i, b>>} /\ t.heap = s.heap /\ t.pending = s.pending
               /\ TrueIndex(s, i) => TrueIndex(t, i)
<1> DEFINE run == InEveryIndex(s, i, v, b)
<1>1. ASSUME NEW t, t.attached = s.attached, t.prim = s.prim \cup {<<i, b>>}, t.heap = s.heap,
             KeyAdded(s, t, i, v, b), TrueIndex(s, i)
      PROVE  TrueIndex(t, i)
  BY <1>1 DEF TrueIndex, Has, KeyAdded
<1>2. CASE s.idLast
  <2> DEFINE x == WithKey(s, v, i, b)
             y == WithEntry(x, i, b)
  <2>1. run = <<x, y>>
    BY <1>2 DEF InEveryIndex
  <2>2. /\ Good(x, g, h, U) /\ Elsewhere(s, x, {i})
        /\ x.prim = s.prim /\ x.heap = s.heap /\ x.pending = s.pending
        /\ KeyAdded(s, x, i, v, b)
    BY WithKeyIsGood
  <2> HIDE DEF x
  <2>3. ~Has(x, i)
    BY <2>2 DEF Has
  <2>4. /\ Good(y, g, h, U) /\ Elsewhere(x, y, {i})
        /\ y.prim = x.prim \cup {<<i, b>>} /\ y.trees = x.trees /\ y.heap = x.heap
        /\ y.pending = x.pending
    BY <2>2, <2>3, WithEntryIsGood
  <2> HIDE DEF y, run
  <2>5. Elsewhere(s, y, {i})
    BY <2>2, <2>4 DEF Elsewhere
  <2>6. TrueIndex(s, i) => TrueIndex(y, i)
    BY <1>1, <2>2, <2>4 DEF Elsewhere, KeyAdded
  <2> QED BY <2>1, <2>2, <2>4, <2>5, <2>6 DEF run
<1>3. CASE ~s.idLast
  <2> DEFINE x == WithEntry(s, i, b)
             y == WithKey(x, v, i, b)
  <2>1. run = <<x, y>>
    BY <1>3 DEF InEveryIndex
  <2>2. /\ Good(x, g, h, U) /\ Elsewhere(s, x, {i})
        /\ x.prim = s.prim \cup {<<i, b>>} /\ x.trees = s.trees /\ x.heap = s.heap
        /\ x.pending = s.pending
    BY WithEntryIsGood
  <2> HIDE DEF x
  <2>3. /\ Good(y, g, h, U) /\ Elsewhere(x, y, {i})
        /\ y.prim = x.prim /\ y.heap = x.heap /\ y.pending = x.pending
        /\ KeyAdded(x, y, i, v, b)
    BY <2>2, WithKeyIsGood
  <2> HIDE DEF y, run
  <2>4. Elsewhere(s, y, {i})
    BY <2>2, <2>3 DEF Elsewhere
  <2>5. TrueIndex(s, i) => TrueIndex(y, i)
    BY <1>1, <2>2, <2>3 DEF Elsewhere, KeyAdded
  <2> QED BY <2>1, <2>2, <2>3, <2>4, <2>5 DEF run
<1> QED BY <1>2, <1>3

\* insert, insertMany: the index that is made for a field the document has.
LEMMA IndexedIsGood ==
    ASSUME NEW s, NEW g, NEW h, NEW U, Good(s, g, h, U), NEW vs
    PROVE  LET run == IndexIfMissing(s, vs)
               t == run[Len(run)]
           IN  /\ run \in Seq(States(s, g, h, U)) /\ Len(run) \in Nat \ {0}
               /\ t \in States(s, g, h, U)
               /\ t.prim = s.prim /\ t.heap = s.heap /\ t.txn = s.txn
               /\ \A i \in DocId : TrueIndex(s, i) => TrueIndex(t, i)
<1> DEFINE run == IndexIfMissing(s, vs)
           S == States(s, g, h, U)
<1>1. s \in Store
  BY DEF Good
<1>2. CASE ~Missing(s, vs)
  <2>1. run = <<s>> /\ s \in S
    BY <1>1, <1>2 DEF IndexIfMissing, States
  <2> HIDE DEF run, S
  <2>2. Len(run) = 1 /\ run \in Seq(S)
    BY <2>1
  <2> QED BY <2>1, <2>2 DEF run, S
<1>3. CASE Missing(s, vs) /\ s.auto
  <2> DEFINE k == NewTree(s)
             a == [s EXCEPT !.trees[k] = IndexEntries(s)]
             b == Flush(a)
             c == [b EXCEPT !.attached = k]
             d == Listed(c)
  <2>1. run = <<a, b, c>> \o <<d>>
    <3>1. CreateIndexSteps(s) = <<a, b, c>>
      BY DEF CreateIndexSteps
    <3>2. Len(<<a, b, c>>) = 3 /\ <<a, b, c>>[3] = c
      OBVIOUS
    <3> HIDE DEF a, b, c, k
    <3> QED BY <1>3, <3>1, <3>2 DEF IndexIfMissing
  <2>2. s.attached = NoTree
    BY <1>3 DEF Missing
  <2>3. /\ Good(a, g, h, U) /\ Elsewhere(s, a, {}) /\ a.heap = s.heap /\ a.prim = s.prim
        /\ a.trees[k] = IndexEntries(a) /\ k \in Trees /\ k \notin {NoTree, a.listed}
    BY <2>2, BuiltIsGood
  <2> HIDE DEF a, k
  <2>4. /\ Good(b, g, h, U) /\ b.heap = a.heap /\ b.prim = a.prim /\ b.trees = a.trees
        /\ b.attached = a.attached /\ b.listed = a.listed /\ b.txn = a.txn
        /\ b.count = a.count /\ b.first = a.first
    BY <2>3, FlushIsGood
  <2> HIDE DEF b
  <2>5. b.trees[k] = IndexEntries(b) /\ b.attached = NoTree
    BY <2>2, <2>3, <2>4 DEF IndexEntries, Elsewhere
  <2>6. /\ Good(c, g, h, U)
        /\ c.heap = b.heap /\ c.prim = b.prim /\ c.listed = b.listed
        /\ c.txn = b.txn /\ c.count = b.count /\ c.first = b.first
        /\ InUse(c) <=> InUse(b)
        /\ \A i \in DocId : TrueIndex(c, i)
    BY <2>3, <2>4, <2>5, AttachedIsGood
  <2> HIDE DEF c
  <2>7. /\ Good(d, g, h, U)
        /\ d.heap = c.heap /\ d.prim = c.prim /\ d.attached = c.attached
        /\ d.trees[d.attached] = c.trees[c.attached]
        /\ d.txn = c.txn /\ d.count = c.count /\ d.first = c.first /\ InUse(d)
    BY <2>6, ListedIsGood
  <2> HIDE DEF d
  <2>8. \A i \in DocId : TrueIndex(d, i)
    BY <2>6, <2>7 DEF TrueIndex
  <2>9. a \in S /\ b \in S /\ c \in S /\ d \in S
    BY <2>2, <2>3, <2>4, <2>6, <2>7 DEF States, Good, Elsewhere, InUse
  <2> HIDE DEF run, S
  <2>10. run \in Seq(S) /\ Len(run) = 4 /\ run[4] = d
    BY <2>1, <2>9
  <2> QED BY <2>3, <2>4, <2>6, <2>7, <2>8, <2>9, <2>10 DEF run, S, Elsewhere
<1>4. CASE Missing(s, vs) /\ ~s.auto
  <2> DEFINE t == [s EXCEPT !.deferred = TRUE]
  <2>1. run = <<t>>
    BY <1>4 DEF IndexIfMissing
  <2>2. /\ t \in Store /\ t.heap = s.heap /\ t.pending = s.pending
        /\ t.prim = s.prim /\ t.trees = s.trees
        /\ t.attached = s.attached /\ t.listed = s.listed /\ t.txn = s.txn
        /\ t.disk = s.disk /\ t.saved = s.saved /\ t.count = s.count /\ t.first = s.first
    BY <1>1 DEF Store
  <2> HIDE DEF t
  <2>3. Good(t, g, h, U)
    BY <2>2, FlagsAreGood
  <2>4. t \in S /\ \A i \in DocId : TrueIndex(s, i) => TrueIndex(t, i)
    BY <2>2, <2>3 DEF States, InUse, TrueIndex
  <2> HIDE DEF run, S
  <2>5. Len(run) = 1 /\ run \in Seq(S) /\ run[1] = t
    BY <2>1, <2>4
  <2> QED BY <2>2, <2>4, <2>5 DEF run, S
<1> QED BY <1>2, <1>3, <1>4

\* The end of insert, insertMany and delete.
LEMMA CountedIsGood ==
    ASSUME NEW s, NEW g, NEW h, NEW U, Good(s, g, h, U), ~s.txn.on, NEW n \in Int
    PROVE  LET t == Counted(s, n) IN
           /\ Good(t, g, h, U) /\ ~t.txn.on
           /\ t.heap = s.heap /\ t.prim = s.prim
           /\ t.count = s.count + n /\ t.first = s.first
           /\ \A i \in DocId : TrueIndex(s, i) => TrueIndex(t, i) /\ TrueOnDisk(t, i)
<1> DEFINE c == [s EXCEPT !.count = @ + n]
           t == Flush(c)
<1>1. s \in Store
  BY DEF Good
<1>2. /\ c \in Store /\ c.heap = s.heap /\ c.pending = s.pending
      /\ c.prim = s.prim /\ c.trees = s.trees
      /\ c.attached = s.attached /\ c.listed = s.listed /\ c.txn = s.txn
      /\ c.disk = s.disk /\ c.saved = s.saved /\ c.count = s.count + n /\ c.first = s.first
  BY <1>1 DEF Store
<1> HIDE DEF c
<1>3. Good(c, g, h, U)
  BY <1>2, FlagsAreGood
<1>4. /\ Good(t, g, h, U)
      /\ t.heap = c.heap /\ t.prim = c.prim /\ t.trees = c.trees
      /\ t.attached = c.attached /\ t.txn = c.txn
      /\ t.count = c.count /\ t.first = c.first
      /\ \A i \in DocId : TrueIndex(t, i) => TrueOnDisk(t, i)
  BY <1>2, <1>3, FlushIsGood
<1> HIDE DEF t
<1>5. \A i \in DocId : TrueIndex(s, i) => TrueIndex(t, i)
  BY <1>2, <1>4 DEF TrueIndex
<1> QED BY <1>2, <1>4, <1>5 DEF t, c, Counted

-----------------------------------------------------------------------------
(* Each operation keeps the invariant. *)

LEMMA InsertKeepsInv ==
    ASSUME EngineInv, ~GoesOn, ~ReopensStale, NEW i \in DocId, NEW v \in Content, Insert(i, v)
    PROVE  EngineInv'
<1> DEFINE f == [x \in {i} |-> v]
           g == Without(docs, {i})
           h == Without(settled, {i})
           U == unsure \cup {i}
           S == States(store, g, h, U)
           b == NextBlock(store)
           w == AllocateAndWrite(store, i, v)
           added == InEveryIndex(w, i, v, b)
           indexed == IndexIfMissing(added[2], {v})
           last == indexed[Len(indexed)]
           t == Counted(last, 1)
           pre == <<w>> \o added \o indexed
<1>1. /\ crashes = 0 /\ ~Has(store, i) /\ i \notin unsure /\ FreeBlocks(store) # {}
      /\ Does(InsertSteps(store, i, v), {i}, f)
  BY DEF Insert, MayRun, New
<1>2. /\ Good(store, docs, settled, unsure) /\ ~store.txn.on /\ Counts(store, docs, unsure)
      /\ store \in Store
  BY <1>1 DEF EngineInv, Running, Good
<1>3. Good(store, g, h, U)
  BY <1>2, WithoutIsGood
<1>4. store \in S
  BY <1>2, <1>3 DEF States
<1>5. TrueIndex(store, i)
  BY <1>1, <1>2 DEF Good
<1>6. InsertSteps(store, i, v) = pre \o <<t>>
  BY DEF InsertSteps
<1> HIDE DEF g, h, U, b, w
<1>7. /\ Good(w, g, h, U) /\ Elsewhere(store, w, {})
      /\ b \in Block /\ w.heap[b] = <<i, v>> /\ b \notin w.pending
  BY <1>1, <1>3, AllocateIsGood DEF b, w
<1>8. ~Has(w, i) /\ TrueIndex(w, i)
  BY <1>1, <1>5, <1>7, ElsewhereIsTrue
<1>9. i \in DocId \cap U
  BY DEF U
<1>10. /\ added = <<added[1], added[2]>>
       /\ Good(added[1], g, h, U) /\ Elsewhere(w, added[1], {i})
       /\ Good(added[2], g, h, U) /\ Elsewhere(w, added[2], {i})
       /\ added[2].prim = w.prim \cup {<<i, b>>} /\ added[2].heap = w.heap
       /\ TrueIndex(added[2], i)
  BY <1>7, <1>8, <1>9, InEveryIndexIsGood
<1> HIDE DEF added
<1>11. w \in S /\ added[1] \in S /\ added[2] \in S
  <2>1. w \in S
    BY <1>4, <1>7, StateFollows
  <2> HIDE DEF S
  <2> QED BY <2>1, <1>10, StateFollows DEF S
<1>12. /\ indexed \in Seq(States(added[2], g, h, U)) /\ Len(indexed) \in Nat \ {0}
       /\ last \in States(added[2], g, h, U)
       /\ last.prim = added[2].prim /\ last.heap = added[2].heap /\ last.txn = added[2].txn
       /\ TrueIndex(last, i)
  BY <1>10, IndexedIsGood
<1>13. States(added[2], g, h, U) \subseteq S
  BY <1>11 DEF States
<1> HIDE DEF S, indexed, last
<1>14. pre \in Seq(S)
  <2>1. <<w>> \o added \in Seq(S)
    <3>1. PICK x \in S, y \in S : added = <<x, y>>
      BY <1>10, <1>11
    <3>2. <<w>> \in Seq(S) /\ added \in Seq(S)
      BY <1>11, <3>1
    <3> QED BY <3>2, ConcatProperties
  <2>2. indexed \in Seq(S)
    BY <1>12, <1>13
  <2> QED BY <2>1, <2>2, ConcatProperties
<1>15. /\ Good(last, g, h, U) /\ ~last.txn.on
       /\ last.count = store.count /\ last.first = store.first
  BY <1>2, <1>7, <1>10, <1>12, <1>13 DEF States, S, Elsewhere
<1>16. /\ Good(t, g, h, U) /\ ~t.txn.on /\ t.heap = last.heap /\ t.prim = last.prim
       /\ t.count = last.count + 1 /\ t.first = last.first
       /\ TrueIndex(t, i) /\ TrueOnDisk(t, i)
  <2>1. 1 \in Int
    OBVIOUS
  <2> HIDE DEF t
  <2> QED BY ZenonT(60), <2>1, <1>12, <1>15, CountedIsGood DEF t
<1> HIDE DEF t, pre
<1>17. LET d == Written(docs, {i}, f)
       IN  Good(t, d, h, unsure) /\ ~t.txn.on /\ Counts(t, d, unsure)
  <2> DEFINE d == Written(docs, {i}, f)
  <2>1. Reads(t, i, v) /\ InTxn(t, i)
    BY <1>7, <1>10, <1>12, <1>16 DEF Reads, InTxn
  <2>2. Good(t, d, h, unsure)
    <3>1. \A x \in DOMAIN f : Reads(t, x, f[x])
      BY <2>1
    <3>2. \A x \in (DocId \cap {i}) \ unsure :
            /\ TrueIndex(t, x) /\ InTxn(t, x) /\ TrueOnDisk(t, x)
            /\ Has(t, x) => x \in DOMAIN f
      BY <1>16, <2>1
    <3>3. DOMAIN f \subseteq (DocId \cap {i}) \ unsure
      BY <1>1
    <3>4. Good(t, Without(docs, {i}), Without(settled, {i}), unsure \cup {i})
      BY <1>16 DEF g, h, U
    <3> HIDE DEF f
    <3> QED BY <3>1, <3>2, <3>3, <3>4, WrittenIsGood DEF h
  <2>3. i \notin DOMAIN docs
    BY <1>1, <1>2 DEF Good, Reads, Has
  <2>4. Cardinality(DOMAIN d) = Cardinality(DOMAIN docs) + 1
    <3>1. DOMAIN d = DOMAIN docs \cup {i}
      BY DEF Written
    <3> QED BY <2>3, <3>1, FS_AddElement DEF EngineInv
  <2>5. Counts(t, d, unsure)
    BY <1>2, <1>15, <1>16, <2>4 DEF Counts
  <2> QED BY <1>16, <2>2, <2>5
<1>18. /\ \A k \in 1 .. Len(pre \o <<t>>) - 1 : (pre \o <<t>>)[k] \in S
       /\ (pre \o <<t>>)[Len(pre \o <<t>>)] = t
  BY <1>14, RunEnds
<1>19. IsFiniteSet({i}) /\ {i} \in SUBSET DocId /\ DOMAIN f \subseteq {i} \ unsure
       /\ \A x \in DOMAIN f : f[x] \in Content
  BY <1>1, FS_Singleton
<1> HIDE DEF f
<1> QED BY <1>1, <1>6, <1>17, <1>18, <1>19, OperationKeepsInv DEF S, g, h, U

LEMMA TwoBlocksAreFree ==
    ASSUME NEW s \in Store, Cardinality(FreeBlocks(s)) > 1, NEW i \in DocId, NEW v \in Content,
           NEW g, NEW h, NEW U, Good(s, g, h, U)
    PROVE  FreeBlocks(s) # {} /\ FreeBlocks(AllocateAndWrite(s, i, v)) # {}
<1> DEFINE free == FreeBlocks(s)
           b == NextBlock(s)
           t == AllocateAndWrite(s, i, v)
<1>1. free # {}
  BY FS_EmptySet
<1>2. \E c \in free : c # b
  <2> SUFFICES ASSUME free \in SUBSET {b} PROVE FALSE
    OBVIOUS
  <2>1. IsFiniteSet({b}) /\ Cardinality({b}) = 1
    BY FS_Singleton
  <2>2. IsFiniteSet(free) /\ Cardinality(free) <= 1
    BY <2>1, FS_Subset
  <2>3. Cardinality(free) \in Nat
    BY <2>2, FS_CardinalityType
  <2> QED BY <2>2, <2>3
<1>3. \A c \in Block \ {b} : t.heap[c] = s.heap[c]
  BY <1>1, AllocateIsGood
<1>4. free = {c \in Block : s.heap[c] = Empty} /\ FreeBlocks(t) = {c \in Block : t.heap[c] = Empty}
  BY DEF FreeBlocks
<1> HIDE DEF free, t, b
<1>5. FreeBlocks(t) # {}
  BY <1>2, <1>3, <1>4
<1> QED BY <1>1, <1>5 DEF free, t

\* The index is true of what it was true of.
AsTrue(s, t) == \A x \in DocId : TrueIndex(s, x) => TrueIndex(t, x)

\* insertMany: a field with no index is to have one.
Deferring(s, t, vs) == IF Missing(s, vs) /\ ~s.auto THEN [t EXCEPT !.deferred = TRUE] ELSE t

\* insertMany: the documents written, and the transaction begun.
LEMMA ManyWritten ==
    ASSUME NEW s, NEW g, NEW h, NEW U, Good(s, g, h, U), Cardinality(FreeBlocks(s)) > 1,
           NEW i \in DocId, NEW v \in Content, NEW j \in DocId, NEW w \in Content
    PROVE  LET one == AllocateAndWrite(s, i, v)
               two == AllocateAndWrite(one, j, w)
               began == Begun(Deferring(s, two, {v, w}))
               b == NextBlock(s)
               c == NextBlock(one)
           IN  /\ one \in States(s, g, h, U) /\ began \in States(s, g, h, U)
               /\ began.prim = s.prim
               /\ b \in Block /\ c \in Block
               /\ began.heap[b] = <<i, v>> /\ began.heap[c] = <<j, w>>
               /\ b \notin began.pending /\ c \notin began.pending
               /\ AsTrue(s, began)
<1> DEFINE one == AllocateAndWrite(s, i, v)
           two == AllocateAndWrite(one, j, w)
           more == Deferring(s, two, {v, w})
           began == Begun(more)
           b == NextBlock(s)
           c == NextBlock(one)
<1>1. s \in Store /\ s \in States(s, g, h, U)
  BY DEF Good, States
<1>2. FreeBlocks(s) # {} /\ FreeBlocks(one) # {}
  BY <1>1, TwoBlocksAreFree
<1>3. /\ Good(one, g, h, U) /\ Elsewhere(s, one, {})
      /\ b \in Block /\ one.heap[b] = <<i, v>> /\ b \notin one.pending
      /\ one.prim = s.prim
  BY <1>2, AllocateIsGood
<1> HIDE DEF one, b
<1>4. /\ Good(two, g, h, U) /\ Elsewhere(one, two, {})
      /\ c \in Block /\ two.heap[c] = <<j, w>> /\ c \notin two.pending
      /\ two.prim = one.prim /\ two.pending = one.pending
      /\ one.heap[c] = Empty /\ \A a \in Block \ {c} : two.heap[a] = one.heap[a]
  BY <1>2, <1>3, AllocateIsGood
<1> HIDE DEF two, c
<1>5. b # c
  BY <1>3, <1>4, DocIsNotEmpty
<1>6. /\ more \in Store
      /\ more.heap = two.heap /\ more.pending = two.pending /\ more.prim = two.prim
      /\ more.trees = two.trees /\ more.attached = two.attached /\ more.listed = two.listed
      /\ more.txn = two.txn /\ more.disk = two.disk /\ more.saved = two.saved
      /\ more.count = two.count /\ more.first = two.first
  <2>1. two \in Store
    BY <1>4 DEF Good
  <2>2. CASE more = two
    BY <2>1, <2>2
  <2>3. CASE more = [two EXCEPT !.deferred = TRUE]
    <3> HIDE DEF more
    <3> QED BY <2>1, <2>3 DEF Store
  <2> QED BY <2>2, <2>3 DEF Deferring
<1> HIDE DEF more
<1>7. Good(more, g, h, U)
  BY <1>4, <1>6, FlagsAreGood
<1>8. /\ Good(began, g, h, U)
      /\ began.heap = more.heap /\ began.prim = more.prim /\ began.trees = more.trees
      /\ began.pending = more.pending /\ began.attached = more.attached
      /\ began.listed = more.listed /\ began.count = more.count /\ began.first = more.first
  BY <1>7, BegunIsGood
<1> HIDE DEF began
<1>9. one \in States(s, g, h, U) /\ two \in States(s, g, h, U)
  <2>1. one \in States(s, g, h, U)
    BY <1>1, <1>3, StateFollows
  <2> QED BY <2>1, <1>4, StateFollows
<1>10. began \in States(s, g, h, U)
  BY <1>6, <1>8, <1>9 DEF States, Good, InUse
<1>11. AsTrue(s, began)
  <2> SUFFICES ASSUME NEW x \in DocId, TrueIndex(s, x)
               PROVE  TrueIndex(began, x)
    BY DEF AsTrue
  <2>1. TrueIndex(one, x)
    BY <1>3, ElsewhereIsTrue
  <2>2. TrueIndex(two, x)
    BY <2>1, <1>4, ElsewhereIsTrue
  <2> QED BY <2>2, <1>6, <1>8 DEF TrueIndex
<1> QED BY SMTT(30), <1>3, <1>4, <1>5, <1>6, <1>8, <1>9, <1>10, <1>11 DEF one, two, more, began, b, c

\* insertMany: the end of the transaction, and the commits.
LEMMA ManyEnded ==
    ASSUME NEW s, NEW g, NEW h, NEW U, Good(s, g, h, U), NEW n \in Int
    PROVE  LET ended == [s EXCEPT !.txn = NotInTransaction]
               flushed == Flush(ended)
               t == Counted(flushed, n)
           IN  /\ ended \in States(s, g, h, U) /\ flushed \in States(s, g, h, U)
               /\ Good(t, g, h, U) /\ ~t.txn.on /\ t.heap = s.heap /\ t.prim = s.prim
               /\ t.count = s.count + n /\ t.first = s.first
               /\ \A x \in DocId : TrueIndex(s, x) => TrueIndex(t, x) /\ TrueOnDisk(t, x)
<1> DEFINE ended == [s EXCEPT !.txn = NotInTransaction]
           flushed == Flush(ended)
           t == Counted(flushed, n)
<1>1. /\ Good(ended, g, h, U) /\ ~ended.txn.on
      /\ ended.heap = s.heap /\ ended.prim = s.prim /\ ended.trees = s.trees
      /\ ended.attached = s.attached /\ ended.listed = s.listed
      /\ ended.count = s.count /\ ended.first = s.first
  BY EndedIsGood
<1> HIDE DEF ended
<1>2. /\ Good(flushed, g, h, U)
      /\ flushed.heap = ended.heap /\ flushed.prim = ended.prim /\ flushed.trees = ended.trees
      /\ flushed.attached = ended.attached /\ flushed.listed = ended.listed
      /\ flushed.txn = ended.txn /\ flushed.count = ended.count /\ flushed.first = ended.first
  BY <1>1, FlushIsGood
<1> HIDE DEF flushed
<1>3. /\ Good(t, g, h, U) /\ ~t.txn.on
      /\ t.heap = flushed.heap /\ t.prim = flushed.prim
      /\ t.count = flushed.count + n /\ t.first = flushed.first
      /\ \A x \in DocId : TrueIndex(flushed, x) => TrueIndex(t, x) /\ TrueOnDisk(t, x)
  BY <1>1, <1>2, CountedIsGood
<1> HIDE DEF t
<1>4. ended \in States(s, g, h, U) /\ flushed \in States(s, g, h, U)
  BY <1>1, <1>2 DEF States, Good, InUse
<1>5. \A x \in DocId : TrueIndex(s, x) => TrueIndex(flushed, x)
  BY <1>1, <1>2 DEF TrueIndex
<1> QED BY <1>1, <1>2, <1>3, <1>4, <1>5 DEF t, flushed, ended

LEMMA InsertManyKeepsInv ==
    ASSUME EngineInv, ~GoesOn, ~ReopensStale,
           NEW i \in DocId, NEW v \in Content, NEW j \in DocId, NEW w \in Content,
           InsertMany(i, v, j, w)
    PROVE  EngineInv'
<1> DEFINE ids == {i, j}
           f == [x \in {i, j} |-> IF x = i THEN v ELSE w]
           g == Without(docs, ids)
           h == Without(settled, ids)
           U == unsure \cup ids
           S == States(store, g, h, U)
           b == NextBlock(store)
           one == AllocateAndWrite(store, i, v)
           c == NextBlock(one)
           two == AllocateAndWrite(one, j, w)
           began == Begun(IF Missing(store, {v, w}) /\ ~store.auto
                          THEN [two EXCEPT !.deferred = TRUE] ELSE two)
           addI == InEveryIndex(began, i, v, b)
           addJ == InEveryIndex(addI[2], j, w, c)
           indexed == IF store.auto THEN IndexIfMissing(addJ[2], {v, w}) ELSE <<addJ[2]>>
           last == indexed[Len(indexed)]
           ended == [last EXCEPT !.txn = NotInTransaction]
           flushed == Flush(ended)
           t == Counted(flushed, 2)
           most == <<one, began>> \o addI \o addJ \o indexed
           pre == most \o <<ended, flushed>>
<1>1. /\ crashes = 0 /\ ~Has(store, i) /\ i \notin unsure /\ ~Has(store, j) /\ j \notin unsure
      /\ i # j /\ Cardinality(FreeBlocks(store)) > 1
      /\ Does(InsertManySteps(store, i, v, j, w), ids, f)
  BY DEF InsertMany, MayRun, New
<1>2. /\ Good(store, docs, settled, unsure) /\ ~store.txn.on /\ Counts(store, docs, unsure)
      /\ store \in Store
  BY <1>1 DEF EngineInv, Running, Good
<1>3. Good(store, g, h, U)
  BY <1>2, WithoutIsGood
<1>4. TrueIndex(store, i) /\ TrueIndex(store, j)
  BY <1>1, <1>2 DEF Good
<1>5. InsertManySteps(store, i, v, j, w) = most \o <<ended, flushed, t>>
  BY DEF InsertManySteps
<1> HIDE DEF g, h, U
<1>6. /\ one \in S /\ began \in S /\ began.prim = store.prim
      /\ b \in Block /\ c \in Block
      /\ began.heap[b] = <<i, v>> /\ began.heap[c] = <<j, w>>
      /\ b \notin began.pending /\ c \notin began.pending
      /\ AsTrue(store, began)
  <2>1. began = Begun(Deferring(store, two, {v, w}))
    BY DEF Deferring
  <2> HIDE DEF began
  <2> QED BY <1>1, <1>3, <2>1, ManyWritten
<1> HIDE DEF one, two, began, b, c
<1>7. i \in DocId \cap U /\ j \in DocId \cap U
  BY DEF U
<1>8. ~Has(began, i) /\ ~Has(began, j) /\ TrueIndex(began, i) /\ TrueIndex(began, j)
      /\ Good(began, g, h, U)
  BY <1>1, <1>4, <1>6 DEF Has, States, AsTrue
<1>9. /\ addI = <<addI[1], addI[2]>>
      /\ Good(addI[1], g, h, U) /\ Elsewhere(began, addI[1], {i})
      /\ Good(addI[2], g, h, U) /\ Elsewhere(began, addI[2], {i})
      /\ addI[2].prim = began.prim \cup {<<i, b>>} /\ addI[2].heap = began.heap
      /\ addI[2].pending = began.pending
      /\ TrueIndex(addI[2], i)
  BY SMTT(30), <1>6, <1>7, <1>8, InEveryIndexIsGood
<1> HIDE DEF addI
<1>10. ~Has(addI[2], j) /\ TrueIndex(addI[2], j)
  BY <1>1, <1>8, <1>9, ElsewhereIsTrue
<1>11. /\ addJ = <<addJ[1], addJ[2]>>
       /\ Good(addJ[1], g, h, U) /\ Elsewhere(addI[2], addJ[1], {j})
       /\ Good(addJ[2], g, h, U) /\ Elsewhere(addI[2], addJ[2], {j})
       /\ addJ[2].prim = addI[2].prim \cup {<<j, c>>} /\ addJ[2].heap = addI[2].heap
       /\ TrueIndex(addJ[2], j)
  <2>1. addI[2].heap[c] = <<j, w>> /\ c \notin addI[2].pending /\ c \in Block
    BY <1>6, <1>9
  <2> QED BY <1>7, <1>9, <1>10, <2>1, InEveryIndexIsGood
<1> HIDE DEF addJ
<1>12. TrueIndex(addJ[2], i)
  BY <1>1, <1>9, <1>11, ElsewhereIsTrue
<1>13. addI[1] \in S /\ addI[2] \in S /\ addJ[1] \in S /\ addJ[2] \in S
  <2> HIDE DEF S
  <2>1. addI[1] \in S /\ addI[2] \in S
    BY <1>6, <1>9, StateFollows DEF S
  <2> QED BY <2>1, <1>11, StateFollows DEF S
<1>14. /\ indexed \in Seq(States(addJ[2], g, h, U))
       /\ last \in States(addJ[2], g, h, U)
       /\ last.prim = addJ[2].prim /\ last.heap = addJ[2].heap
       /\ TrueIndex(last, i) /\ TrueIndex(last, j)
  <2>1. CASE store.auto
    BY <1>11, <1>12, <2>1, IndexedIsGood
  <2>2. CASE ~store.auto
    <3>1. indexed = <<addJ[2]>>
      BY <2>2
    <3> HIDE DEF indexed
    <3>2. Len(indexed) = 1 /\ indexed[1] = addJ[2]
      BY <3>1
    <3>3. addJ[2] \in States(addJ[2], g, h, U)
      BY <1>11 DEF States, Good
    <3>4. indexed \in Seq(States(addJ[2], g, h, U))
      BY <3>1, <3>3
    <3> QED BY <3>2, <3>3, <3>4, <1>11, <1>12
  <2> QED BY <2>1, <2>2
<1>15. States(addJ[2], g, h, U) \subseteq S
  BY <1>13 DEF States
<1> HIDE DEF indexed
<1>16. most \in Seq(S)
  <2>1. PICK x \in S, y \in S : addI = <<x, y>>
    BY <1>9, <1>13
  <2>2. PICK x2 \in S, y2 \in S : addJ = <<x2, y2>>
    BY <1>11, <1>13
  <2>3. <<one, began>> \in Seq(S) /\ addI \in Seq(S) /\ addJ \in Seq(S)
    BY <1>6, <2>1, <2>2
  <2> HIDE DEF S
  <2>4. <<one, began>> \o addI \in Seq(S)
    BY <2>3, ConcatProperties
  <2>5. (<<one, began>> \o addI) \o addJ \in Seq(S)
    BY <2>3, <2>4, ConcatProperties
  <2>6. indexed \in Seq(S)
    BY <1>14, <1>15
  <2> QED BY <2>5, <2>6, ConcatProperties
<1> HIDE DEF last, most
<1>17. Good(last, g, h, U) /\ last \in S
  BY <1>14, <1>15 DEF States
<1>18. /\ ended \in States(last, g, h, U) /\ flushed \in States(last, g, h, U)
       /\ Good(t, g, h, U) /\ ~t.txn.on /\ t.heap = last.heap /\ t.prim = last.prim
       /\ t.count = last.count + 2 /\ t.first = last.first
       /\ \A x \in DocId : TrueIndex(last, x) => TrueIndex(t, x) /\ TrueOnDisk(t, x)
  <2>1. 2 \in Int
    OBVIOUS
  <2> HIDE DEF t, flushed, ended
  <2> QED BY <2>1, <1>17, ManyEnded DEF t, flushed, ended
<1> HIDE DEF t, flushed, ended
<1>19. ended \in S /\ flushed \in S
  BY <1>17, <1>18 DEF States
<1>20. pre \in Seq(S) /\ most \o <<ended, flushed, t>> = pre \o <<t>>
  <2> HIDE DEF S
  <2>1. <<ended, flushed>> \in Seq(S)
    BY <1>19
  <2>2. pre \in Seq(S)
    BY <1>16, <2>1, ConcatProperties
  <2>3. /\ most \in Seq(S \cup {t}) /\ <<ended, flushed>> \in Seq(S \cup {t})
        /\ <<t>> \in Seq(S \cup {t})
    BY <1>16, <1>19
  <2>4. (most \o <<ended, flushed>>) \o <<t>> = most \o (<<ended, flushed>> \o <<t>>)
    BY <2>3, ConcatAssociative
  <2>5. <<ended, flushed>> \o <<t>> = <<ended, flushed, t>>
    BY OneMore
  <2> QED BY <2>2, <2>4, <2>5
<1> HIDE DEF pre
<1>21. LET d == Written(docs, ids, f)
       IN  Good(t, d, h, unsure) /\ ~t.txn.on /\ Counts(t, d, unsure)
  <2> DEFINE d == Written(docs, ids, f)
  <2>1. Reads(t, i, v) /\ Reads(t, j, w) /\ \A x \in DocId : InTxn(t, x)
    BY <1>6, <1>9, <1>11, <1>14, <1>18 DEF Reads, InTxn
  <2>2. Good(t, d, h, unsure)
    <3>1. \A x \in DOMAIN f : Reads(t, x, f[x])
      BY <1>1, <2>1
    <3>2. \A x \in (DocId \cap ids) \ unsure :
            /\ TrueIndex(t, x) /\ InTxn(t, x) /\ TrueOnDisk(t, x)
            /\ Has(t, x) => x \in DOMAIN f
      BY <1>14, <1>18, <2>1
    <3>3. DOMAIN f \subseteq (DocId \cap ids) \ unsure
      BY <1>1
    <3>4. Good(t, Without(docs, ids), Without(settled, ids), unsure \cup ids)
      BY <1>18 DEF g, h, U
    <3> HIDE DEF f, ids
    <3> QED BY <3>1, <3>2, <3>3, <3>4, WrittenIsGood DEF h
  <2>3. i \notin DOMAIN docs /\ j \notin DOMAIN docs
    BY <1>1, <1>2 DEF Good, Reads, Has
  <2>4. Cardinality(DOMAIN d) = Cardinality(DOMAIN docs) + 2
    <3>1. DOMAIN d = (DOMAIN docs \cup {i}) \cup {j}
      BY DEF Written
    <3>2. /\ IsFiniteSet(DOMAIN docs \cup {i})
          /\ Cardinality(DOMAIN docs \cup {i}) = Cardinality(DOMAIN docs) + 1
      BY <2>3, FS_AddElement DEF EngineInv
    <3>3. Cardinality((DOMAIN docs \cup {i}) \cup {j}) = Cardinality(DOMAIN docs \cup {i}) + 1
      BY <1>1, <2>3, <3>2, FS_AddElement
    <3>4. Cardinality(DOMAIN docs) \in Nat
      BY FS_CardinalityType DEF EngineInv
    <3> QED BY <3>1, <3>2, <3>3, <3>4
  <2>5. last.count = store.count /\ last.first = store.first
    BY <1>17 DEF States
  <2>6. Counts(t, d, unsure)
    BY <1>2, <1>18, <2>4, <2>5 DEF Counts
  <2> QED BY <1>18, <2>2, <2>6
<1>22. /\ \A k \in 1 .. Len(pre \o <<t>>) - 1 : (pre \o <<t>>)[k] \in S
       /\ (pre \o <<t>>)[Len(pre \o <<t>>)] = t
  BY <1>20, RunEnds
<1>23. IsFiniteSet(ids) /\ ids \in SUBSET DocId /\ DOMAIN f \subseteq ids \ unsure
       /\ \A x \in DOMAIN f : f[x] \in Content
  <2>1. IsFiniteSet({i}) /\ ids = {i} \cup {j}
    BY FS_Singleton
  <2>2. IsFiniteSet(ids)
    BY <2>1, FS_AddElement
  <2> QED BY <1>1, <2>2
<1> HIDE DEF f, ids
<1> QED BY <1>1, <1>5, <1>20, <1>21, <1>22, <1>23, OperationKeepsInv DEF S, g, h, U

LEMMA BlockIsFound ==
    ASSUME NEW s, NEW i, FindById(s, i) # Empty
    PROVE  BlockOf(s, i) \in Block /\ <<i, BlockOf(s, i)>> \in s.prim
<1>1. Has(s, i)
  BY DEF FindById
<1> QED BY <1>1 DEF Has, BlockOf

LEMMA UpdateKeepsInv ==
    ASSUME EngineInv, ~GoesOn, ~ReopensStale, NEW i \in DocId, NEW v \in Content, Update(i, v)
    PROVE  EngineInv'
<1> DEFINE f == [x \in {i} \ unsure |-> v]
           g == Without(docs, {i})
           h == Without(settled, {i})
           U == unsure \cup {i}
           S == States(store, g, h, U)
           b == BlockOf(store, i)
           old == store.heap[b][2]
           removed == IF old # v THEN WithoutKey(store, old, i) ELSE store
           added == IF old # v THEN WithKey(removed, v, i, b) ELSE removed
           t == [added EXCEPT !.heap[b] = <<i, v>>]
<1>1. crashes = 0 /\ FindById(store, i) # Empty /\ Does(UpdateSteps(store, i, v), {i}, f)
  BY DEF Update, MayRun
<1>2. /\ Good(store, docs, settled, unsure) /\ ~store.txn.on /\ Counts(store, docs, unsure)
      /\ store \in Store
  BY <1>1 DEF EngineInv, Running, Good
<1>3. Good(store, g, h, U) /\ i \in DocId \cap U
  BY <1>2, WithoutIsGood
<1>4. store \in S
  BY <1>2, <1>3 DEF States
<1>5. b \in Block /\ <<i, b>> \in store.prim
  BY <1>1, BlockIsFound
<1>6. UpdateSteps(store, i, v) = <<removed, added, t>>
  BY DEF UpdateSteps
<1> HIDE DEF f, g, h, U, b
<1>7. /\ Good(removed, g, h, U) /\ Elsewhere(store, removed, {i})
      /\ removed.prim = store.prim /\ removed.heap = store.heap
      /\ old # v => KeyRemoved(store, removed, i, old)
      /\ old = v => removed = store
  <2>1. CASE old # v
    BY <1>3, <2>1, WithoutKeyIsGood
  <2>2. CASE old = v
    BY <1>3, <2>2 DEF Elsewhere
  <2> QED BY <2>1, <2>2
<1> HIDE DEF removed
<1>8. /\ Good(added, g, h, U) /\ Elsewhere(removed, added, {i})
      /\ added.prim = removed.prim /\ added.heap = removed.heap
      /\ old # v => KeyAdded(removed, added, i, v, b)
      /\ old = v => added = removed
  <2>1. CASE old # v
    BY <1>3, <1>5, <1>7, <2>1, WithKeyIsGood
  <2>2. CASE old = v
    BY <1>7, <2>2 DEF Elsewhere
  <2> QED BY <2>1, <2>2
<1> HIDE DEF added
<1>9. /\ Good(t, g, h, U) /\ Elsewhere(added, t, {i})
      /\ t.prim = added.prim /\ t.trees = added.trees /\ t.heap[b] = <<i, v>>
  BY <1>3, <1>5, <1>7, <1>8, RewriteIsGood
<1> HIDE DEF t
<1>10. removed \in S /\ added \in S /\ t \in S
  <2> HIDE DEF S
  <2>1. removed \in S
    BY <1>4, <1>7, StateFollows DEF S
  <2>2. added \in S
    BY <1>8, <2>1, StateFollows DEF S
  <2> QED BY <1>9, <2>1, <2>2, StateFollows DEF S
<1>11. Elsewhere(store, t, {i})
  BY <1>7, <1>8, <1>9 DEF Elsewhere
<1>12. ASSUME i \notin unsure
       PROVE  TrueIndex(t, i) /\ TrueOnDisk(t, i)
  <2>1. TrueIndex(store, i) /\ TrueOnDisk(store, i)
    BY <1>2, <1>12 DEF Good
  <2>2. \A c \in Block : <<i, c>> \in store.prim <=> c = b
    BY <1>2, <1>5 DEF Good, Shape
  <2>3. store.heap[b] = <<i, old>>
    BY <1>2, <1>5 DEF Good, Shape
  <2> HIDE DEF old
  <2>4. \A c \in Block : <<i, c>> \in t.prim <=> c = b
    BY <2>2, <1>7, <1>8, <1>9
  <2>5. ASSUME t.attached # NoTree, NEW w \in Value, NEW c \in Block
        PROVE  <<w, i, c>> \in t.trees[t.attached] <=> c = b /\ w = v
    <3>1. t.attached = store.attached /\ removed.attached = store.attached
          /\ t.trees = added.trees
      BY <1>7, <1>9, <1>11 DEF Elsewhere
    <3>2. <<w, i, c>> \in store.trees[store.attached] <=> c = b /\ w = old
      <4>1. <<i, old>> = <<i, w>> <=> w = old
        OBVIOUS
      <4>2. <<w, i, c>> \in store.trees[store.attached]
                <=> <<i, c>> \in store.prim /\ store.heap[c] = <<i, w>>
        BY <2>1, <2>5, <3>1 DEF TrueIndex
      <4> QED BY <2>2, <2>3, <4>1, <4>2
    <3>3. CASE old = v
      BY <1>7, <1>8, <3>1, <3>2, <3>3
    <3>4. CASE old # v
      <4>1. <<w, i, c>> \notin removed.trees[store.attached]
        BY <1>7, <2>5, <3>1, <3>2, <3>4 DEF KeyRemoved
      <4>2. <<w, i, c>> \in added.trees[store.attached] <=> w = v /\ c = b
        BY <1>8, <2>5, <3>1, <3>4, <4>1 DEF KeyAdded
      <4> QED BY <3>1, <4>2
    <3> QED BY <3>3, <3>4
  <2>6. TrueIndex(t, i)
    BY <1>9, <2>4, <2>5 DEF TrueIndex
  <2>7. TrueOnDisk(t, i)
    BY <1>11, <2>1 DEF TrueOnDisk, Elsewhere, InUse
  <2> QED BY <2>6, <2>7
<1>13. LET d == Written(docs, {i}, f)
       IN  Good(t, d, h, unsure) /\ ~t.txn.on /\ Counts(t, d, unsure)
  <2> DEFINE d == Written(docs, {i}, f)
  <2>1. ~t.txn.on /\ InTxn(t, i) /\ Reads(t, i, v)
    BY <1>2, <1>5, <1>7, <1>8, <1>9, <1>11 DEF Elsewhere, InTxn, Reads
  <2>2. Good(t, d, h, unsure)
    <3>1. \A x \in DOMAIN f : Reads(t, x, f[x])
      BY <2>1 DEF f
    <3>2. \A x \in (DocId \cap {i}) \ unsure :
            /\ TrueIndex(t, x) /\ InTxn(t, x) /\ TrueOnDisk(t, x)
            /\ Has(t, x) => x \in DOMAIN f
      BY <1>12, <2>1 DEF f
    <3>3. DOMAIN f \subseteq (DocId \cap {i}) \ unsure
      BY DEF f
    <3>4. Good(t, Without(docs, {i}), Without(settled, {i}), unsure \cup {i})
      BY <1>9 DEF g, h, U
    <3> QED BY <3>1, <3>2, <3>3, <3>4, WrittenIsGood DEF h
  <2>3. unsure = {} => DOMAIN d = DOMAIN docs
    <3>1. Has(store, i)
      BY <1>5 DEF Has
    <3>2. unsure = {} => i \in DOMAIN docs
      BY <1>2, <3>1 DEF Good
    <3> QED BY <3>2 DEF Written, f
  <2>4. Counts(t, d, unsure)
    BY <1>2, <1>11, <2>3 DEF Counts, Elsewhere
  <2> QED BY <2>1, <2>2, <2>4
<1>14. IsFiniteSet({i}) /\ {i} \in SUBSET DocId /\ DOMAIN f \subseteq {i} \ unsure
       /\ \A x \in DOMAIN f : f[x] \in Content
  BY FS_Singleton DEF f
<1> DEFINE run == <<removed, added, t>>
<1>15. run[Len(run)] = t /\ \A k \in 1 .. Len(run) - 1 : run[k] \in S
  <2> HIDE DEF S
  <2> QED BY <1>10
<1> HIDE DEF run
<1>16. UpdateSteps(store, i, v) = run
  BY <1>6 DEF run
<1> QED BY <1>1, <1>13, <1>14, <1>15, <1>16, OperationKeepsInv DEF S, g, h, U

LEMMA DeleteKeepsInv ==
    ASSUME EngineInv, ~GoesOn, ~ReopensStale, NEW i \in DocId, Delete(i)
    PROVE  EngineInv'
<1> DEFINE f == NoDocs
           g == Without(docs, {i})
           h == Without(settled, {i})
           U == unsure \cup {i}
           S == States(store, g, h, U)
           b == BlockOf(store, i)
           old == store.heap[b][2]
           unkeyed == WithoutKey(store, old, i)
           gone == [unkeyed EXCEPT !.prim = {e \in @ : e[1] # i}]
           freed == [gone EXCEPT !.pending = @ \cup {b}]
           n == IF store.count > 0 THEN -1 ELSE 0
           t == Counted(freed, n)
<1>1. crashes = 0 /\ FindById(store, i) # Empty /\ Does(DeleteSteps(store, i), {i}, f)
  BY DEF Delete, MayRun
<1>2. /\ Good(store, docs, settled, unsure) /\ ~store.txn.on /\ Counts(store, docs, unsure)
      /\ store \in Store /\ Shape(store)
  BY <1>1 DEF EngineInv, Running, Good
<1>3. Good(store, g, h, U) /\ i \in DocId \cap U
  BY <1>2, WithoutIsGood
<1>4. store \in S
  BY <1>2, <1>3 DEF States
<1>5. b \in Block /\ <<i, b>> \in store.prim
  BY <1>1, BlockIsFound
<1>6. DeleteSteps(store, i) = <<unkeyed, gone, freed, t>>
  BY DEF DeleteSteps
<1>7. n \in Int
  OBVIOUS
<1> HIDE DEF f, g, h, U, b, n
<1>8. store.heap[b] = <<i, old>> /\ \A c \in Block : <<i, c>> \in store.prim <=> c = b
  BY <1>2, <1>5 DEF Shape
<1> HIDE DEF old
<1>9. /\ Good(unkeyed, g, h, U) /\ Elsewhere(store, unkeyed, {i})
      /\ unkeyed.prim = store.prim /\ unkeyed.heap = store.heap
      /\ KeyRemoved(store, unkeyed, i, old)
  BY <1>3, WithoutKeyIsGood
<1> HIDE DEF unkeyed
<1>10. ~unkeyed.txn.on
  BY <1>2, <1>9 DEF Elsewhere
<1>11. /\ Good(gone, g, h, U) /\ Elsewhere(unkeyed, gone, {i}) /\ ~Has(gone, i)
       /\ gone.heap = unkeyed.heap /\ gone.trees = unkeyed.trees
               /\ \A x \in DocId, c \in Block :
            <<x, c>> \in gone.prim <=> <<x, c>> \in unkeyed.prim /\ x # i
  BY <1>3, <1>9, <1>10, RemoveIsGood
<1> HIDE DEF gone
<1>12. gone.heap[b] # Empty /\ \A x \in DocId : <<x, b>> \notin gone.prim
  <2>1. gone.heap[b] = <<i, old>>
    BY <1>8, <1>9, <1>11
  <2>2. \A x \in DocId : <<x, b>> \in store.prim => x = i
    BY <1>2, <1>5, <1>8 DEF Shape
  <2>3. \A x \in DocId : <<x, b>> \notin gone.prim
    BY <1>5, <1>9, <1>11, <2>2
  <2> QED BY <2>1, <2>3, DocIsNotEmpty
<1>13. /\ Good(freed, g, h, U) /\ Elsewhere(gone, freed, {})
       /\ freed.heap = gone.heap /\ freed.prim = gone.prim /\ freed.trees = gone.trees
  BY <1>5, <1>11, <1>12, FreeIsGood
<1> HIDE DEF freed
<1>14. unkeyed \in S /\ gone \in S /\ freed \in S
  <2> HIDE DEF S
  <2>1. unkeyed \in S
    BY <1>4, <1>9, StateFollows DEF S
  <2>2. gone \in S
    BY <1>11, <2>1, StateFollows DEF S
  <2> QED BY <1>13, <2>1, <2>2, StateFollows DEF S
<1>15. Elsewhere(store, freed, {i}) /\ ~freed.txn.on
  BY <1>2, <1>9, <1>11, <1>13 DEF Elsewhere
<1>16. /\ Good(t, g, h, U) /\ ~t.txn.on /\ t.heap = freed.heap /\ t.prim = freed.prim
       /\ t.count = freed.count + n /\ t.first = freed.first
       /\ \A x \in DocId : TrueIndex(freed, x) => TrueIndex(t, x) /\ TrueOnDisk(t, x)
  <2> HIDE DEF t
  <2> QED BY <1>7, <1>13, <1>15, CountedIsGood DEF t
<1> HIDE DEF t
<1>17. ASSUME i \notin unsure
       PROVE  TrueIndex(freed, i)
  <2>1. TrueIndex(store, i)
    BY <1>2, <1>17 DEF Good
  <2>2. ASSUME store.attached # NoTree, NEW w \in Value, NEW c \in Block
        PROVE  <<w, i, c>> \notin freed.trees[store.attached]
    <3>1. <<w, i, c>> \in store.trees[store.attached] => w = old
      <4>1. <<i, old>> = <<i, w>> <=> w = old
        OBVIOUS
      <4>2. <<w, i, c>> \in store.trees[store.attached]
                <=> <<i, c>> \in store.prim /\ store.heap[c] = <<i, w>>
        BY <2>1, <2>2 DEF TrueIndex
      <4> QED BY <1>8, <4>1, <4>2
    <3> QED BY <1>9, <1>11, <1>13, <2>2, <3>1 DEF KeyRemoved
  <2> QED BY <1>11, <1>13, <1>15, <2>2 DEF TrueIndex, Elsewhere, Has
<1>18. LET d == Written(docs, {i}, f)
       IN  Good(t, d, h, unsure) /\ ~t.txn.on /\ Counts(t, d, unsure)
  <2> DEFINE d == Written(docs, {i}, f)
  <2>0. DOMAIN f = {}
    BY DEF f, NoDocs
  <2>1. InTxn(t, i) /\ ~Has(t, i)
    BY <1>11, <1>13, <1>16 DEF InTxn, Has
  <2>2. Good(t, d, h, unsure)
    <3>1. \A x \in (DocId \cap {i}) \ unsure :
            /\ TrueIndex(t, x) /\ InTxn(t, x) /\ TrueOnDisk(t, x)
            /\ Has(t, x) => x \in DOMAIN f
      BY <1>16, <1>17, <2>1
    <3>2. Good(t, Without(docs, {i}), Without(settled, {i}), unsure \cup {i})
      BY <1>16 DEF g, h, U
    <3> QED BY <2>0, <3>1, <3>2, WrittenIsGood DEF h
  <2>3. DOMAIN d = DOMAIN docs \ {i}
    BY <2>0 DEF Written
  <2>4. unsure = {} => i \in DOMAIN docs
    <3>1. Has(store, i)
      BY <1>5 DEF Has
    <3> QED BY <1>2, <3>1 DEF Good
  <2>5. unsure = {} => Cardinality(DOMAIN d) = Cardinality(DOMAIN docs) - 1
    BY <2>3, <2>4, FS_RemoveElement DEF EngineInv
  <2>6. unsure = {} => Cardinality(DOMAIN docs) \in Nat /\ Cardinality(DOMAIN docs) # 0
    BY <2>4, FS_CardinalityType, FS_EmptySet DEF EngineInv
  <2>7. Counts(t, d, unsure)
    BY <1>2, <1>15, <1>16, <2>5, <2>6 DEF Counts, Elsewhere, n
  <2> QED BY <1>16, <2>2, <2>7
<1>19. IsFiniteSet({i}) /\ {i} \in SUBSET DocId /\ DOMAIN f \subseteq {i} \ unsure
       /\ \A x \in DOMAIN f : f[x] \in Content
  BY FS_Singleton DEF f, NoDocs
<1> DEFINE run == <<unkeyed, gone, freed, t>>
<1>20. run[Len(run)] = t /\ \A k \in 1 .. Len(run) - 1 : run[k] \in S
  <2> HIDE DEF S
  <2> QED BY <1>14
<1> HIDE DEF run
<1>21. DeleteSteps(store, i) = run
  BY <1>6 DEF run
<1> QED BY <1>1, <1>18, <1>19, <1>20, <1>21, OperationKeepsInv DEF S, g, h, U

\* An operation that writes no document.
LEMMA NothingWritten ==
    /\ Without(docs, {}) = [i \in DOMAIN docs |-> docs[i]]
    /\ Without(settled, {}) = [i \in DOMAIN settled |-> settled[i]]
    /\ Written(docs, {}, NoDocs) = [i \in DOMAIN docs |-> docs[i]]
    /\ unsure \cup {} = unsure
<1>1. DOMAIN NoDocs = {}
  BY DEF NoDocs
<1> QED BY <1>1 DEF Without, Written

LEMMA SameDocsAreGood ==
    ASSUME NEW t, Good(t, docs, settled, unsure)
    PROVE  /\ Good(t, Without(docs, {}), Without(settled, {}), unsure \cup {})
           /\ Good(t, Written(docs, {}, NoDocs), Without(settled, {}), unsure)
BY NothingWritten DEF Good

LEMMA QuietKeepsInv ==
    ASSUME EngineInv, crashes = 0, ~ReopensStale,
           NEW steps, Does(steps, {}, NoDocs),
           \A k \in 1 .. Len(steps) - 1 : steps[k] \in States(store, docs, settled, unsure),
           LET t == steps[Len(steps)]
           IN  Good(t, docs, settled, unsure) /\ ~t.txn.on /\ Counts(t, docs, unsure)
    PROVE  EngineInv'
<1> DEFINE t == steps[Len(steps)]
<1>1. States(store, docs, settled, unsure)
        \subseteq States(store, Without(docs, {}), Without(settled, {}), unsure \cup {})
  BY SameDocsAreGood DEF States
<1>2. Good(t, Written(docs, {}, NoDocs), Without(settled, {}), unsure)
  BY SameDocsAreGood
<1>3. Counts(t, Written(docs, {}, NoDocs), unsure)
  BY NothingWritten DEF Counts
<1>4. IsFiniteSet({}) /\ DOMAIN NoDocs = {}
  BY FS_EmptySet DEF NoDocs
<1> QED BY <1>1, <1>2, <1>3, <1>4, OperationKeepsInv

LEMMA DropIndexKeepsInv ==
    ASSUME EngineInv, ~GoesOn, ~ReopensStale, DropIndex
    PROVE  EngineInv'
<1> DEFINE dropped == [store EXCEPT !.attached = NoTree, !.idLast = FALSE]
           t == Forget(Flush([dropped EXCEPT !.listed = NoTree]))
           run == <<dropped, t>>
<1>1. crashes = 0 /\ Does(run, {}, NoDocs)
  BY DEF DropIndex, DropIndexSteps, MayRun
<1>2. /\ Good(store, docs, settled, unsure) /\ ~store.txn.on /\ Counts(store, docs, unsure)
      /\ store \in Store
  BY <1>1 DEF EngineInv, Running, Good
<1>3. /\ dropped \in Store /\ dropped.heap = store.heap /\ dropped.pending = store.pending
      /\ dropped.prim = store.prim /\ dropped.trees = store.trees
      /\ dropped.attached = NoTree /\ dropped.listed = store.listed /\ dropped.txn = store.txn
      /\ dropped.disk = store.disk /\ dropped.saved = store.saved
      /\ dropped.count = store.count /\ dropped.first = store.first
  BY <1>2 DEF Store, Trees
<1>4. t = Listed(dropped)
  BY <1>3 DEF Listed
<1> HIDE DEF dropped, t
<1>5. Good(dropped, docs, settled, unsure)
  BY <1>2, <1>3, DetachedIsGood
<1>6. /\ Good(t, docs, settled, unsure)
      /\ t.txn = dropped.txn /\ t.count = dropped.count /\ t.first = dropped.first
  BY <1>4, <1>5, ListedIsGood
<1>7. Counts(t, docs, unsure) /\ ~t.txn.on
  BY <1>2, <1>3, <1>6 DEF Counts
<1>8. CASE /\ store' = t /\ docs' = Written(docs, {}, NoDocs) /\ settled' = Without(settled, {})
           /\ UNCHANGED <<unsure, crashes, failures>>
  <2>1. Good(store', docs', settled', unsure) /\ Counts(store', docs', unsure)
    BY <1>6, <1>7, <1>8, SameDocsAreGood, NothingWritten DEF Counts
  <2>2. IsFiniteSet({}) /\ DOMAIN NoDocs = {}
    BY FS_EmptySet DEF NoDocs
  <2> QED BY <1>1, <1>7, <1>8, <2>1, <2>2, DoneKeepsInv
<1>9. CASE CrashAt(dropped, {})
  <2>1. Opened(dropped) = Opened(store)
    BY <1>3 DEF Opened
  <2>2. CrashAt(store, {})
    BY <1>9, <2>1 DEF CrashAt
  <2>3. store \in States(store, Without(docs, {}), Without(settled, {}), unsure \cup {})
    BY <1>2, SameDocsAreGood DEF States
  <2> QED BY <1>1, <2>2, <2>3, CrashKeepsInv
<1>10. CASE FailAt(dropped, {})
  BY <1>1, <1>3, <1>5, <1>10, SameDocsAreGood, FailureKeepsInv
<1>11. run[Len(run)] = t /\ \A k \in 1 .. Len(run) - 1 : run[k] = dropped
  OBVIOUS
<1> HIDE DEF run
<1> QED BY <1>1, <1>8, <1>9, <1>10, <1>11 DEF Does, Written

LEMMA BuiltAndAttachedIsGood ==
    ASSUME NEW s, NEW g, NEW h, NEW U, Good(s, g, h, U), s.attached = NoTree
    PROVE  LET k == NewTree(s)
               t == [s EXCEPT !.trees[k] = IndexEntries(s), !.attached = k]
           IN  t \in States(s, g, h, U) /\ t.txn = s.txn
<1> DEFINE k == NewTree(s)
           a == [s EXCEPT !.trees[k] = IndexEntries(s)]
           t == [a EXCEPT !.attached = k]
<1>1. /\ Good(a, g, h, U) /\ Elsewhere(s, a, {}) /\ a.heap = s.heap /\ a.prim = s.prim
      /\ a.trees[k] = IndexEntries(a) /\ k \in Trees /\ k \notin {NoTree, a.listed}
  BY BuiltIsGood
<1>2. t = [s EXCEPT !.trees[k] = IndexEntries(s), !.attached = k]
  BY DEF Good, Store
<1> HIDE DEF a, k
<1>3. /\ Good(t, g, h, U) /\ t.txn = a.txn /\ t.count = a.count /\ t.first = a.first
      /\ InUse(t) <=> InUse(a)
  BY <1>1, AttachedIsGood DEF Elsewhere
<1> HIDE DEF t
<1>4. t \in States(s, g, h, U) /\ t.txn = s.txn
  BY <1>1, <1>3 DEF States, Good, Elsewhere, InUse
<1> QED BY <1>2, <1>4 DEF k

LEMMA BuildMissingKeepsInv ==
    ASSUME EngineInv, ~GoesOn, ~ReopensStale, BuildMissingSecondaryIndexes
    PROVE  EngineInv'
<1> DEFINE k == NewTree(store)
           S == States(store, docs, settled, unsure)
           built == [store EXCEPT !.trees[k] = IndexEntries(store), !.attached = k]
           flushed == [Flush(built) EXCEPT !.deferred = FALSE]
           t == Listed(flushed)
           run == <<built, flushed, t>>
<1>1. crashes = 0 /\ store.attached = NoTree /\ Does(run, {}, NoDocs)
  BY DEF BuildMissingSecondaryIndexes, BuildMissingSteps, MayRun
<1>2. Good(store, docs, settled, unsure) /\ ~store.txn.on /\ Counts(store, docs, unsure)
  BY <1>1 DEF EngineInv, Running
<1>3. built \in S /\ built.txn = store.txn
  <2> HIDE DEF S
  <2> QED BY <1>1, <1>2, BuiltAndAttachedIsGood DEF S
<1> HIDE DEF built
<1> DEFINE b == Flush(built)
<1>4. /\ Good(b, docs, settled, unsure)
      /\ b.attached = built.attached /\ b.listed = built.listed /\ b.txn = built.txn
      /\ b.count = built.count /\ b.first = built.first
  BY <1>3, FlushIsGood DEF States
<1> HIDE DEF b
<1>5. /\ flushed \in Store /\ flushed.heap = b.heap /\ flushed.pending = b.pending
      /\ flushed.prim = b.prim /\ flushed.trees = b.trees
      /\ flushed.attached = b.attached /\ flushed.listed = b.listed /\ flushed.txn = b.txn
      /\ flushed.disk = b.disk /\ flushed.saved = b.saved
      /\ flushed.count = b.count /\ flushed.first = b.first
  <2>1. b \in Store /\ flushed = [b EXCEPT !.deferred = FALSE]
    BY <1>4 DEF Good, b
  <2> HIDE DEF flushed
  <2> QED BY <2>1 DEF Store
<1> HIDE DEF flushed
<1>6. Good(flushed, docs, settled, unsure)
  BY <1>4, <1>5, FlagsAreGood
<1>7. flushed \in S
  BY <1>3, <1>4, <1>5, <1>6 DEF States, InUse
<1>8. /\ Good(t, docs, settled, unsure)
      /\ t.txn = flushed.txn /\ t.count = flushed.count /\ t.first = flushed.first
  BY <1>6, ListedIsGood
<1> HIDE DEF t
<1>9. ~t.txn.on /\ Counts(t, docs, unsure)
  BY <1>2, <1>3, <1>4, <1>5, <1>7, <1>8 DEF Counts, States
<1>10. run[Len(run)] = t /\ \A n \in 1 .. Len(run) - 1 : run[n] \in S
  <2> HIDE DEF S
  <2> QED BY <1>3, <1>7
<1> HIDE DEF run
<1> QED BY <1>1, <1>8, <1>9, <1>10, QuietKeepsInv

LEMMA BuildFromEntriesKeepsInv ==
    ASSUME EngineInv, ~GoesOn, ~ReopensStale, BuildSecondaryIndexesFromEntries
    PROVE  EngineInv'
<1> DEFINE k == NewTree(store)
           S == States(store, docs, settled, unsure)
           built == [store EXCEPT !.trees[k] = IndexEntries(store), !.attached = k]
           flushed == Listed(built)
           t == [flushed EXCEPT !.attached = NoTree]
           run == <<built, flushed, t>>
<1>1. crashes = 0 /\ store.attached = NoTree /\ Does(run, {}, NoDocs)
  BY DEF BuildSecondaryIndexesFromEntries, BuildFromEntriesSteps, MayRun
<1>2. Good(store, docs, settled, unsure) /\ ~store.txn.on /\ Counts(store, docs, unsure)
  BY <1>1 DEF EngineInv, Running
<1>3. built \in S /\ built.txn = store.txn
  <2> HIDE DEF S
  <2> QED BY <1>1, <1>2, BuiltAndAttachedIsGood DEF S
<1> HIDE DEF built
<1>4. /\ Good(flushed, docs, settled, unsure) /\ flushed.txn = built.txn
      /\ flushed.count = built.count /\ flushed.first = built.first /\ InUse(flushed)
  BY <1>3, ListedIsGood DEF States
<1>5. flushed \in S /\ flushed \in Store
  BY <1>3, <1>4 DEF States, Good
<1> HIDE DEF flushed
<1>6. /\ t \in Store /\ t.heap = flushed.heap /\ t.pending = flushed.pending
      /\ t.prim = flushed.prim /\ t.trees = flushed.trees
      /\ t.attached = NoTree /\ t.listed = flushed.listed /\ t.txn = flushed.txn
      /\ t.disk = flushed.disk /\ t.saved = flushed.saved
      /\ t.count = flushed.count /\ t.first = flushed.first
  BY <1>5 DEF Store, Trees
<1> HIDE DEF t
<1>7. Good(t, docs, settled, unsure)
  BY <1>2, <1>3, <1>4, <1>6, DetachedIsGood
<1>8. ~t.txn.on /\ Counts(t, docs, unsure)
  BY <1>2, <1>3, <1>4, <1>5, <1>6 DEF Counts, States
<1>9. run[Len(run)] = t /\ \A n \in 1 .. Len(run) - 1 : run[n] \in S
  <2> HIDE DEF S
  <2> QED BY <1>3, <1>5
<1> HIDE DEF run
<1> QED BY <1>1, <1>7, <1>8, <1>9, QuietKeepsInv

LEMMA SetAutoCreateKeepsInv ==
    ASSUME EngineInv, ~GoesOn, ~ReopensStale, NEW on \in BOOLEAN, SetAutoCreate(on)
    PROVE  EngineInv'
<1> DEFINE t == [store EXCEPT !.auto = on]
           run == <<t>>
<1>1. crashes = 0 /\ Does(run, {}, NoDocs)
  BY DEF SetAutoCreate, MayRun
<1>2. /\ Good(store, docs, settled, unsure) /\ ~store.txn.on /\ Counts(store, docs, unsure)
      /\ store \in Store
  BY <1>1 DEF EngineInv, Running, Good
<1>3. /\ t \in Store /\ t.heap = store.heap /\ t.pending = store.pending
      /\ t.prim = store.prim /\ t.trees = store.trees
      /\ t.attached = store.attached /\ t.listed = store.listed /\ t.txn = store.txn
      /\ t.disk = store.disk /\ t.saved = store.saved
      /\ t.count = store.count /\ t.first = store.first
  BY <1>2 DEF Store
<1> HIDE DEF t
<1>4. Good(t, docs, settled, unsure)
  BY <1>2, <1>3, FlagsAreGood
<1>5. ~t.txn.on /\ Counts(t, docs, unsure)
  BY <1>2, <1>3 DEF Counts
<1>6. /\ run[Len(run)] = t
      /\ \A n \in 1 .. Len(run) - 1 : run[n] \in States(store, docs, settled, unsure)
  OBVIOUS
<1> HIDE DEF run
<1> QED BY <1>1, <1>4, <1>5, <1>6, QuietKeepsInv

LEMMA CountDocumentsKeepsInv ==
    ASSUME EngineInv, ~GoesOn, ~ReopensStale, CountDocuments
    PROVE  EngineInv'
<1> DEFINE found == Cardinality({e \in store.prim : store.heap[e[2]] # Empty})
           t == IF store.first THEN [store EXCEPT !.first = FALSE, !.count = found] ELSE store
           run == <<t>>
<1>1. crashes = 0 /\ Does(run, {}, NoDocs) /\ CountSteps(store) = run
  BY DEF CountDocuments, CountSteps, MayRun
<1>2. /\ Good(store, docs, settled, unsure) /\ ~store.txn.on /\ Counts(store, docs, unsure)
      /\ store \in Store
  BY <1>1 DEF EngineInv, Running, Good
<1>3. Good(t, docs, settled, unsure) /\ ~t.txn.on
  <2>1. CASE ~store.first
    BY <1>2, <2>1
  <2>2. CASE store.first
    <3>1. found \in Int
      <4> DEFINE kept == {e \in store.prim : store.heap[e[2]] # Empty}
      <4>1. IsFiniteSet(kept)
        <5> DEFINE At == [e \in kept |-> e[2]]
        <5>1. \A e \in kept : e = <<e[1], e[2]>> /\ e[1] \in DocId /\ e[2] \in Block
          BY <1>2 DEF Store, Pointer
        <5>2. \A e \in kept : e[1] = store.heap[e[2]][1]
          <6> TAKE e \in kept
          <6>1. <<e[1], e[2]>> \in store.prim
            BY <5>1
          <6>2. store.heap[e[2]] = <<e[1], store.heap[e[2]][2]>>
            BY <1>2, <5>1, <6>1 DEF Good, Shape
          <6> QED BY <6>2
        <5> HIDE DEF kept
        <5>3. At \in Injection(kept, Block)
          BY <5>1, <5>2 DEF Injection, IsInjective
        <5>4. IsFiniteSet(Block)
          BY FS_Interval, EngineAssumption DEF Block
        <5> QED BY <5>3, <5>4, FS_Injection
      <4> QED BY <4>1, FS_CardinalityType
    <3>2. t = [store EXCEPT !.first = FALSE, !.count = found]
      BY <2>2
    <3> HIDE DEF found, t
    <3>3. /\ t \in Store /\ t.heap = store.heap /\ t.pending = store.pending
          /\ t.prim = store.prim /\ t.trees = store.trees
          /\ t.attached = store.attached /\ t.listed = store.listed /\ t.txn = store.txn
          /\ t.disk = store.disk /\ t.saved = store.saved
      BY <1>2, <3>1, <3>2 DEF Store
    <3> QED BY <1>2, <3>3, FlagsAreGood
  <2> QED BY <2>1, <2>2
<1> HIDE DEF t
<1>4. Counts(t, docs, unsure)
  <2> SUFFICES ASSUME unsure = {} PROVE t.count = Cardinality(DOMAIN docs)
    BY DEF Counts
  <2>1. Legible(store, docs, {}) /\ IsFiniteSet(DOMAIN docs) /\ DOMAIN docs \subseteq DocId
    BY <1>2, GoodIsLegible DEF EngineInv
  <2>2. CountSteps(store)[1].count = Cardinality(DOMAIN docs)
    BY <1>2, <2>1, LegibleIsCounted
  <2> QED BY <1>1, <2>2
<1>5. /\ run[Len(run)] = t
      /\ \A n \in 1 .. Len(run) - 1 : run[n] \in States(store, docs, settled, unsure)
  OBVIOUS
<1> HIDE DEF run
<1> QED BY <1>1, <1>3, <1>4, <1>5, QuietKeepsInv

LEMMA CommitKeepsInv ==
    ASSUME EngineInv, ~GoesOn, ~ReopensStale, Commit
    PROVE  EngineInv'
<1> DEFINE c == CommitHeap(store)
           t == Flush(c)
           run == <<c, t>>
<1>1. crashes = 0 /\ CommitSteps(store) = run
  BY DEF Commit, CommitSteps, MayRun
<1>2. /\ Good(store, docs, settled, unsure) /\ ~store.txn.on /\ Counts(store, docs, unsure)
      /\ store \in Store
  BY <1>1 DEF EngineInv, Running, Good
<1>3. /\ Good(c, docs, settled, unsure) /\ c.count = store.count /\ c.first = store.first
      /\ c.attached = store.attached /\ c.listed = store.listed
  BY <1>2, CommitHeapIsGood
<1>4. /\ Good(t, docs, docs, unsure) /\ ~t.txn.on
      /\ t.count = store.count /\ t.first = store.first
  BY <1>2, CommittedIsGood
<1> HIDE DEF c, t
<1>5. Good(c, Without(docs, {}), Without(settled, {}), unsure \cup {})
  BY <1>3, SameDocsAreGood
<1>6. c \in States(store, Without(docs, {}), Without(settled, {}), unsure \cup {})
  BY <1>3, <1>5 DEF States, Good, InUse
<1>7. CASE store' = t /\ settled' = docs /\ UNCHANGED <<docs, unsure, crashes, failures>>
  <2>1. Counts(t, docs, unsure)
    BY <1>2, <1>4 DEF Counts
  <2> QED BY <1>1, <1>4, <1>7, <2>1 DEF EngineInv, Running
<1>8. CASE CrashAt(c, {})
  BY <1>1, <1>6, <1>8, CrashKeepsInv
<1>9. CASE FailAt(c, {})
  BY <1>1, <1>3, <1>5, <1>9, FailureKeepsInv
<1>10. run[Len(run)] = t /\ \A n \in 1 .. Len(run) - 1 : run[n] = c
  OBVIOUS
<1> HIDE DEF run
<1> QED BY <1>1, <1>7, <1>8, <1>9, <1>10 DEF Commit

LEMMA ReopenKeepsInv ==
    ASSUME EngineInv, ~GoesOn, ~ReopensStale, Reopen
    PROVE  EngineInv'
<1> DEFINE c == Flush(CommitHeap(store))
           t == Opened(c)
<1>1. crashes = 0 /\ ~Stale /\ store' = t /\ settled' = docs /\ UNCHANGED <<docs, unsure, crashes>>
  BY DEF Reopen, CommitSteps, MayRun
<1>2. /\ Good(store, docs, settled, unsure) /\ ~store.txn.on
  BY <1>1 DEF EngineInv, Running, Good
<1>3. /\ Good(c, docs, docs, unsure)
      /\ c.saved = c.heap /\ c.pending = {} /\ c.disk.prim = c.prim
      /\ c.disk.keys = c.trees[c.listed] /\ ~c.txn.on
      /\ c.attached = store.attached /\ c.listed = store.listed
  BY <1>2, CommittedIsGood
<1> HIDE DEF c
<1>4. InUse(c)
  BY <1>1, <1>3 DEF InUse, Stale
<1>5. Good(t, docs, docs, unsure) /\ ~t.txn.on /\ t.first
  BY <1>3, <1>4, ReopenedIsGood
<1> HIDE DEF t
<1> QED BY <1>1, <1>5 DEF EngineInv, Running, Counts

\* The same documents, with doubt about more ids.
LEMMA LegibleWeakens ==
    ASSUME NEW t, NEW g, NEW U, Legible(t, g, U),
           NEW d, NEW V, DOMAIN d = DOMAIN g, \A i \in DOMAIN g : d[i] = g[i], U \subseteq V
    PROVE  Legible(t, d, V)
<1>1. ASSUME NEW i \in DOMAIN d
      PROVE  \E b \in Block :
                /\ \A c \in Block : <<i, c>> \in t.prim <=> c = b
                /\ t.heap[b] = <<i, d[i]>>
                /\ t.attached # NoTree /\ d[i] \in Value => <<d[i], i, b>> \in t.trees[t.attached]
  <2>1. d[i] = g[i] /\ i \in DOMAIN g
    OBVIOUS
  <2> QED BY <2>1 DEF Legible
<1>2. ASSUME NEW i \in DocId \ V
      PROVE  /\ Has(t, i) => i \in DOMAIN d
             /\ t.attached # NoTree =>
                \A v \in Value, b \in Block :
                    <<v, i, b>> \in t.trees[t.attached] => <<i, b>> \in t.prim
  BY DEF Legible
<1> QED BY <1>1, <1>2 DEF Legible

LEMMA CrashKeeps ==
    ASSUME EngineInv, ~ReopensStale, Crash
    PROVE  EngineInv'
<1>1. CrashAt(store, {})
  BY DEF Crash
<1>2. CASE crashes = 0
  <2>1. Good(store, docs, settled, unsure) /\ store \in Store
    BY <1>2 DEF EngineInv, Running, Good
  <2>2. store \in States(store, Without(docs, {}), Without(settled, {}), unsure \cup {})
    BY <2>1, SameDocsAreGood DEF States
  <2> QED BY <1>1, <1>2, <2>2, CrashKeepsInv
<1>3. CASE crashes # 0
  <2>1. store \in Store /\ store = Opened(store) /\ Legible(store, docs, unsure) /\ settled = docs
    BY <1>3 DEF EngineInv, Crashed
  <2>2. /\ store' = store /\ crashes' = crashes + 1 /\ settled' = Without(settled, {})
        /\ docs' = settled'
        /\ unsure' = unsure \cup {i \in DocId : Has(store, i) /\ i \notin DOMAIN settled'}
    BY <1>1, <2>1 DEF CrashAt
  <2>3. DOMAIN docs' = DOMAIN docs /\ \A i \in DOMAIN docs : docs'[i] = docs[i]
    BY <2>1, <2>2 DEF Without
  <2>4. Legible(store', docs', unsure')
    BY <2>1, <2>2, <2>3, LegibleWeakens
  <2>5. Crashed'
    BY <2>1, <2>2, <2>4 DEF Crashed
  <2>6. DOMAIN docs' \subseteq DocId \ unsure'
    BY <2>2, <2>3 DEF EngineInv
  <2>7. crashes \in Nat /\ crashes' \in Nat /\ crashes' # 0
    BY <2>2 DEF EngineInv
  <2> QED BY <2>3, <2>5, <2>6, <2>7 DEF EngineInv
<1> QED BY <1>2, <1>3

-----------------------------------------------------------------------------
(* Compaction: the documents move to the first blocks, in their order. *)

PlaceIn(K, e) == Cardinality({x \in K : x[2] <= e[2]})

\* The store that compactDatabase writes for the pointers K.
Moved(s, K) ==
    [Fresh EXCEPT
        !.prim = {<<e[1], PlaceIn(K, e)>> : e \in K},
        !.heap = [b \in Block |->
            IF b <= Cardinality(K)
            THEN s.heap[(CHOOSE e \in K : PlaceIn(K, e) = b)[2]] ELSE Empty]]

\* No two pointers get the same block, and no block between is left.
LEMMA PlacesAreDense ==
    ASSUME NEW K \in SUBSET Pointer, \A e, f \in K : e[2] = f[2] => e = f
    PROVE  /\ IsFiniteSet(K) /\ Cardinality(K) \in 0 .. MaxBlock
           /\ \A e \in K : PlaceIn(K, e) \in 1 .. Cardinality(K)
           /\ \A e, f \in K : PlaceIn(K, e) = PlaceIn(K, f) => e = f
           /\ \A b \in 1 .. Cardinality(K) : \E e \in K : PlaceIn(K, e) = b
<1> DEFINE At == [e \in K |-> e[2]]
           Before(e) == {x \in K : x[2] <= e[2]}
<1>1. IsFiniteSet(Block) /\ Cardinality(Block) = MaxBlock /\ MaxBlock \in Nat
  <2>1. MaxBlock \in Nat /\ 1 \in Int /\ MaxBlock \in Int
    BY EngineAssumption
  <2>2. IsFiniteSet(1 .. MaxBlock)
        /\ Cardinality(1 .. MaxBlock) = IF 1 > MaxBlock THEN 0 ELSE MaxBlock - 1 + 1
    BY <2>1, FS_Interval
  <2> QED BY <2>1, <2>2 DEF Block
<1>2. \A e \in K : e[2] \in Block /\ e[2] \in Nat
  BY <1>1 DEF Pointer, Block
<1>3. IsFiniteSet(K) /\ Cardinality(K) <= MaxBlock /\ Cardinality(K) \in Nat
  <2>1. At \in Injection(K, Block)
    BY <1>2 DEF Injection, IsInjective
  <2> HIDE DEF At
  <2>2. IsFiniteSet(K) /\ Cardinality(K) <= Cardinality(Block)
    BY <1>1, <2>1, FS_Injection
  <2> QED BY <1>1, <2>2, FS_CardinalityType
<1>4. ASSUME NEW e \in K
      PROVE  /\ IsFiniteSet(Before(e)) /\ e \in Before(e) /\ Cardinality(Before(e)) \in Nat
             /\ Cardinality(Before(e)) \in 1 .. Cardinality(K)
  <2>1. Before(e) \in SUBSET K /\ e \in Before(e)
    BY <1>2
  <2>2. IsFiniteSet(Before(e)) /\ Cardinality(Before(e)) <= Cardinality(K)
    BY <1>3, <2>1, FS_Subset
  <2>3. Cardinality(Before(e)) \in Nat /\ Cardinality(Before(e)) # 0
    BY <2>1, <2>2, FS_CardinalityType, FS_EmptySet
  <2> QED BY <1>3, <2>1, <2>2, <2>3
<1>5. ASSUME NEW e \in K, NEW f \in K, e[2] <= f[2],
             Cardinality(Before(e)) = Cardinality(Before(f))
      PROVE  e = f
  <2>1. Before(e) \in SUBSET Before(f)
    BY <1>2, <1>5
  <2>2. Before(e) = Before(f)
    BY <1>4, <1>5, <2>1, FS_Subset
  <2>3. f[2] <= e[2]
    BY <1>4, <2>2
  <2> QED BY <1>2, <1>5, <2>3
<1>6. \A e, f \in K : PlaceIn(K, e) = PlaceIn(K, f) => e = f
  BY <1>2, <1>5 DEF PlaceIn
<1>7. \A e \in K : PlaceIn(K, e) \in 1 .. Cardinality(K)
  BY <1>4 DEF PlaceIn
<1>8. \A b \in 1 .. Cardinality(K) : \E e \in K : PlaceIn(K, e) = b
  <2> DEFINE n == Cardinality(K)
             Place == [e \in K |-> PlaceIn(K, e)]
  <2>1. Place \in Injection(K, 1 .. n)
    BY <1>6, <1>7 DEF Injection, IsInjective
  <2>2. IsFiniteSet(1 .. n) /\ Cardinality(1 .. n) = n
    <3>1. n \in Nat
      BY <1>3
    <3> HIDE DEF n
    <3>2. IsFiniteSet(1 .. n) /\ Cardinality(1 .. n) = IF 1 > n THEN 0 ELSE n - 1 + 1
      BY <3>1, FS_Interval
    <3> QED BY <3>1, <3>2
  <2>3. Cardinality(K) = Cardinality(1 .. n)
    BY <2>2
  <2> HIDE DEF n
  <2>4. Place \in Surjection(K, 1 .. n)
    <3> HIDE DEF Place
    <3> QED BY <2>1, <2>2, <2>3, FS_Injection
  <2> QED BY <2>4 DEF Surjection, n
<1> QED BY <1>1, <1>3, <1>6, <1>7, <1>8

LEMMA MovedIsGood ==
    ASSUME NEW s, NEW g, NEW h, NEW U, Good(s, g, h, U),
           \A e, f \in s.prim : e[2] = f[2] => e = f
    PROVE  LET t == Moved(s, s.prim) IN
           /\ Good(t, g, NoDocs, U) /\ ~t.txn.on
           /\ t.attached = NoTree /\ t.listed = NoTree
<1> DEFINE K == s.prim
           n == Cardinality(K)
           From(b) == CHOOSE e \in K : PlaceIn(K, e) = b
           prim == {<<e[1], PlaceIn(K, e)>> : e \in K}
           heap == [b \in Block |-> IF b <= n THEN s.heap[From(b)[2]] ELSE Empty]
           t == Moved(s, K)
<1>1. s \in Store /\ Shape(s) /\ K \in SUBSET Pointer
  BY DEF Good, Store
<1>2. /\ n \in 0 .. MaxBlock
      /\ \A e \in K : PlaceIn(K, e) \in 1 .. n
      /\ \A e, f \in K : PlaceIn(K, e) = PlaceIn(K, f) => e = f
      /\ \A b \in 1 .. n : \E e \in K : PlaceIn(K, e) = b
  BY <1>1, PlacesAreDense
<1>3. \A e \in K : e = <<e[1], e[2]>> /\ e[1] \in DocId /\ e[2] \in Block
  BY <1>1 DEF Pointer
<1>4. MaxBlock \in Nat
  BY EngineAssumption
<1>5. \A b \in 1 .. n : From(b) \in K /\ PlaceIn(K, From(b)) = b
  BY <1>2
<1>6. \A e \in K : From(PlaceIn(K, e)) = e
  BY <1>2, <1>5
<1> HIDE DEF From, n, K
<1>7. prim \in SUBSET Pointer /\ \A e \in K : PlaceIn(K, e) \in Block
  BY <1>2, <1>3, <1>4 DEF Pointer, Block
<1>8. heap \in [Block -> Cell]
  <2>1. \A b \in Block : b <= n => s.heap[From(b)[2]] \in Cell
    BY <1>1, <1>2, <1>3, <1>4, <1>5 DEF Store, Block
  <2> QED BY <2>1 DEF Cell
<1>9. \A e \in K : heap[PlaceIn(K, e)] = s.heap[e[2]]
  BY <1>2, <1>4, <1>6, <1>7
<1>10. t = [Fresh EXCEPT !.prim = prim, !.heap = heap]
  BY DEF Moved, From, n
<1>11. \A i, b : <<i, b>> \in prim <=> \E e \in K : i = e[1] /\ b = PlaceIn(K, e)
  OBVIOUS
<1> HIDE DEF prim, heap, t
<1>12. /\ t \in Store /\ t.heap = heap /\ t.prim = prim /\ t.pending = {}
       /\ t.attached = NoTree /\ t.listed = NoTree
       /\ t.trees[NoTree] = {} /\ ~t.txn.on
       /\ t.disk = [prim |-> {}, listed |-> NoTree, keys |-> {}]
  <2>1. /\ Fresh \in Store /\ Fresh.pending = {} /\ Fresh.attached = NoTree
        /\ Fresh.listed = NoTree /\ Fresh.trees[NoTree] = {} /\ ~Fresh.txn.on
        /\ Fresh.disk = [prim |-> {}, listed |-> NoTree, keys |-> {}]
    BY FreshIsStore DEF Fresh, NotInTransaction
  <2> QED BY <1>7, <1>8, <1>10, <2>1 DEF Store
<1>13. ASSUME NEW i \in DocId, NEW b \in Block, <<i, b>> \in K
       PROVE  s.heap[b] = <<i, s.heap[b][2]>>
  BY <1>1, <1>13 DEF Shape, K
<1>14. \A i \in DocId, b, c \in Block : <<i, b>> \in K /\ <<i, c>> \in K => b = c
  BY <1>1 DEF Shape, K
<1>15. ASSUME NEW i \in DocId, NEW b, <<i, b>> \in t.prim
       PROVE  \E x \in Block : <<i, x>> \in K /\ b = PlaceIn(K, <<i, x>>) /\ t.heap[b] = s.heap[x]
  <2>1. PICK e \in K : i = e[1] /\ b = PlaceIn(K, e)
    BY <1>11, <1>12, <1>15
  <2> QED BY <1>3, <1>9, <1>12, <2>1
<1>16. Shape(t)
  <2>1. ASSUME NEW i \in DocId, NEW b \in Block, NEW c \in Block,
               <<i, b>> \in t.prim, <<i, c>> \in t.prim
        PROVE  b = c
    <3>1. PICK x \in Block : <<i, x>> \in K /\ b = PlaceIn(K, <<i, x>>)
      BY <1>15, <2>1
    <3>2. PICK y \in Block : <<i, y>> \in K /\ c = PlaceIn(K, <<i, y>>)
      BY <1>15, <2>1
    <3> QED BY <1>14, <3>1, <3>2
  <2>2. ASSUME NEW i \in DocId, NEW b \in Block, <<i, b>> \in t.prim
        PROVE  t.heap[b] = <<i, t.heap[b][2]>>
    <3>1. PICK x \in Block : <<i, x>> \in K /\ t.heap[b] = s.heap[x]
      BY <1>15, <2>2
    <3> QED BY <1>13, <3>1
  <2> QED BY <1>12, <2>1, <2>2 DEF Shape
<1>17. ASSUME NEW i \in DocId \ U
       PROVE  /\ TrueIndex(t, i) /\ InTxn(t, i) /\ TrueOnDisk(t, i)
              /\ Has(t, i) => i \in DOMAIN g
  <2>1. TrueIndex(t, i) /\ InTxn(t, i) /\ TrueOnDisk(t, i)
    BY <1>12 DEF TrueIndex, InTxn, TrueOnDisk
  <2>2. Has(t, i) => Has(s, i)
    BY <1>15 DEF Has, K
  <2> QED BY <2>1, <2>2 DEF Good
<1>18. ASSUME NEW i \in DOMAIN g
       PROVE  i \in DocId \ U /\ Reads(t, i, g[i])
  <2>1. i \in DocId \ U /\ Reads(s, i, g[i])
    BY DEF Good
  <2>2. PICK x \in Block : <<i, x>> \in K /\ s.heap[x] = <<i, g[i]>>
    BY <2>1 DEF Reads, K
  <2>3. /\ PlaceIn(K, <<i, x>>) \in Block /\ <<i, PlaceIn(K, <<i, x>>)>> \in t.prim
        /\ t.heap[PlaceIn(K, <<i, x>>)] = <<i, g[i]>>
    BY <1>7, <1>9, <1>11, <1>12, <2>2
  <2> QED BY <2>1, <2>3 DEF Reads
<1>19. DOMAIN NoDocs = {}
  BY DEF NoDocs
<1>20. Good(t, g, NoDocs, U)
  BY <1>12, <1>16, <1>17, <1>18, <1>19 DEF Good
<1> QED BY <1>12, <1>20 DEF t, K

LEMMA CompactKeepsInv ==
    ASSUME EngineInv, ~GoesOn, ~ReopensStale, Compact
    PROVE  EngineInv'
<1> DEFINE kept == {e \in store.prim : store.heap[e[2]] # Empty}
           new == Moved(store, store.prim)
           c == Flush(CommitHeap(new))
           t == Opened(c)
           run == <<t>>
<1>1. crashes = 0 /\ Does(CompactSteps(store), {}, NoDocs)
      /\ \A e, f \in store.prim : e[2] = f[2] => e = f
  BY DEF Compact, MayRun
<1>2. Good(store, docs, settled, unsure)
  BY <1>1 DEF EngineInv, Running
<1>3. kept = store.prim
  <2>1. ASSUME NEW e \in store.prim PROVE store.heap[e[2]] # Empty
    <3>1. e = <<e[1], e[2]>> /\ e[1] \in DocId /\ e[2] \in Block
      BY <1>2 DEF Good, Store, Pointer
    <3>2. store.heap[e[2]] = <<e[1], store.heap[e[2]][2]>>
      BY <1>2, <3>1 DEF Good, Shape
    <3> QED BY <3>2, DocIsNotEmpty
  <2> QED BY <2>1
<1>4. CompactSteps(store) = run
  <2>1. CompactSteps(store) = <<Opened(Flush(CommitHeap(Moved(store, kept))))>>
    BY DEF CompactSteps, Moved, PlaceIn
  <2> QED BY <1>3, <2>1
<1>5. /\ Good(new, docs, NoDocs, unsure) /\ ~new.txn.on
      /\ new.attached = NoTree /\ new.listed = NoTree
  BY <1>1, <1>2, MovedIsGood
<1> HIDE DEF new, kept
<1>6. /\ Good(c, docs, docs, unsure) /\ ~c.txn.on /\ InUse(c)
      /\ c.saved = c.heap /\ c.disk.prim = c.prim /\ c.disk.keys = c.trees[c.listed]
  <2>1. /\ Good(c, docs, docs, unsure) /\ ~c.txn.on
        /\ c.saved = c.heap /\ c.disk.prim = c.prim /\ c.disk.keys = c.trees[c.listed]
        /\ c.listed = new.listed
    BY <1>5, CommittedIsGood
  <2> QED BY <1>5, <2>1 DEF InUse
<1> HIDE DEF c
<1>7. Good(t, docs, docs, unsure) /\ ~t.txn.on /\ t.first
  BY <1>6, ReopenedIsGood
<1> HIDE DEF t
<1>8. Good(t, docs, settled, unsure)
  BY <1>2, <1>7 DEF Good
<1>9. Counts(t, docs, unsure)
  BY <1>7 DEF Counts
<1>10. /\ run[Len(run)] = t
       /\ \A n \in 1 .. Len(run) - 1 : run[n] \in States(store, docs, settled, unsure)
  OBVIOUS
<1> HIDE DEF run
<1> QED BY <1>1, <1>4, <1>7, <1>8, <1>9, <1>10, QuietKeepsInv

-----------------------------------------------------------------------------
(* The theorems. *)

LEMMA InitIsConsistent == EngineInit => EngineInv
<1> SUFFICES ASSUME EngineInit PROVE EngineInv
  OBVIOUS
<1>1. store = Fresh /\ docs = NoDocs /\ settled = NoDocs /\ unsure = {} /\ crashes = 0
  BY DEF EngineInit
<1>2. DOMAIN NoDocs = {} /\ IsFiniteSet(DOMAIN NoDocs)
  BY FS_EmptySet DEF NoDocs
<1>3. /\ Fresh \in Store /\ Fresh.prim = {} /\ Fresh.pending = {}
      /\ Fresh.attached = NoTree /\ Fresh.listed = NoTree /\ Fresh.first
      /\ Fresh.trees[NoTree] = {} /\ ~Fresh.txn.on
      /\ Fresh.disk = [prim |-> {}, listed |-> NoTree, keys |-> {}]
  BY FreshIsStore DEF Fresh, NotInTransaction
<1>4. Shape(Fresh)
  BY <1>3 DEF Shape
<1>5. ASSUME NEW i \in DocId
      PROVE  TrueIndex(Fresh, i) /\ InTxn(Fresh, i) /\ TrueOnDisk(Fresh, i) /\ ~Has(Fresh, i)
  BY <1>3 DEF TrueIndex, InTxn, TrueOnDisk, Has
<1>6. Good(Fresh, NoDocs, NoDocs, {})
  BY <1>2, <1>3, <1>4, <1>5 DEF Good
<1>7. Counts(Fresh, NoDocs, {})
  BY <1>3 DEF Counts
<1>8. Running
  BY <1>1, <1>3, <1>6, <1>7 DEF Running
<1> QED BY <1>1, <1>2, <1>8 DEF EngineInv

LEMMA StepIsConsistent ==
    ASSUME ~GoesOn, ~ReopensStale, EngineInv, [EngineNext]_engineVars
    PROVE  EngineInv'
<1>1. ASSUME NEW i \in DocId, NEW v \in Content, Insert(i, v) PROVE EngineInv'
  BY <1>1, InsertKeepsInv
<1>2. ASSUME NEW i \in DocId, NEW v \in Content, Update(i, v) PROVE EngineInv'
  BY <1>2, UpdateKeepsInv
<1>3. ASSUME NEW i \in DocId, NEW j \in DocId, NEW v \in Content, NEW w \in Content,
             InsertMany(i, v, j, w)
      PROVE  EngineInv'
  BY <1>3, InsertManyKeepsInv
<1>4. ASSUME NEW i \in DocId, Delete(i) PROVE EngineInv'
  BY <1>4, DeleteKeepsInv
<1>5. ASSUME NEW on \in BOOLEAN, SetAutoCreate(on) PROVE EngineInv'
  BY <1>5, SetAutoCreateKeepsInv
<1>6. CASE DropIndex
  BY <1>6, DropIndexKeepsInv
<1>7. CASE BuildMissingSecondaryIndexes
  BY <1>7, BuildMissingKeepsInv
<1>8. CASE BuildSecondaryIndexesFromEntries
  BY <1>8, BuildFromEntriesKeepsInv
<1>9. CASE CountDocuments
  BY <1>9, CountDocumentsKeepsInv
<1>10. CASE Compact
  BY <1>10, CompactKeepsInv
<1>11. CASE Commit
  BY <1>11, CommitKeepsInv
<1>12. CASE Reopen
  BY <1>12, ReopenKeepsInv
<1>13. CASE Crash
  BY <1>13, CrashKeeps
<1>14. CASE UNCHANGED engineVars
  BY <1>14 DEF engineVars, EngineInv, Running, Crashed
<1> QED BY <1>1, <1>2, <1>3, <1>4, <1>5, <1>6, <1>7, <1>8, <1>9, <1>10, <1>11, <1>12,
           <1>13, <1>14 DEF EngineNext

\* Until the process ends, the primary tree has one block for each document
\* and the index in use its entry, both as the last answered write left them;
\* the files hold what was committed; after it, all of that is read from them.
THEOREM EngineIsConsistent ==
    ASSUME ~GoesOn, ~ReopensStale
    PROVE  EngineSpec => []EngineInv
<1>1. EngineInv /\ [EngineNext]_engineVars => EngineInv'
  BY StepIsConsistent
<1> QED BY <1>1, InitIsConsistent, PTL DEF EngineSpec

\* What was committed is on file at every moment, the index of an opened
\* collection misses none of it, and what was answered reads as it was written
\* (insert, update, delete, and the commits between them), where the values are
\* not negative and no index that was dropped is listed.
THEOREM DocsAreKept ==
    ASSUME ~GoesOn, ~ReopensStale, Value \subseteq Nat
    PROVE  EngineSpec => []DocumentsAreKept
<1>1. EngineInv => DocumentsAreKept
  BY InvImpliesKept
<1> QED BY <1>1, EngineIsConsistent, PTL

\* find answers what its condition says, with an index or without, and
\* countDocuments is right, where the values are not negative and no document
\* has null in the field.
THEOREM FindsAreExact ==
    ASSUME ~GoesOn, ~ReopensStale, Value \subseteq Nat, NullValue \notin Content
    PROVE  EngineSpec => []FindIsExact
<1>1. EngineInv => FindIsExact
  BY InvImpliesExact
<1> QED BY <1>1, EngineIsConsistent, PTL
=============================================================================
