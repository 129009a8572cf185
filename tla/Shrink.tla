-------------------------------- MODULE Shrink --------------------------------
(***************************************************************************)
(* shrinkDatabase: the live blocks at the end of the file are moved to the *)
(* holes at its front, every pointer to them is rewritten, all in one      *)
(* commit, and the file is cut.  The file starts in any layout of a small  *)
(* database: a catalog leaf, a collection whose tree is a leaf or an inner *)
(* node over two leaves, a secondary index, and documents of one or two    *)
(* blocks, which are in the same file or, as the daemon has it, in a file  *)
(* of their own.                                                           *)
(***************************************************************************)
EXTENDS Integers, Sequences, FiniteSets, SequencesExt

CONSTANTS
    MaxBlock,           \* the last block of the file
    SeparateHeap,       \* whether the documents are in another file
    HeapBlock           \* then, the blocks the documents start at there

VARIABLES
    file,       \* the blocks, from 0
    phase,      \* where shrinkDatabase is
    keep,       \* liveBlockCount
    before      \* what the file said at first

vars == <<file, phase, keep, before>>

NO_BLOCK == 0
Total == Cardinality(DOMAIN file)

\* A block: chain is the pointer in its first bytes; refs are the blocks a
\* node names, children or values; prev and next are its sibling leaves.
BlockRecord(kind, name, chain, refs, prev, next) ==
    [kind |-> kind, name |-> name, chain |-> chain, refs |-> refs, prev |-> prev, next |-> next]
Hole(chain) == BlockRecord("hole", "hole", chain, <<>>, NO_BLOCK, NO_BLOCK)

-----------------------------------------------------------------------------
(* buildBlockMap.  A map is [live, infos], infos in the order of the walk.  *)

InFile(b) == b # NO_BLOCK /\ b < Total

RECURSIVE ChainFrom(_)
ChainFrom(b) == IF file[b].chain = NO_BLOCK THEN <<b>> ELSE <<b>> \o ChainFrom(file[b].chain)

FreeList == IF file[0].chain = NO_BLOCK THEN <<>> ELSE ChainFrom(file[0].chain)

Marked(m, b, kind, tree) ==
    [live |-> m.live \cup ToSet(ChainFrom(b)),
     infos |-> Append(m.infos, [chain |-> ChainFrom(b), kind |-> kind, tree |-> tree])]

MarkDocumentBlob(m, b) ==
    IF ~InFile(b) \/ b \in m.live THEN m ELSE Marked(m, b, "document", "collection")

\* walkTree: a leaf of the catalog names the roots of the collections, and
\* every other leaf is taken to name documents of this file.
RECURSIVE WalkTree(_, _, _), WalkRefs(_, _, _, _)
WalkTree(m, b, tree) ==
    IF ~InFile(b) \/ b \in m.live THEN m
    ELSE WalkRefs(Marked(m, b, "node", tree), file[b].kind, file[b].refs, tree)

WalkRefs(m, kind, refs, tree) ==
    IF refs = <<>> THEN m
    ELSE WalkRefs(IF kind = "internal" THEN WalkTree(m, refs[1], tree)
                  ELSE IF tree = "catalog" THEN WalkTree(m, refs[1], "collection")
                  ELSE MarkDocumentBlob(m, refs[1]),
                  kind, Tail(refs), tree)

BlockMap ==
    WalkTree(WalkTree([live |-> {}, infos |-> <<>>], file[0].refs[1], "catalog"),
             file[0].refs[3], "index")

\* The free list, and the blocks that nothing reaches.
FreeBlocks(live) == ToSet(FreeList) \cup ((1 .. Total - 1) \ live)

-----------------------------------------------------------------------------
(* What the file says. *)

Name(b) == IF b \in DOMAIN file THEN file[b].name ELSE "lost"

\* A document, in its parts.
Document(b) ==
    IF SeparateHeap THEN b
    ELSE IF b \notin DOMAIN file THEN <<"lost">>
    ELSE LET c == ChainFrom(b) IN [k \in DOMAIN c |-> Name(c[k])]

LeafAt(b) ==
    IF b \notin DOMAIN file THEN [name |-> "lost"]
    ELSE [name |-> Name(b),
          documents |-> [k \in DOMAIN file[b].refs |-> Document(file[b].refs[k])],
          prev |-> IF file[b].prev = NO_BLOCK THEN "none" ELSE Name(file[b].prev),
          next |-> IF file[b].next = NO_BLOCK THEN "none" ELSE Name(file[b].next)]

\* The leaves of a tree, and what they name.
Leaves(root) ==
    LET roots == IF root \in DOMAIN file /\ file[root].kind = "internal"
                 THEN file[root].refs ELSE <<root>>
    IN  [k \in DOMAIN roots |-> LeafAt(roots[k])]

\* Through the catalog, through the header, and through the index.
Contents ==
    LET h == file[0].refs
        catalog == IF h[1] \in DOMAIN file THEN file[h[1]].refs ELSE <<>>
    IN  [catalog |-> Name(h[1]),
         collection |-> [k \in DOMAIN catalog |-> Leaves(catalog[k])],
         root |-> Leaves(h[2]),
         index |-> IF h[3] = NO_BLOCK THEN <<>> ELSE Leaves(h[3])]

-----------------------------------------------------------------------------
(* The relocation. *)

Ascending(s) ==
    [k \in 1 .. Cardinality(s) |-> CHOOSE b \in s : Cardinality({x \in s : x < b}) = k - 1]

\* From where to where: the last live block goes to the first hole, and so on,
\* as long as the hole is in front of it.
Table(free, live) ==
    {<<live[k], free[k]>> : k \in {j \in DOMAIN free \cap DOMAIN live : live[j] > free[j]}}

At(to, b) == IF \E p \in to : p[1] = b THEN (CHOOSE p \in to : p[1] = b)[2] ELSE b

\* Mutant of Rewritten: the pointer to the leaf before is forgotten.
RewrittenForward(node, to) ==
    [node EXCEPT !.refs = [k \in DOMAIN @ |-> At(to, @[k])], !.next = At(to, @)]

\* The pointers of a node, rewritten.
Rewritten(node, to) ==
    [node EXCEPT !.refs = [k \in DOMAIN @ |-> At(to, @[k])],
                 !.prev = At(to, @), !.next = At(to, @)]

\* The blocks of one blob where they go, over those staged before.
StageBlob(staged, info, to) ==
    LET Raw(b) == IF b \in DOMAIN staged THEN staged[b] ELSE file[b]
        Out(k) ==
            LET raw == Raw(info.chain[k])
                node == IF info.kind = "node" THEN Rewritten(raw, to) ELSE raw
            IN  [node EXCEPT !.chain = IF k < Len(info.chain) THEN At(to, info.chain[k + 1])
                                       ELSE NO_BLOCK]
        Index(b) == {k \in DOMAIN info.chain : At(to, info.chain[k]) = b}
    IN  IF Raw(info.chain[1]).kind = "hole" THEN staged
        ELSE [b \in DOMAIN staged \cup {At(to, info.chain[k]) : k \in DOMAIN info.chain} |->
                 IF Index(b) = {} THEN staged[b] ELSE Out(CHOOSE k \in Index(b) : TRUE)]

RECURSIVE Staged(_, _, _)
Staged(staged, infos, to) ==
    IF infos = <<>> THEN staged
    ELSE Staged(StageBlob(staged, infos[1], to), Tail(infos), to)

\* What the file is cut to.
LiveBlockCount(free, to) == Total - Cardinality(free)

-----------------------------------------------------------------------------
(* The steps. *)

\* Phases 1 to 3: nothing to do if no block is free.
Relocate ==
    LET map == BlockMap
        free == FreeBlocks(map.live)
        to == Table(Ascending(free), Reverse(Ascending(map.live)))
        header == [file[0] EXCEPT !.chain = NO_BLOCK,
                                  !.refs = [k \in DOMAIN @ |-> At(to, @[k])]]
        staged == Staged([b \in {0} |-> header], map.infos, to)
    IN  /\ phase = "open" /\ free # {}
        /\ file' = [b \in DOMAIN file |-> IF b \in DOMAIN staged THEN staged[b] ELSE file[b]]
        /\ keep' = LiveBlockCount(free, to)
        /\ phase' = "relocated"
        /\ UNCHANGED before

\* Phase 4.
Truncate ==
    /\ phase = "relocated"
    /\ file' = [b \in 0 .. keep - 1 |-> file[b]]
    /\ phase' = "done"
    /\ UNCHANGED <<keep, before>>

\* The process ends between the commit and the cut; shrink is called again.
Crash ==
    /\ phase = "relocated"
    /\ phase' = "open"
    /\ UNCHANGED <<file, keep, before>>

Next == Relocate \/ Truncate \/ Crash

-----------------------------------------------------------------------------
(* The layouts to start from. *)

\* The names of the blocks: Catalog leaf, Inner node, Leaf, second leaf (Tail),
\* indeX leaf, documents D and E, and the rest of E.
Shape == {"flat", "deep"}
Nodes(shape) == IF shape = "flat" THEN {"C", "L", "X"} ELSE {"C", "I", "L", "T"}
Documents(shape) ==
    IF SeparateHeap THEN {} ELSE IF shape = "flat" THEN {"D", "E", "R"} ELSE {"D", "E"}

\* The blocks, with at[n] the place of n, d and e those of the documents.
Layout(shape, at, listed, d, e) ==
    LET Place(n) == IF n \in DOMAIN at THEN at[n] ELSE NO_BLOCK
        free == Ascending(listed)
        root == IF shape = "flat" THEN Place("L") ELSE Place("I")
        Content(n) ==
            CASE n = "C" -> BlockRecord("leaf", n, 0, <<root>>, 0, 0)
              [] n = "I" -> BlockRecord("internal", n, 0, <<Place("L"), Place("T")>>, 0, 0)
              [] n = "L" -> BlockRecord("leaf", n, 0, IF shape = "flat" THEN <<d, e>> ELSE <<d>>,
                                  0, Place("T"))
              [] n = "T" -> BlockRecord("leaf", n, 0, <<e>>, Place("L"), 0)
              [] n = "X" -> BlockRecord("leaf", n, 0, <<e, d>>, 0, 0)
              [] n \in {"D", "R"} -> BlockRecord("document", n, 0, <<>>, 0, 0)
              [] n = "E" -> BlockRecord("document", n, Place("R"), <<>>, 0, 0)
    IN  [b \in 0 .. MaxBlock |->
            IF b = 0
            THEN BlockRecord("header", "H", IF free = <<>> THEN 0 ELSE free[1],
                       <<Place("C"), root, Place("X")>>, 0, 0)
            ELSE IF \E n \in DOMAIN at : at[n] = b
            THEN Content(CHOOSE n \in DOMAIN at : at[n] = b)
            ELSE IF b \in listed
            THEN LET k == CHOOSE k \in DOMAIN free : free[k] = b
                 IN  Hole(IF k = Len(free) THEN 0 ELSE free[k + 1])
            ELSE Hole(0)]

\* Bound: the catalog comes first or last.
Placements(names) ==
    {at \in [names -> 1 .. MaxBlock] :
        /\ \A m, n \in names : m # n => at[m] # at[n]
        /\ at["C"] \in {1, MaxBlock}}

Init ==
    /\ phase = "open" /\ keep = 0
    /\ \E shape \in Shape :
       \E at \in Placements(Nodes(shape) \cup Documents(shape)) :
       \E listed \in SUBSET ((1 .. MaxBlock) \ {at[n] : n \in DOMAIN at}) :
       \E d, e \in IF SeparateHeap THEN HeapBlock ELSE {0} :
           file = Layout(shape, at, listed,
                         IF SeparateHeap THEN d ELSE at["D"], IF SeparateHeap THEN e ELSE at["E"])
    /\ before = Contents

Spec == Init /\ [][Next]_vars

-----------------------------------------------------------------------------
\* Through the catalog, through the header and through the index, the database
\* reads at every moment as before it was shrunk: documents, and leaves in both
\* directions (shrinkDatabase: "Relocates live blocks into free slots").
ContentsKept == Contents = before

\* Once it is cut, the file has no block that is not live.
NothingFree == phase = "done" => BlockMap.live = 1 .. Total - 1
=============================================================================
