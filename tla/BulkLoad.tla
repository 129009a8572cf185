------------------------------- MODULE BulkLoad -------------------------------
(***************************************************************************)
(* Building the tree of a secondary index from sorted entries, without     *)
(* inserting them one by one: level by level when the entries are in       *)
(* memory (buildIndexTreeBottomUp), and with one queue of nodes per level  *)
(* when they are streamed (buildIndexTreeBottomUpFromEntries).  A leaf is  *)
(* its number in the order of the keys; a node is [min, children], its     *)
(* keys being the min of its children from the second on.                  *)
(***************************************************************************)
EXTENDS Integers, Sequences, SequencesExt

CONSTANTS Orders,       \* orders of the tree
          Extra         \* bound of the model: leaves beyond those of two full levels

VARIABLES order, leaves, queues

vars == <<order, leaves, queues>>

Leaf(k) == [min |-> k, children |-> <<>>]
Internal(group) == [min |-> group[1].min, children |-> group]

MaxChildren == order + 1

\* The leaf that a search for the keys of leaf k comes to.
RECURSIVE Reached(_, _)
Reached(node, k) ==
    IF node.children = <<>> THEN node.min
    ELSE Reached(node.children[1 + Len(SelectSeq(Tail(node.children),
                                                   LAMBDA c : c.min <= k))], k)

-----------------------------------------------------------------------------
(* buildIndexTreeBottomUp. *)

Smaller(a, b) == IF a < b THEN a ELSE b

\* The next level: a node for every MaxChildren nodes, and one for the rest.
Groups(level) ==
    [g \in 1 .. (Len(level) + MaxChildren - 1) \div MaxChildren |->
        Internal(SubSeq(level, (g - 1) * MaxChildren + 1, Smaller(g * MaxChildren, Len(level))))]

RECURSIVE Root(_)
Root(level) == IF Len(level) > 1 THEN Root(Groups(level)) ELSE level[1]

BottomUp == Root([k \in 1 .. leaves |-> Leaf(k)])

-----------------------------------------------------------------------------
(* buildIndexTreeBottomUpFromEntries. *)

QueueAt(qs, level) == IF level <= Len(qs) THEN qs[level] ELSE <<>>

\* pushLevelNode: a queue that is full becomes a node of the next level.
RECURSIVE PushLevelNode(_, _, _)
PushLevelNode(qs, level, node) ==
    LET q == Append(QueueAt(qs, level), node)
        put(new) == [l \in 1 .. (IF level > Len(qs) THEN level ELSE Len(qs)) |->
                        IF l = level THEN new ELSE qs[l]]
    IN  IF Len(q) >= MaxChildren
        THEN PushLevelNode(put(<<>>), level + 1, Internal(q))
        ELSE put(q)

\* What is left in the queue of a level, once the entries have ended: several
\* nodes become one of the next level, and a single one joins the next level
\* if there is any node there.
Rest(qs, level) ==
    IF Len(qs[level]) > 1
    THEN PushLevelNode([qs EXCEPT ![level] = <<>>], level + 1, Internal(qs[level]))
    ELSE IF Len(qs[level]) = 1 /\ QueueAt(qs, level + 1) # <<>>
    THEN PushLevelNode([qs EXCEPT ![level] = <<>>], level + 1, qs[level][1])
    ELSE qs

RECURSIVE Ended(_, _)
Ended(qs, level) == IF level > Len(qs) THEN qs ELSE Ended(Rest(qs, level), level + 1)

Streamed ==
    LET qs == Ended(queues, 1)
        Levels == {l \in DOMAIN qs : qs[l] # <<>>}
    IN  qs[CHOOSE l \in Levels : \A m \in Levels : m <= l][1]

-----------------------------------------------------------------------------
\* flushLeafChunk: one more leaf of sorted entries.
FlushLeafChunk ==
    /\ leaves < MaxChildren * MaxChildren + Extra
    /\ leaves' = leaves + 1
    /\ queues' = PushLevelNode(queues, 1, Leaf(leaves + 1))
    /\ UNCHANGED order

Init == order \in Orders /\ leaves = 0 /\ queues = <<>>

Next == FlushLeafChunk

Spec == Init /\ [][Next]_vars

-----------------------------------------------------------------------------
\* Whenever the entries end, a search for any of them from the root of either
\* tree comes to the leaf that holds it, though the last node of a level has
\* few children and a lone node may hang from a level higher up.
EveryLeafReached ==
    leaves > 0 =>
    \A k \in 1 .. leaves : Reached(BottomUp, k) = k /\ Reached(Streamed, k) = k
=============================================================================
