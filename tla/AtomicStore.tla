----------------------------- MODULE AtomicStore -----------------------------
(***************************************************************************)
(* What the write-ahead log promises (durability/README.md: "Atomicity:    *)
(* Transaction either fully applied or not at all", "Durability: fsync     *)
(* ensures written data is on disk"): a store whose transactions take      *)
(* effect in one step, which a crash may bring forward or forestall but    *)
(* neither divide nor undo.  One that was given up in the middle of its    *)
(* last sync may still take effect, before the next one does.              *)
(***************************************************************************)
EXTENDS Integers, Sequences

CONSTANTS Block, Value

VARIABLES
    contents,    \* what the store holds, also after a crash
    pending      \* what it may come to hold, in this order

vars == <<contents, pending>>

Contents == [Block -> Value]

Init == contents \in Contents /\ pending = <<>>

Begin ==
    /\ \E c \in Contents : pending' = Append(pending, c)
    /\ UNCHANGED contents

\* A transaction takes effect: those before it no longer can, and a crash gives
\* up those after it.
Commit ==
    \E i \in DOMAIN pending, n \in 0 .. Len(pending) :
        /\ contents' = pending[i]
        /\ pending' = SubSeq(pending, i + 1, n)

\* The latest are given up, by an error or a crash.
Abandon ==
    /\ \E n \in 0 .. Len(pending) - 1 : pending' = SubSeq(pending, 1, n)
    /\ UNCHANGED contents

Next == Begin \/ Commit \/ Abandon

Spec == Init /\ [][Next]_vars
=============================================================================
