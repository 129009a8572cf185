------------------------------- MODULE MCRaft -------------------------------
(* Instances of Raft for TLC. *)
EXTENDS Raft, TLC

\* Nodes are interchangeable as long as Electable is preserved.
Symmetry == Permutations(Electable) \cup Permutations(Server \ Electable)

-----------------------------------------------------------------------------
(* Three nodes that all just restarted, with logs two leaders left behind:  *)
(* s1 led term 1, its no-op reached s2 only and a command reached nobody;   *)
(* s2 was then elected in term 2 by s3, and its two entries reached nobody. *)
CONSTANTS s1, s2, c1

Disk(terms) ==
    [snapIndex |-> 0, snapTerm |-> 0, lastTerm |-> terms[Len(terms)],
     entries |-> [i \in 1 .. Len(terms) |->
                     [term |-> terms[i],
                      cmd |-> IF i = 1 \/ terms[i] # terms[i - 1] THEN NoOp ELSE c1]]]

DisksInit ==
    Started([n \in Server |-> IF n = s1 THEN 1 ELSE 2],
            [n \in Server |-> IF n = s1 THEN s1 ELSE s2],
            [n \in Server |-> CASE n = s1 -> Disk(<<1, 1>>)
                               [] n = s2 -> Disk(<<1, 2, 2>>)
                               [] OTHER  -> EmptyLog])

DisksSpec == DisksInit /\ [][Next]_vars
=============================================================================
