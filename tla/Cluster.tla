------------------------------ MODULE Cluster ------------------------------
(***************************************************************************)
(* What surrounds the replication of Raft: the gRPC transport (Transport), *)
(* the changes of members that it follows (Membership), in one setting     *)
(* with a node that joins as a voter and in one with a learner, and the    *)
(* timers of a node with the handlers that wait for its lock (Timers).     *)
(* They share no variable and are checked side by side: a behaviour runs   *)
(* one of them; the others stay as they start.                             *)
(***************************************************************************)
EXTENDS Transport, Timers, TLC

CONSTANTS
    Member, Voter, Added, Removed, Waits, Reordered,     \* of Membership
    Electable, MaxTerm, MaxLog, MaxRestarts

VARIABLES
    part,
    term, votedFor, memberRole, votes, votesNeeded, log, commitIndex, matchIndex,
    memberActive, memberCommitted, changes, restarts

Members ==
    INSTANCE Membership WITH
        Node <- Member, Learner <- {}, role <- memberRole, active <- memberActive,
        committed <- memberCommitted, calls <- changes

\* The same node joins as a learner instead, is promoted, and is removed.
Learners ==
    INSTANCE Membership WITH
        Node <- Member, Added <- {}, Learner <- Added, Removed <- Added, MaxRestarts <- 0,
        role <- memberRole, active <- memberActive, committed <- memberCommitted,
        calls <- changes

memberVars == <<term, votedFor, memberRole, votes, votesNeeded, log, commitIndex, matchIndex,
                memberActive, memberCommitted, changes, restarts>>
clusterVars == <<part, vars, memberVars, timerVars>>

ClusterInit ==
    /\ part \in {"net", "members", "learners", "timers"}
    /\ IF part = "learners" THEN Learners!Init ELSE Members!Init
    /\ Init
    /\ TimersInit /\ (part # "timers" => voter)

OfNet == part = "net" /\ Next /\ UNCHANGED <<part, memberVars, timerVars>>
OfMembers == part = "members" /\ Members!Next /\ UNCHANGED <<part, vars, timerVars>>
OfLearners == part = "learners" /\ Learners!Next /\ UNCHANGED <<part, vars, timerVars>>
OfTimers == part = "timers" /\ TimersNext /\ UNCHANGED <<part, vars, memberVars>>

ClusterNext == OfNet \/ OfMembers \/ OfLearners \/ OfTimers

ClusterSpec == ClusterInit /\ [][ClusterNext]_clusterVars

\* Candidates are alike, and so are the nodes that know each other at first.
ClusterSymmetry == Permutations(Electable) \cup Permutations(Peers)

-----------------------------------------------------------------------------
(* The properties of the parts; those of Transport and Timers keep their   *)
(* names.                                                                  *)

\* What is committed is agreed on and held by every leader (Membership,
\* tryAdvanceCommitIndex and handleRequestVote).
CommittedStays ==
    /\ part = "members" => Members!CommittedAgree /\ Members!LeaderHoldsCommitted
    /\ part = "learners" => Learners!CommittedAgree /\ Learners!LeaderHoldsCommitted

\* Configurations in use differ by one voter at most (Membership, addServer and
\* its like).
OneAtATime ==
    /\ part = "members" => Members!OneAtATime
    /\ part = "learners" => Learners!OneAtATime
=============================================================================
