-------------------------------- MODULE Locks --------------------------------
(***************************************************************************)
(* The two locks: that of the daemon (RWLock) and that of raft-core        *)
(* (AsyncLock).  They share no variable and are checked side by side: a    *)
(* behaviour runs one of them; the other stays as it starts.               *)
(***************************************************************************)
EXTENDS RWLock, AsyncLock

VARIABLE part

locksVars == <<part, vars, lockVars>>

LocksInit ==
    /\ part \in {"phases", "queue"}
    /\ Init /\ LockInit

OfPhases == part = "phases" /\ Next /\ UNCHANGED <<part, lockVars>>
OfQueue == part = "queue" /\ LockNext /\ UNCHANGED <<part, vars>>

LocksNext == OfPhases \/ OfQueue

\* The fairness of both; nothing of a lock that does not run is enabled.
FairLocksSpec == LocksInit /\ [][LocksNext]_locksVars /\ Fairness /\ LockFairness
=============================================================================
