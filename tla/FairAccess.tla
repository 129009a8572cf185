----------------------------- MODULE FairAccess -----------------------------
(***************************************************************************)
(* What the locks promise their callers: conflicting sections never        *)
(* overlap, and a caller is only ever held up by the conflicting requests  *)
(* that were made before its own (rw-lock.mts: "Ordering is FIFO between   *)
(* phases: a writer queued behind a batch of readers won't be starved";    *)
(* AsyncLock.ts: "Minimal FIFO async mutual exclusion lock").              *)
(***************************************************************************)
CONSTANT Caller

VARIABLES
    request,    \* what each caller has asked for and not given back
    running,    \* the callers that are in their section
    ahead       \* the earlier requests in conflict with each one that last

vars == <<request, running, ahead>>

Kind == {"read", "write"}

Conflict(k, j) == k # "none" /\ j # "none" /\ (k = "write" \/ j = "write")

TypeOK ==
    /\ request \in [Caller -> Kind \cup {"none"}]
    /\ running \in SUBSET Caller
    /\ ahead \in [Caller -> SUBSET Caller]

Init ==
    /\ request = [c \in Caller |-> "none"]
    /\ running = {}
    /\ ahead = [c \in Caller |-> {}]

Request(c, k) ==
    /\ request[c] = "none"
    /\ request' = [request EXCEPT ![c] = k]
    /\ ahead' = [ahead EXCEPT ![c] = {d \in Caller : Conflict(k, request[d])}]
    /\ UNCHANGED running

Enter(c) ==
    /\ request[c] # "none"
    /\ c \notin running
    /\ ahead[c] = {}
    /\ running' = running \cup {c}
    /\ UNCHANGED <<request, ahead>>

Leave(c) ==
    /\ c \in running
    /\ request' = [request EXCEPT ![c] = "none"]
    /\ running' = running \ {c}
    /\ ahead' = [d \in Caller |-> ahead[d] \ {c}]

Next ==
    \E c \in Caller :
        \/ \E k \in Kind : Request(c, k)
        \/ Enter(c)
        \/ Leave(c)

Spec == Init /\ [][Next]_vars

-----------------------------------------------------------------------------
\* Two sections that conflict are never in progress together.
Exclusion ==
    \A c, d \in running : Conflict(request[c], request[d]) => c = d
=============================================================================
