------------------------------ MODULE AsyncLock ------------------------------
(***************************************************************************)
(* AsyncLock, under which raft-core runs its handlers (stateLock) and its  *)
(* apply loop (applyLock): a flag and a queue of waiters.  release hands   *)
(* the lock over with the flag still up; the waiter it resolves runs in a  *)
(* later microtask, and others may call in between.  (LockProofs proves    *)
(* about this lock and RWLock together: hence the names in Lock.)          *)
(***************************************************************************)
EXTENDS Integers, Sequences, FiniteSets

CONSTANT Call       \* the calls of runExclusive that may be in progress at once

VARIABLES
    locked,
    queue,      \* the callers whose promise is not resolved yet
    turn        \* where each caller stands

lockVars == <<locked, queue, turn>>

LockInit ==
    /\ locked = FALSE
    /\ queue = <<>>
    /\ turn = [c \in Call |-> "idle"]

\* acquire, up to its await.
Acquire(c) ==
    /\ turn[c] = "idle"
    /\ IF locked
       THEN /\ queue' = Append(queue, c)
            /\ turn' = [turn EXCEPT ![c] = "queued"]
            /\ UNCHANGED locked
       ELSE /\ locked' = TRUE
            /\ turn' = [turn EXCEPT ![c] = "granted"]
            /\ UNCHANGED queue

\* The await of acquire resumes and the callback of runExclusive runs.
Run(c) ==
    /\ turn[c] = "granted"
    /\ turn' = [turn EXCEPT ![c] = "running"]
    /\ UNCHANGED <<locked, queue>>

\* Mutant of LockedAfter: the flag drops although a waiter was resolved.
FreeAfter(waiting) == FALSE

\* Whether the lock stays held when it is released with these waiters.
LockedAfter(waiting) == waiting # <<>>

\* Mutant of NextWaiter: the last to come is served first.
LastWaiter(waiting) == Len(waiting)

\* The place in the queue of the waiter that release resolves.
NextWaiter(waiting) == 1

Without(waiting, i) == SubSeq(waiting, 1, i - 1) \o SubSeq(waiting, i + 1, Len(waiting))

\* The callback is over, with a result or an exception: release.
Release(c) ==
    /\ turn[c] = "running"
    /\ locked' = LockedAfter(queue)
    /\ IF queue = <<>>
       THEN /\ turn' = [turn EXCEPT ![c] = "idle"]
            /\ UNCHANGED queue
       ELSE LET i == NextWaiter(queue)
            IN  /\ turn' = [turn EXCEPT ![c] = "idle", ![queue[i]] = "granted"]
                /\ queue' = Without(queue, i)

LockNext == \E c \in Call : Acquire(c) \/ Run(c) \/ Release(c)

LockSpec == LockInit /\ [][LockNext]_lockVars

\* A resolved promise resumes its waiter, and a callback ends.
LockFairness == \A c \in Call : WF_lockVars(Run(c)) /\ WF_lockVars(Release(c))

FairLockSpec == LockSpec /\ LockFairness

-----------------------------------------------------------------------------
LockTypeOK ==
    /\ locked \in BOOLEAN
    /\ queue \in Seq(Call)
    /\ turn \in [Call -> {"idle", "queued", "granted", "running"}]

Holds(c) == turn[c] \in {"granted", "running"}

Places(c) == {i \in 1 .. Len(queue) : queue[i] = c}

\* The flag is up exactly while somebody holds the lock, nobody else does, and
\* the queue is the callers that wait, each once: no wake-up is lost or given
\* twice between release and the microtask of the waiter (acquire, release).
HandOver ==
    /\ LockTypeOK
    /\ locked <=> \E c \in Call : Holds(c)
    /\ \A c, d \in Call : Holds(c) /\ Holds(d) => c = d
    /\ queue # <<>> => locked
    /\ \A c \in Call : turn[c] = "queued" <=> Places(c) # {}
    /\ \A i, j \in 1 .. Len(queue) : queue[i] = queue[j] => i = j

-----------------------------------------------------------------------------
\* The callers that come before c: the holder and who stands earlier in the queue.
Before(c) ==
    IF turn[c] # "queued" THEN {}
    ELSE {d \in Call : \/ Holds(d)
                       \/ \E i \in Places(d), j \in Places(c) : i < j}

LockAccess ==
    INSTANCE FairAccess WITH
        Caller <- Call,
        request <- [c \in Call |-> IF turn[c] = "idle" THEN "none" ELSE "write"],
        running <- {c \in Call : turn[c] = "running"},
        ahead <- [c \in Call |-> Before(c)]

\* Callbacks exclude each other, and nobody waits for a call made after its own
\* (AsyncLock.ts: "Minimal FIFO async mutual exclusion lock").
FairLockAccess == LockAccess!Spec

\* Whoever asks for the lock gets it, as long as callbacks end.
EveryoneRuns == \A c \in Call : turn[c] = "queued" ~> turn[c] = "running"
=============================================================================
