------------------------------- MODULE RWLock -------------------------------
(***************************************************************************)
(* RWLock, the lock the daemon serialises its requests with: a chain of    *)
(* promises, one per phase, each released when its phase is over.  A phase *)
(* is a batch of readers or one writer, and waits at the gate of the       *)
(* promise that was the tail when it was made.  A phase is named by its    *)
(* place in the order of creation, and 0 is the promise resolved from the  *)
(* start.  A caller is one request: it may come back, for a new section.   *)
(***************************************************************************)
EXTENDS Integers, Sequences, FiniteSets

CONSTANTS
    Caller,       \* the concurrent users of the lock
    MaxPhases     \* bound of the model: phases ever made

ASSUME RWLockAssumption == IsFiniteSet(Caller) /\ MaxPhases \in Nat

VARIABLES
    phases,             \* [kind, gate, pending, released] of every phase made
    tail,               \* the phase the next one waits for
    currentReadPhase,   \* the read phase that can still be joined, or 0
    stage,              \* where each caller stands
    mine                \* the phase of each caller's request, or 0

vars == <<phases, tail, currentReadPhase, stage, mine>>

Resolved(i) == i # 0 => phases[i].released

Init ==
    /\ phases = <<>>
    /\ tail = 0
    /\ currentReadPhase = 0
    /\ stage = [c \in Caller |-> "idle"]
    /\ mine = [c \in Caller |-> 0]

NewPhase(kind) ==
    /\ Len(phases) < MaxPhases
    /\ phases' = Append(phases, [kind |-> kind, gate |-> tail, pending |-> 1, released |-> FALSE])
    /\ tail' = Len(phases) + 1

Wait(c, i) ==
    /\ stage[c] = "idle"
    /\ stage' = [stage EXCEPT ![c] = "waiting"]
    /\ mine' = [mine EXCEPT ![c] = i]

WithReader(phase) == [phase EXCEPT !.pending = @ + 1]

\* readLock, up to the await of the gate.
JoinReadPhase(c) ==
    /\ currentReadPhase # 0
    /\ phases' = [phases EXCEPT ![currentReadPhase] = WithReader(@)]
    /\ Wait(c, currentReadPhase)
    /\ UNCHANGED <<tail, currentReadPhase>>

NewReadPhase(c) ==
    /\ currentReadPhase = 0
    /\ NewPhase("read")
    /\ currentReadPhase' = Len(phases) + 1
    /\ Wait(c, Len(phases) + 1)

\* Mutant of PhaseBehindWriter: the read phase stays open to later readers.
PhaseLeftOpen == currentReadPhase

\* The phase readers can join once a writer has queued: none.
PhaseBehindWriter == 0

\* writeLock, up to the await of the previous phase.
WriteLock(c) ==
    /\ NewPhase("write")
    /\ currentReadPhase' = PhaseBehindWriter
    /\ Wait(c, Len(phases) + 1)

\* The gate has resolved, and fn runs.
Enter(c) ==
    /\ stage[c] = "waiting"
    /\ Resolved(phases[mine[c]].gate)
    /\ stage' = [stage EXCEPT ![c] = "running"]
    /\ UNCHANGED <<phases, tail, currentReadPhase, mine>>

\* The leaving caller is the last of its phase; a writer always is.
LastOut(phase) == phase.kind = "write" \/ phase.pending = 1

WithoutOne(phase) == [phase EXCEPT !.pending = @ - 1, !.released = LastOut(phase)]

\* fn is over, with a result or an exception: the finally block.
Leave(c) ==
    /\ stage[c] = "running"
    /\ phases' = [phases EXCEPT ![mine[c]] = WithoutOne(@)]
    /\ currentReadPhase' = IF LastOut(phases[mine[c]]) /\ currentReadPhase = mine[c] THEN 0
                           ELSE currentReadPhase
    /\ stage' = [stage EXCEPT ![c] = "idle"]
    /\ mine' = [mine EXCEPT ![c] = 0]
    /\ UNCHANGED tail

Next ==
    \E c \in Caller :
        \/ JoinReadPhase(c)
        \/ NewReadPhase(c)
        \/ WriteLock(c)
        \/ Enter(c)
        \/ Leave(c)

Spec == Init /\ [][Next]_vars

\* A resolved promise resumes its waiters, and a section ends; nobody has to
\* ask for the lock.
Fairness == \A c \in Caller : WF_vars(Enter(c)) /\ WF_vars(Leave(c))

FairSpec == Spec /\ Fairness

-----------------------------------------------------------------------------
PhaseRecord ==
    [kind : {"read", "write"}, gate : Nat, pending : Nat, released : BOOLEAN]

TypeOK ==
    /\ phases \in Seq(PhaseRecord)
    /\ tail \in Nat
    /\ currentReadPhase \in Nat
    /\ stage \in [Caller -> {"idle", "waiting", "running"}]
    /\ mine \in [Caller -> Nat]

Active(c) == stage[c] # "idle"

Members(i) == {c \in Caller : mine[c] = i}

\* Every phase waits for the one before it.
Chained ==
    /\ tail = Len(phases)
    /\ \A i \in 1 .. Len(phases) : phases[i].gate = i - 1

\* A phase ends exactly when its last member has left, after all before it.
Counted ==
    \A i \in 1 .. Len(phases) :
        /\ phases[i].pending = Cardinality(Members(i))
        /\ phases[i].released <=> Members(i) = {}
        /\ phases[i].kind = "write" => \A c, d \in Members(i) : c = d
        /\ phases[i].released => \A j \in 1 .. i : phases[j].released

\* A caller is a member of a phase as long as it has a request, and runs only
\* when every earlier phase is over.
InOrder ==
    \A c \in Caller :
        /\ mine[c] \in 0 .. Len(phases)
        /\ Active(c) <=> mine[c] # 0
        /\ stage[c] = "running" => \A j \in 1 .. mine[c] - 1 : phases[j].released

\* Only the last phase can be joined, and only while readers are in it.
Joinable ==
    currentReadPhase # 0 =>
        /\ currentReadPhase = Len(phases)
        /\ phases[currentReadPhase].kind = "read"
        /\ ~phases[currentReadPhase].released

\* The chain of phases is in order, which is what the lock's promise rests on:
\* pending counts the callers really in the phase, and no phase ends early
\* (readLock, writeLock and their finally blocks).
PhasesInv == TypeOK /\ Chained /\ Counted /\ InOrder /\ Joinable

-----------------------------------------------------------------------------
RequestOf(c) == IF mine[c] = 0 THEN "none" ELSE phases[mine[c]].kind

Running == {c \in Caller : stage[c] = "running"}

\* The requests of earlier phases that conflict with c's.
AheadOf(c) ==
    {d \in Caller : /\ 0 < mine[d] /\ mine[d] < mine[c]
                    /\ "write" \in {RequestOf(c), RequestOf(d)}}

Access ==
    INSTANCE FairAccess WITH
        request <- [c \in Caller |-> RequestOf(c)],
        running <- Running,
        ahead <- [c \in Caller |-> AheadOf(c)]

\* No writer shares the lock with anyone (rw-lock.mts: "writers run
\* exclusively").
Exclusion == Access!Exclusion

\* Nobody waits for a request made after its own, nor for one it does not
\* conflict with: a later reader cannot slip past a queued writer (rw-lock.mts:
\* "a writer queued behind a batch of readers won't be starved").
FairAccessSpec == Access!Spec

\* Whoever waits for the lock gets it, as long as sections end.
EveryoneEnters == \A c \in Caller : stage[c] = "waiting" ~> stage[c] = "running"
=============================================================================
