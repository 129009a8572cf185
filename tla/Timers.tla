-------------------------------- MODULE Timers --------------------------------
(***************************************************************************)
(* The election timer and the heartbeat timer of one node (TimerManager),  *)
(* and what StateMachine and RaftNode do with them.  A handler runs under  *)
(* stateLock and gives up the processor only to write; a timer fires, a    *)
(* message arrives and the node is stopped at any moment, and what they    *)
(* ask for waits for the lock.  Terms are left out: whether a message has  *)
(* a higher one is open each time.  (Cluster extends this module and       *)
(* Transport together: hence the names in Timers and Node.)                *)
(***************************************************************************)
EXTENDS Integers, Sequences, FiniteSets

CONSTANT
    MaxQueue    \* handlers waiting for stateLock; a bound of the model

VARIABLES
    status,     \* "started", "stopping" (messages still arrive) or "stopped"
    role,       \* currentState
    preVote,    \* preVoteInProgress
    voter,      \* whether the node's configuration has it as a voter
    timer,      \* of each timer: [armed: how often it is set in the clock,
                \* known: whether TimerManager has a handle, callback]
    queue,      \* the handlers that wait for stateLock
    section,    \* the writes the one that has it waits for; <<>> if it is free
    failed      \* whether a write of the term or vote has failed, and the
                \* election timer has not been set since

timerVars == <<status, role, preVote, voter, timer, queue, section, failed>>

Follower == "Follower"
Candidate == "Candidate"
Leader == "Leader"

-----------------------------------------------------------------------------
(* TimerManager. *)

Unset(t) == IF t.known THEN [t EXCEPT !.armed = @ - 1, !.known = FALSE] ELSE t

\* Mutant of Set: the timer that runs is not stopped first.
SetAgain(t) == [armed |-> t.armed + 1, known |-> TRUE, callback |-> TRUE]

\* startElectionTimer, startHeartbeatTimer.
Set(t) == [armed |-> Unset(t).armed + 1, known |-> TRUE, callback |-> TRUE]

StartElectionTimer(ts) == [ts EXCEPT !.election = Set(@)]
ResetElectionTimer(ts) == IF ts.election.callback THEN StartElectionTimer(ts) ELSE ts
StartHeartbeatTimer(ts) == [ts EXCEPT !.heartbeat = Set(@)]
StopHeartbeatTimer(ts) == [ts EXCEPT !.heartbeat = [Unset(@) EXCEPT !.callback = FALSE]]
StopAllTimers(ts) == [k \in DOMAIN ts |-> [Unset(ts[k]) EXCEPT !.callback = FALSE]]

Fired(t) == [t EXCEPT !.armed = @ - 1, !.known = FALSE]

\* The election timer fires: its handler waits for stateLock.
FireElection ==
    /\ timer.election.armed > 0
    /\ Len(queue) < MaxQueue
    /\ timer' = [timer EXCEPT !.election = Fired(@)]
    /\ queue' = IF timer.election.callback THEN Append(queue, "timeout") ELSE queue
    /\ UNCHANGED <<status, role, preVote, voter, section, failed>>

\* The heartbeat timer fires, and is set again at once.
FireHeartbeat ==
    /\ timer.heartbeat.armed > 0
    /\ Len(queue) < MaxQueue
    /\ timer' = IF timer.heartbeat.callback THEN [timer EXCEPT !.heartbeat.known = TRUE]
                ELSE [timer EXCEPT !.heartbeat.armed = @ - 1]
    /\ queue' = IF timer.heartbeat.callback THEN Append(queue, "heartbeat") ELSE queue
    /\ UNCHANGED <<status, role, preVote, voter, section, failed>>

-----------------------------------------------------------------------------
(* Handlers: Enter runs one up to its write, Written from there. *)

Free == <<>>

\* AppendEntries; InstallSnapshot; an answer with a higher term; a vote request that is granted;
\* answers that complete a quorum.
Messages == {"append", "snapshot", "higherTerm", "voteRequest", "preVoteQuorum", "voteQuorum"}

Arrive ==
    /\ status # "stopped"
    /\ Len(queue) < MaxQueue
    /\ \E m \in Messages : queue' = Append(queue, m)
    /\ UNCHANGED <<status, role, preVote, voter, timer, section, failed>>

\* becomeFollowerUnlocked once the term is written.
Followed ==
    /\ role' = Follower
    /\ preVote' = FALSE
    /\ timer' = StartElectionTimer(IF role = Leader THEN StopHeartbeatTimer(timer) ELSE timer)

\* becomeFollowerUnlocked, which writes a higher term first, and what follows it.
BecomeFollower(then) ==
    \/ section' = <<"follower">> \o then /\ UNCHANGED <<role, preVote, timer>>
    \/ section' = then /\ Followed

\* becomeCandidateUnlocked up to its write.
BecomeCandidate == role' = Candidate /\ section' = <<"candidate">> /\ UNCHANGED timer

\* Mutant of PreVoteTimer: the round runs without a timer.
PreVoteTimerNotSet(ts) == ts

PreVoteTimer(ts) == StartElectionTimer(ts)

StartPreVote ==
    /\ preVote' = TRUE
    /\ timer' = PreVoteTimer(timer)
    /\ section' = Free
    /\ UNCHANGED role

HandleElectionTimeout ==
    IF ~voter \/ role = Leader THEN section' = Free /\ UNCHANGED <<role, preVote, timer>>
    ELSE IF preVote \/ role # Candidate THEN StartPreVote
    ELSE BecomeCandidate /\ UNCHANGED preVote

\* handlePreVoteResponse: only while a round runs.
HandlePreVoteQuorum ==
    IF ~preVote \/ role # Follower
    THEN section' = Free /\ preVote' = FALSE /\ UNCHANGED <<role, timer>>
    ELSE /\ preVote' = FALSE
         /\ IF voter THEN BecomeCandidate ELSE Followed /\ section' = Free

\* handleRequestVoteResponse, and becomeLeaderUnlocked up to its write.
HandleVoteQuorum ==
    IF role # Candidate THEN section' = Free /\ UNCHANGED <<role, preVote, timer>>
    ELSE IF ~voter THEN Followed /\ section' = Free
    ELSE role' = Leader /\ section' = <<"leader">> /\ UNCHANGED <<preVote, timer>>

Handle(m) ==
    \/ m = "timeout" /\ HandleElectionTimeout
    \/ m = "heartbeat" /\ section' = Free /\ UNCHANGED <<role, preVote, timer>>
    \/ m = "append" /\ BecomeFollower(<<"log">>)
    \/ m = "snapshot" /\ \/ BecomeFollower(<<"log">>)
                         \/ /\ role = Follower
                            /\ timer' = StartElectionTimer(timer) /\ section' = <<"log">>
                            /\ UNCHANGED <<role, preVote>>
    \/ m \in {"higherTerm", "start"} /\ BecomeFollower(Free)
    \/ m = "voteRequest" /\ \/ section' = <<"vote">> /\ UNCHANGED <<role, preVote, timer>>
                            \/ BecomeFollower(<<"vote">>)
    \/ m = "preVoteQuorum" /\ HandlePreVoteQuorum
    \/ m = "voteQuorum" /\ HandleVoteQuorum

Enter ==
    /\ section = Free /\ queue # <<>>
    /\ Handle(Head(queue))
    /\ queue' = Tail(queue)
    /\ failed' = (failed /\ ~timer'.election.known)
    /\ UNCHANGED <<status, voter>>

\* The write is done.  A new configuration may be among the entries written.
Written ==
    \/ Head(section) = "follower" /\ Followed /\ UNCHANGED voter
    \/ /\ Head(section) = "log"
       /\ voter' \in BOOLEAN
       /\ UNCHANGED <<role, preVote, timer>>
    \/ /\ Head(section) = "vote"
       /\ timer' = ResetElectionTimer(timer)
       /\ UNCHANGED <<role, preVote, voter>>
    \/ /\ Head(section) = "candidate"
       /\ timer' = StartElectionTimer(timer)
       /\ UNCHANGED <<role, preVote, voter>>
    \/ /\ Head(section) = "leader"
       /\ timer' = StartHeartbeatTimer(timer)
       /\ UNCHANGED <<role, preVote, voter>>

Resume ==
    /\ section # Free
    /\ Written
    /\ section' = Tail(section)
    /\ failed' = (failed /\ ~timer'.election.known)
    /\ UNCHANGED <<status, queue>>

\* An error of the disk ends the handler where it is.
WriteFails ==
    /\ section # Free /\ Head(section) \in {"follower", "vote", "candidate"}
    /\ section' = Free
    /\ failed' = TRUE
    /\ UNCHANGED <<status, role, preVote, voter, timer, queue>>

-----------------------------------------------------------------------------
(* RaftNode.stop and start; StateMachine.stop does not wait for stateLock.  *)

StopNode ==
    /\ status = "started"
    /\ status' = "stopping"
    /\ timer' = StopAllTimers(timer)
    /\ role' = Follower
    /\ UNCHANGED <<preVote, voter, queue, section, failed>>

Stopped ==
    /\ status = "stopping"
    /\ status' = "stopped"
    /\ UNCHANGED <<role, preVote, voter, timer, queue, section, failed>>

StartNode ==
    /\ status = "stopped"
    /\ Len(queue) < MaxQueue
    /\ status' = "started"
    /\ queue' = Append(queue, "start")
    /\ UNCHANGED <<role, preVote, voter, timer, section, failed>>

TimersInit ==
    /\ status = "started"
    /\ role = Follower
    /\ preVote = FALSE
    /\ voter \in BOOLEAN
    /\ timer = [k \in {"election", "heartbeat"} |->
                    [armed |-> 0, known |-> FALSE, callback |-> FALSE]]
    /\ queue = <<"start">>
    /\ section = Free
    /\ failed = FALSE

TimersNext ==
    \/ FireElection \/ FireHeartbeat \/ Arrive \/ Enter \/ Resume \/ WriteFails
    \/ StopNode \/ Stopped \/ StartNode

TimersSpec == TimersInit /\ [][TimersNext]_timerVars

-----------------------------------------------------------------------------
\* A voter is never left without a way to act: whenever no handler runs, its
\* election timer is set or has fired and its handler waits, or it leads and
\* its heartbeats go on; also when it was promoted, stopped or restarted in
\* between (handleElectionTimeout, becomeFollower, becomeLeader).  The one
\* exception is a write that failed: its handler ends before it sets the timer.
Listens ==
    status = "started" /\ voter /\ section = Free /\ ~failed =>
        \/ \E k \in DOMAIN queue : queue[k] \in {"timeout", "start"}
        \/ timer[IF role = Leader THEN "heartbeat" ELSE "election"].known

\* A timer never runs on without TimerManager knowing it, so that a node has
\* one chain of heartbeats and one election timeout at a time.
OneTimerEach ==
    \A k \in DOMAIN timer : timer[k].armed = IF timer[k].known THEN 1 ELSE 0
=============================================================================
