-------------------------------- MODULE Raft --------------------------------
(***************************************************************************)
(* A cluster of raft-core nodes: StateMachine's handlers and timers with   *)
(* the PersistentState, VolatileState, LeaderState, LogManager and         *)
(* SnapshotManager they drive, and RaftNode's submit, apply and start.     *)
(* A handler holds stateLock from its first to its last line, so it is one *)
(* action; InstallSnapshot and takeSnapshot, which share the snapshot file *)
(* under two different locks, are cut where they can interleave.  The      *)
(* network loses, delays and reorders messages; AppendEntries and          *)
(* InstallSnapshot are re-sent until answered, so copies of one may arrive *)
(* twice.  Nodes crash at any point and restart from what they persisted.  *)
(* The configuration is the constant set Server of voters, a snapshot is   *)
(* one chunk, and time is abstracted: a timer may fire at any moment.      *)
(***************************************************************************)
EXTENDS RaftLog

CONSTANTS
    Server,             \* node ids, all of them voters
    Command,            \* client commands
    Nil,                \* no vote, no request
    NoOp,               \* the entry a new leader appends
    SnapshotThreshold,  \* RaftConfig.snapshotThreshold
    MaxBatch,           \* entries per AppendEntries: 128 in the code
    Electable,          \* bound: the nodes whose election timer may fire
    MaxTerm, MaxLog, MaxRestarts, MaxInFlight   \* bounds of the model

ASSUME ServerAssumption == IsFiniteSet(Server) /\ Nil \notin Server
ASSUME BoundAssumption ==
    /\ SnapshotThreshold \in Nat \ {0} /\ MaxBatch \in Nat \ {0}
    /\ MaxTerm \in Nat /\ MaxLog \in Nat /\ MaxRestarts \in Nat /\ MaxInFlight \in Nat

VARIABLES
    currentTerm, votedFor,      \* PersistentState
    role,                       \* currentState
    votesReceived,              \* the votes of this candidacy
    preVotes,                   \* preVotesReceived; empty when no pre-vote is in progress
    nextIndex, matchIndex,      \* LeaderState
    log,                        \* LogManager
    snapshot,                   \* SnapshotManager, with the data it stores
    commitIndex, lastApplied,   \* VolatileState
    app,                        \* the commands the application state reflects
    sendingSnapshot,            \* peers a sendSnapshot call is about to serve
    installing,                 \* the InstallSnapshot that holds stateLock, or Nil
    snapshotting,               \* where takeSnapshot stands; it holds applyLock
    msgs,                       \* RPCs in flight
    restarts

electionVars == <<currentTerm, votedFor, role, votesReceived, preVotes>>
leaderVars == <<nextIndex, matchIndex>>
logVars == <<log, snapshot>>
applyVars == <<commitIndex, lastApplied, app>>
taskVars == <<sendingSnapshot, installing, snapshotting>>
vars == <<electionVars, leaderVars, logVars, applyVars, taskVars, msgs, restarts>>

Peers(n) == Server \ {n}
QuorumSize == Cardinality(Server) \div 2 + 1     \* ConfigManager.getQuorumSize

NoSnapshot == [index |-> 0, term |-> 0, data |-> <<>>]
NoConflict == [index |-> 0, term |-> 0]

LesserOf(a, b) == IF a <= b THEN a ELSE b

-----------------------------------------------------------------------------
(* The network. *)

Resent == {"AppendEntries", "InstallSnapshot"}

\* The messages in flight after m is delivered and those of out are sent: any
\* of out may be lost, and another copy of m may still follow if m is re-sent.
Exchange(m, out) ==
    \E kept \in SUBSET out, left \in {{m}, {}} :
        /\ left = {m} => m.type \in Resent
        /\ msgs' = (msgs \ {m}) \cup left \cup kept
        /\ Cardinality(msgs') <= MaxInFlight

\* A reply belongs to the call that awaits it: none is left to answer when the
\* caller has restarted since, which makes its request an orphan.
Reply(m, replies) == Exchange(m, IF m.orphan THEN {} ELSE replies)

Send(out) ==
    \E kept \in SUBSET out :
        /\ msgs' = msgs \cup kept
        /\ Cardinality(msgs') <= MaxInFlight

Discard(m) == msgs' = msgs \ {m}

-----------------------------------------------------------------------------
(* Role changes. *)

\* Mutant of VoteIn: a message of the current term clears the vote too.
VoteInClearedTooOften(n, term) == IF term >= currentTerm[n] THEN Nil ELSE votedFor[n]

\* The vote left to n after it learns of term: a later term brings a new one.
VoteIn(n, term) == IF term > currentTerm[n] THEN Nil ELSE votedFor[n]

\* becomeFollowerUnlocked.
BecomeFollower(n, term) ==
    /\ currentTerm' = [currentTerm EXCEPT ![n] = IF term > @ THEN term ELSE @]
    /\ votedFor' = [votedFor EXCEPT ![n] = VoteIn(n, term)]
    /\ role' = [role EXCEPT ![n] = "Follower"]
    /\ votesReceived' = [votesReceived EXCEPT ![n] = {}]
    /\ preVotes' = [preVotes EXCEPT ![n] = {}]
    /\ nextIndex' = [nextIndex EXCEPT ![n] = [p \in Server |-> 1]]
    /\ matchIndex' = [matchIndex EXCEPT ![n] = [p \in Server |-> 0]]

\* becomeCandidateUnlocked: the new term and the vote for itself are one write.
BecomeCandidate(n) ==
    /\ currentTerm[n] < MaxTerm
    /\ currentTerm' = [currentTerm EXCEPT ![n] = @ + 1]
    /\ votedFor' = [votedFor EXCEPT ![n] = n]
    /\ role' = [role EXCEPT ![n] = "Candidate"]
    /\ votesReceived' = [votesReceived EXCEPT ![n] = {n}]
    /\ preVotes' = [preVotes EXCEPT ![n] = {}]

\* LeaderState.initialize, for the log the leader starts with.
InitialNextIndex(l) == LastIndex(l) + 1

\* becomeLeaderUnlocked: LeaderState is sized from the log before the no-op.
BecomeLeader(n) ==
    /\ role' = [role EXCEPT ![n] = "Leader"]
    /\ nextIndex' = [nextIndex EXCEPT ![n] = [p \in Server |-> InitialNextIndex(log[n])]]
    /\ matchIndex' = [matchIndex EXCEPT ![n] = [p \in Server |-> 0]]
    /\ log' = [log EXCEPT ![n] = AppendEntries(@, <<[term |-> currentTerm[n], cmd |-> NoOp]>>)]

\* requestPreVotes and requestVotes.
VoteRequests(n, type, term) ==
    {[type |-> type, src |-> n, dst |-> p, orphan |-> FALSE, term |-> term,
      lastLogIndex |-> LastIndex(log[n]), lastLogTerm |-> log[n].lastTerm] : p \in Peers(n)}

\* Handlers exclude each other on stateLock.
Unlocked(n) == installing[n] = Nil

-----------------------------------------------------------------------------
(* Elections. *)

\* The election timeout of a follower, or of a pre-vote without quorum.
StartPreVote(n) ==
    /\ Unlocked(n) /\ n \in Electable
    /\ role[n] = "Follower" /\ QuorumSize > 1
    /\ preVotes' = [preVotes EXCEPT ![n] = {n}]
    /\ Send(VoteRequests(n, "PreVote", currentTerm[n] + 1))
    /\ UNCHANGED <<currentTerm, votedFor, role, votesReceived,
                   leaderVars, logVars, applyVars, taskVars, restarts>>

\* The election timeout of a candidate, or of a follower that is a quorum alone.
StartElection(n) ==
    /\ Unlocked(n) /\ n \in Electable
    /\ role[n] \in IF QuorumSize = 1 THEN {"Candidate", "Follower"} ELSE {"Candidate"}
    /\ BecomeCandidate(n)
    /\ Send(VoteRequests(n, "RequestVote", currentTerm[n] + 1))
    /\ UNCHANGED <<leaderVars, logVars, applyVars, taskVars, restarts>>

\* handleRequestVote with preVote set.  noRecentLeader compares the clock with
\* lastLeaderContactAt, so it may go either way; nothing is recorded.
HandlePreVote(n, m) ==
    /\ Unlocked(n)
    /\ m.type = "PreVote" /\ m.dst = n
    /\ \E noRecentLeader \in BOOLEAN :
         Reply(m, {[type |-> "PreVoteResponse", src |-> n, dst |-> m.src, term |-> currentTerm[n],
                    granted |-> /\ m.term >= currentTerm[n]
                                /\ noRecentLeader
                                /\ IsLogUpToDate(log[n], m.lastLogIndex, m.lastLogTerm)]})
    /\ UNCHANGED <<electionVars, leaderVars, logVars, applyVars, taskVars, restarts>>

\* handlePreVoteResponse.  A round ends with any change of term, so preVoteTerm
\* is currentTerm as long as the round lasts.
HandlePreVoteResponse(n, m) ==
    /\ Unlocked(n)
    /\ m.type = "PreVoteResponse" /\ m.dst = n
    /\ LET inProgress == preVotes[n] # {}
           counted == inProgress /\ m.term <= currentTerm[n] /\ m.granted
           voters == preVotes[n] \cup {m.src}
       IN \/ /\ inProgress /\ m.term > currentTerm[n]
             /\ BecomeFollower(n, m.term)
             /\ Discard(m)
          \/ /\ counted /\ Cardinality(voters) < QuorumSize
             /\ preVotes' = [preVotes EXCEPT ![n] = voters]
             /\ Discard(m)
             /\ UNCHANGED <<currentTerm, votedFor, role, votesReceived, leaderVars>>
          \/ /\ counted /\ Cardinality(voters) >= QuorumSize
             /\ BecomeCandidate(n)
             /\ Exchange(m, VoteRequests(n, "RequestVote", currentTerm[n] + 1))
             /\ UNCHANGED leaderVars
          \/ /\ ~counted /\ ~(inProgress /\ m.term > currentTerm[n])
             /\ Discard(m)
             /\ UNCHANGED <<electionVars, leaderVars>>
    /\ UNCHANGED <<logVars, applyVars, taskVars, restarts>>

\* Mutant of CanGrantVote: a candidate of the same term gets a second vote.
CanGrantVoteAgain(n, m) == m.term >= currentTerm[n]

\* canGrantVote: this term's vote is free, or is the candidate's already.
CanGrantVote(n, m) == VoteIn(n, m.term) \in {Nil, m.src}

\* handleRequestVote.  A higher term is adopted before the vote is decided, and
\* the vote is on disk before the reply leaves.
HandleRequestVote(n, m) ==
    /\ Unlocked(n)
    /\ m.type = "RequestVote" /\ m.dst = n
    /\ LET newer == m.term > currentTerm[n]
           granted == /\ m.term >= currentTerm[n]
                      /\ CanGrantVote(n, m)
                      /\ IsLogUpToDate(log[n], m.lastLogIndex, m.lastLogTerm)
           response == [type |-> "RequestVoteResponse", src |-> n, dst |-> m.src,
                        term |-> IF newer THEN m.term ELSE currentTerm[n],
                        granted |-> granted]
       IN /\ currentTerm' = [currentTerm EXCEPT ![n] = response.term]
          /\ votedFor' = [votedFor EXCEPT ![n] =
                             IF granted THEN m.src ELSE VoteIn(n, m.term)]
          /\ IF newer
             THEN /\ role' = [role EXCEPT ![n] = "Follower"]
                  /\ votesReceived' = [votesReceived EXCEPT ![n] = {}]
                  /\ preVotes' = [preVotes EXCEPT ![n] = {}]
                  /\ nextIndex' = [nextIndex EXCEPT ![n] = [p \in Server |-> 1]]
                  /\ matchIndex' = [matchIndex EXCEPT ![n] = [p \in Server |-> 0]]
             ELSE UNCHANGED <<role, votesReceived, preVotes, leaderVars>>
          /\ Reply(m, {response})
    /\ UNCHANGED <<logVars, applyVars, taskVars, restarts>>

CountsVote(n, m) == role[n] = "Candidate" /\ m.term = currentTerm[n] /\ m.granted

\* handleRequestVoteResponse.
HandleRequestVoteResponse(n, m) ==
    /\ Unlocked(n)
    /\ m.type = "RequestVoteResponse" /\ m.dst = n
    /\ Discard(m)
    /\ LET voters == votesReceived[n] \cup {m.src}
       IN \/ /\ m.term > currentTerm[n]
             /\ BecomeFollower(n, m.term)
             /\ UNCHANGED log
          \/ /\ CountsVote(n, m)
             /\ votesReceived' = [votesReceived EXCEPT ![n] = voters]
             /\ IF Cardinality(voters) >= QuorumSize THEN BecomeLeader(n)
                ELSE UNCHANGED <<role, leaderVars, log>>
             /\ UNCHANGED <<currentTerm, votedFor, preVotes>>
          \/ /\ m.term <= currentTerm[n] /\ ~CountsVote(n, m)
             /\ UNCHANGED <<electionVars, leaderVars, log>>
    /\ UNCHANGED <<snapshot, applyVars, taskVars, restarts>>

-----------------------------------------------------------------------------
(* Replication. *)

\* submitCommand, up to the append, and the replication it triggers is the
\* SendAppendEntries below.
SubmitCommand(n, c) ==
    /\ role[n] = "Leader"
    /\ LastIndex(log[n]) < MaxLog
    /\ log' = [log EXCEPT ![n] = AppendEntries(@, <<[term |-> currentTerm[n], cmd |-> c]>>)]
    /\ UNCHANGED <<electionVars, leaderVars, snapshot, applyVars, taskVars, msgs, restarts>>

\* The request for p that carries the entries up to index to; a heartbeat
\* carries none.
AppendEntriesRequest(n, p, to) ==
    LET next == nextIndex[n][p]
    IN  [type |-> "AppendEntries", src |-> n, dst |-> p, orphan |-> FALSE,
         term |-> currentTerm[n],
         prevLogIndex |-> next - 1,
         prevLogTerm |-> OrZero(TermAt(log[n], next - 1)),
         entries |-> IF next > LastIndex(log[n]) THEN <<>> ELSE Entries(log[n], next, to),
         leaderCommit |-> commitIndex[n]]

\* sendAppendEntries to p, once per heartbeat and per submitted command.  The
\* batch is bounded in entries and in bytes, so any non-empty prefix of it may
\* go.  A peer that needs entries the leader has compacted is served by
\* sendSnapshot, which takes stateLock anew; entries compacted but not covered
\* by the snapshot file make getEntries throw, and nothing is sent.
SendAppendEntries(n, p) ==
    /\ Unlocked(n)
    /\ role[n] = "Leader"
    /\ LET next == nextIndex[n][p]
           last == LastIndex(log[n])
       IN \/ /\ next <= snapshot[n].index
             /\ sendingSnapshot' = [sendingSnapshot EXCEPT ![n] = @ \cup {p}]
             /\ UNCHANGED msgs
          \/ /\ next > snapshot[n].index
             /\ next > last \/ next > log[n].snapIndex
             /\ \E to \in IF next > last THEN {last}
                          ELSE next .. LesserOf(last, next + MaxBatch - 1) :
                  Send({AppendEntriesRequest(n, p, to)})
             /\ UNCHANGED sendingSnapshot
    /\ UNCHANGED <<electionVars, leaderVars, logVars, applyVars, installing, snapshotting, restarts>>

AppendResponse(n, m, term, success, match, conflict) ==
    [type |-> "AppendEntriesResponse", src |-> n, dst |-> m.src, term |-> term,
     success |-> success, matchIndex |-> match, conflict |-> conflict]

\* Mutant of SetCommitIndex: the refusal is missing.
SetCommitIndexUnchecked(current, index) == index

\* VolatileState.setCommitIndex refuses to go back.
SetCommitIndex(current, index) == IF index < current THEN current ELSE index

\* handleAppendEntries.  When setCommitIndex refuses, the handler throws after
\* the log was written, and the leader gets no reply.
HandleAppendEntries(n, m) ==
    /\ Unlocked(n)
    /\ m.type = "AppendEntries" /\ m.dst = n
    /\ LET last == m.prevLogIndex + Len(m.entries)
           advances == m.leaderCommit > commitIndex[n]
           newCommit == LesserOf(m.leaderCommit, last)
       IN \/ /\ m.term < currentTerm[n]
             /\ Reply(m, {AppendResponse(n, m, currentTerm[n], FALSE, 0, NoConflict)})
             /\ UNCHANGED <<electionVars, leaderVars, log, commitIndex>>
          \/ /\ m.term >= currentTerm[n]
             /\ BecomeFollower(n, m.term)
             /\ IF MatchesPrevLog(log[n], m.prevLogIndex, m.prevLogTerm)
                THEN /\ log' = [log EXCEPT ![n] = AppendEntriesFrom(@, m.prevLogIndex, m.entries)]
                     /\ commitIndex' = [commitIndex EXCEPT ![n] =
                                           IF advances THEN SetCommitIndex(@, newCommit) ELSE @]
                     /\ Reply(m, IF advances /\ newCommit < commitIndex[n] THEN {}
                                 ELSE {AppendResponse(n, m, m.term, TRUE, last, NoConflict)})
                ELSE /\ Reply(m, {AppendResponse(n, m, m.term, FALSE, 0,
                                                 ConflictInfo(log[n], m.prevLogIndex))})
                     /\ UNCHANGED <<log, commitIndex>>
    /\ UNCHANGED <<snapshot, lastApplied, app, taskVars, restarts>>

\* handleAppendEntriesResponse, with tryAdvanceCommitIndex on success.  A
\* failure without a hint comes from a request of an older term.
HandleAppendEntriesResponse(n, m) ==
    /\ Unlocked(n)
    /\ m.type = "AppendEntriesResponse" /\ m.dst = n
    /\ Discard(m)
    /\ \/ /\ role[n] = "Leader" /\ m.term > currentTerm[n]
          /\ BecomeFollower(n, m.term)
          /\ UNCHANGED commitIndex
       \/ /\ role[n] # "Leader" \/ m.term < currentTerm[n]
          /\ UNCHANGED <<electionVars, leaderVars, commitIndex>>
       \/ /\ role[n] = "Leader" /\ m.term = currentTerm[n] /\ m.success
          /\ LET ahead == m.matchIndex > matchIndex[n][m.src]
                 match == [matchIndex[n] EXCEPT ![m.src] = IF ahead THEN m.matchIndex ELSE @]
                 newCommit == CalculateCommitIndex(log[n], currentTerm[n], Peers(n), match)
             IN /\ matchIndex' = [matchIndex EXCEPT ![n] = match]
                /\ nextIndex' = [nextIndex EXCEPT ![n][m.src] =
                                    IF ahead THEN m.matchIndex + 1 ELSE @]
                /\ commitIndex' = [commitIndex EXCEPT ![n] =
                                      IF newCommit > @ THEN newCommit ELSE @]
          /\ UNCHANGED electionVars
       \/ /\ role[n] = "Leader" /\ m.term = currentTerm[n] /\ ~m.success
          /\ nextIndex' = [nextIndex EXCEPT ![n][m.src] =
                LET match == matchIndex[n][m.src]
                IN  IF m.conflict = NoConflict
                    THEN (IF @ - 1 > match THEN @ - 1 ELSE match + 1)
                    ELSE NextIndexAfterConflict(log[n], match, m.conflict.index, m.conflict.term)]
          /\ UNCHANGED <<electionVars, matchIndex, commitIndex>>
    /\ UNCHANGED <<logVars, lastApplied, app, taskVars, restarts>>

-----------------------------------------------------------------------------
(* Applying and snapshots. *)

\* One turn of applyCommittedEntries, up to the decision to take a snapshot.
\* setLastApplied refuses to pass commitIndex.
ApplyNext(n) ==
    /\ snapshotting[n] = "no"
    /\ lastApplied[n] < commitIndex[n]
    /\ LET next == lastApplied[n] + 1
       IN \/ /\ next <= log[n].snapIndex /\ log[n].snapIndex <= commitIndex[n]
             /\ lastApplied' = [lastApplied EXCEPT ![n] = log[n].snapIndex]
             /\ UNCHANGED <<app, snapshotting>>
          \/ /\ HasEntry(log[n], next)
             /\ LET cmd == Entry(log[n], next).cmd
                IN app' = [app EXCEPT ![n] = IF cmd = NoOp THEN @ ELSE Append(@, cmd)]
             /\ lastApplied' = [lastApplied EXCEPT ![n] = next]
             /\ snapshotting' = [snapshotting EXCEPT ![n] =
                   IF next - snapshot[n].index >= SnapshotThreshold THEN "save" ELSE @]
    /\ UNCHANGED <<electionVars, leaderVars, logVars, commitIndex, sendingSnapshot, installing,
                   msgs, restarts>>

\* takeSnapshot, up to saveSnapshot.  applyLock is held; stateLock is not.
SaveSnapshot(n) ==
    /\ snapshotting[n] = "save"
    /\ snapshot' = [snapshot EXCEPT ![n] =
                       [index |-> lastApplied[n], term |-> TermAt(log[n], lastApplied[n]),
                        data |-> app[n]]]
    /\ snapshotting' = [snapshotting EXCEPT ![n] = "compact"]
    /\ UNCHANGED <<electionVars, leaderVars, log, applyVars, sendingSnapshot, installing,
                   msgs, restarts>>

\* takeSnapshot's discardEntriesUpTo, of the index and term it has read.
CompactLog(n) ==
    /\ snapshotting[n] = "compact"
    /\ log' = [log EXCEPT ![n] =
                  DiscardEntriesUpTo(@, lastApplied[n], TermAt(@, lastApplied[n]))]
    /\ snapshotting' = [snapshotting EXCEPT ![n] = "no"]
    /\ UNCHANGED <<electionVars, leaderVars, snapshot, applyVars, sendingSnapshot, installing,
                   msgs, restarts>>

\* sendSnapshot: by now the caller may have lost its leadership, and the term
\* it sends is the one it has now.
SendSnapshot(n, p) ==
    /\ Unlocked(n)
    /\ p \in sendingSnapshot[n]
    /\ sendingSnapshot' = [sendingSnapshot EXCEPT ![n] = @ \ {p}]
    /\ Send({[type |-> "InstallSnapshot", src |-> n, dst |-> p, orphan |-> FALSE,
              term |-> currentTerm[n], snapshot |-> snapshot[n]]})
    /\ UNCHANGED <<electionVars, leaderVars, logVars, applyVars, installing, snapshotting, restarts>>

\* handleInstallSnapshot, up to saveSnapshot.  stateLock stays held.
ReceiveSnapshot(n, m) ==
    /\ Unlocked(n)
    /\ m.type = "InstallSnapshot" /\ m.dst = n
    /\ \/ /\ m.term < currentTerm[n]
          /\ Reply(m, {[type |-> "InstallSnapshotResponse", src |-> n, dst |-> m.src,
                        term |-> currentTerm[n], success |-> FALSE, index |-> m.snapshot.index]})
          /\ UNCHANGED <<electionVars, leaderVars, snapshot, installing>>
       \/ /\ m.term >= currentTerm[n]
          /\ IF m.term > currentTerm[n] \/ role[n] # "Follower" THEN BecomeFollower(n, m.term)
             ELSE UNCHANGED <<electionVars, leaderVars>>
          /\ snapshot' = [snapshot EXCEPT ![n] = m.snapshot]
          /\ installing' = [installing EXCEPT ![n] = m]
          /\ Exchange(m, {})
    /\ UNCHANGED <<log, applyVars, sendingSnapshot, snapshotting, restarts>>

\* The rest of handleInstallSnapshot, once applyLock is free.  setCommitIndex
\* comes last and refuses to go back: by then log and application are replaced.
InstallSnapshot(n) ==
    /\ ~Unlocked(n)
    /\ snapshotting[n] = "no"
    /\ LET m == installing[n]
           s == m.snapshot
           throws == s.index < commitIndex[n]
       IN /\ log' = [log EXCEPT ![n] = IF s.index <= LastIndex(@)
                                       THEN DiscardEntriesUpTo(@, s.index, s.term)
                                       ELSE ResetToSnapshot(s.index, s.term)]
          /\ app' = [app EXCEPT ![n] = s.data]
          /\ commitIndex' = [commitIndex EXCEPT ![n] = SetCommitIndex(@, s.index)]
          /\ lastApplied' = [lastApplied EXCEPT ![n] = IF throws THEN @ ELSE s.index]
          /\ Send(IF throws \/ m.orphan THEN {}
                  ELSE {[type |-> "InstallSnapshotResponse", src |-> n, dst |-> m.src,
                         term |-> currentTerm[n], success |-> TRUE, index |-> s.index]})
    /\ installing' = [installing EXCEPT ![n] = Nil]
    /\ UNCHANGED <<electionVars, leaderVars, snapshot, sendingSnapshot, snapshotting, restarts>>

\* sendSnapshot's handling of the response: no comparison of the term it was
\* sent in with the current one.
HandleInstallSnapshotResponse(n, m) ==
    /\ Unlocked(n)
    /\ m.type = "InstallSnapshotResponse" /\ m.dst = n
    /\ Discard(m)
    /\ \/ /\ role[n] = "Leader" /\ m.term > currentTerm[n]
          /\ BecomeFollower(n, m.term)
       \/ /\ role[n] = "Leader" /\ m.term <= currentTerm[n]
          /\ m.success /\ m.index > matchIndex[n][m.src]
          /\ matchIndex' = [matchIndex EXCEPT ![n][m.src] = m.index]
          /\ nextIndex' = [nextIndex EXCEPT ![n][m.src] = m.index + 1]
          /\ UNCHANGED electionVars
       \/ /\ \/ role[n] # "Leader"
             \/ m.term <= currentTerm[n] /\ ~(m.success /\ m.index > matchIndex[n][m.src])
          /\ UNCHANGED <<electionVars, leaderVars>>
    /\ UNCHANGED <<logVars, applyVars, taskVars, restarts>>

-----------------------------------------------------------------------------
(* Crashes. *)

\* The process ends and RaftNode.start runs in a new one: what was not written
\* is lost, the snapshot file gives the application its state, commitIndex and
\* lastApplied, and nobody waits for the replies to its old requests.
Reboot(n, diskLog) ==
    /\ restarts < MaxRestarts
    /\ restarts' = restarts + 1
    /\ role' = [role EXCEPT ![n] = "Follower"]
    /\ votesReceived' = [votesReceived EXCEPT ![n] = {}]
    /\ preVotes' = [preVotes EXCEPT ![n] = {}]
    /\ nextIndex' = [nextIndex EXCEPT ![n] = [p \in Server |-> 1]]
    /\ matchIndex' = [matchIndex EXCEPT ![n] = [p \in Server |-> 0]]
    /\ log' = [log EXCEPT ![n] = Reload(diskLog)]
    /\ commitIndex' = [commitIndex EXCEPT ![n] = snapshot[n].index]
    /\ lastApplied' = [lastApplied EXCEPT ![n] = snapshot[n].index]
    /\ app' = [app EXCEPT ![n] = snapshot[n].data]
    /\ sendingSnapshot' = [sendingSnapshot EXCEPT ![n] = {}]
    /\ installing' = [installing EXCEPT ![n] = Nil]
    /\ snapshotting' = [snapshotting EXCEPT ![n] = "no"]

Requests == {"PreVote", "RequestVote", "AppendEntries", "InstallSnapshot"}

Orphaned(n, ms) ==
    {IF m.type \in Requests /\ m.src = n THEN [m EXCEPT !.orphan = TRUE] ELSE m :
        m \in {x \in ms : x.type \in Requests \/ x.dst # n}}

Restart(n) ==
    /\ Reboot(n, log[n])
    /\ msgs' = Orphaned(n, msgs)
    /\ UNCHANGED <<currentTerm, votedFor, snapshot>>

\* A crash inside handleAppendEntries, after the conflicting suffix was cut off
\* and before the entries of the leader were appended.
CrashAfterTruncate(n, m) ==
    /\ Unlocked(n)
    /\ m.type = "AppendEntries" /\ m.dst = n
    /\ m.term >= currentTerm[n]
    /\ MatchesPrevLog(log[n], m.prevLogIndex, m.prevLogTerm)
    /\ Conflicts(log[n], m.prevLogIndex, m.entries) # {}
    /\ currentTerm' = [currentTerm EXCEPT ![n] = m.term]
    /\ votedFor' = [votedFor EXCEPT ![n] = VoteIn(n, m.term)]
    /\ Reboot(n, TruncateConflict(log[n], m.prevLogIndex, m.entries))
    /\ msgs' = Orphaned(n, msgs \ {m})
    /\ UNCHANGED snapshot

-----------------------------------------------------------------------------
\* The state of nodes that have just started on the given disks.
Started(term, vote, disk) ==
    /\ currentTerm = term
    /\ votedFor = vote
    /\ log = disk
    /\ role = [n \in Server |-> "Follower"]
    /\ votesReceived = [n \in Server |-> {}]
    /\ preVotes = [n \in Server |-> {}]
    /\ nextIndex = [n \in Server |-> [p \in Server |-> 1]]
    /\ matchIndex = [n \in Server |-> [p \in Server |-> 0]]
    /\ snapshot = [n \in Server |-> NoSnapshot]
    /\ commitIndex = [n \in Server |-> 0]
    /\ lastApplied = [n \in Server |-> 0]
    /\ app = [n \in Server |-> <<>>]
    /\ sendingSnapshot = [n \in Server |-> {}]
    /\ installing = [n \in Server |-> Nil]
    /\ snapshotting = [n \in Server |-> "no"]
    /\ msgs = {}
    /\ restarts = 0

Init ==
    Started([n \in Server |-> 0], [n \in Server |-> Nil], [n \in Server |-> EmptyLog])

Receive(n, m) ==
    \/ HandlePreVote(n, m)
    \/ HandlePreVoteResponse(n, m)
    \/ HandleRequestVote(n, m)
    \/ HandleRequestVoteResponse(n, m)
    \/ HandleAppendEntries(n, m)
    \/ HandleAppendEntriesResponse(n, m)
    \/ ReceiveSnapshot(n, m)
    \/ HandleInstallSnapshotResponse(n, m)
    \/ CrashAfterTruncate(n, m)

Step(n) ==
    \/ StartPreVote(n)
    \/ StartElection(n)
    \/ \E c \in Command : SubmitCommand(n, c)
    \/ \E p \in Peers(n) : SendAppendEntries(n, p)
    \/ \E p \in Peers(n) : SendSnapshot(n, p)
    \/ ApplyNext(n)
    \/ SaveSnapshot(n)
    \/ CompactLog(n)
    \/ InstallSnapshot(n)
    \/ Restart(n)
    \/ \E m \in msgs : Receive(n, m)

Next == \E n \in Server : Step(n)

Spec == Init /\ [][Next]_vars

-----------------------------------------------------------------------------
(* Types. *)

Terms == Int
LogEntry == [term : Terms, cmd : Command \cup {NoOp}]
LogRecord == [snapIndex : Nat, snapTerm : Terms, entries : Seq(LogEntry), lastTerm : Terms]
SnapshotRecord == [index : Nat, term : Terms, data : Seq(Command)]
Hint == [index : Int, term : Terms]

VoteRequest ==
    [type : {"PreVote", "RequestVote"}, src : Server, dst : Server, orphan : BOOLEAN,
     term : Nat, lastLogIndex : Nat, lastLogTerm : Terms]
VoteResponse ==
    [type : {"PreVoteResponse", "RequestVoteResponse"}, src : Server, dst : Server,
     term : Nat, granted : BOOLEAN]
AppendRequest ==
    [type : {"AppendEntries"}, src : Server, dst : Server, orphan : BOOLEAN, term : Nat,
     prevLogIndex : Nat, prevLogTerm : Terms, entries : Seq(LogEntry), leaderCommit : Nat]
AppendReply ==
    [type : {"AppendEntriesResponse"}, src : Server, dst : Server, term : Nat,
     success : BOOLEAN, matchIndex : Nat, conflict : Hint]
InstallRequest ==
    [type : {"InstallSnapshot"}, src : Server, dst : Server, orphan : BOOLEAN, term : Nat,
     snapshot : SnapshotRecord]
InstallReply ==
    [type : {"InstallSnapshotResponse"}, src : Server, dst : Server, term : Nat,
     success : BOOLEAN, index : Nat]

Message == VoteRequest \cup VoteResponse \cup AppendRequest \cup AppendReply
              \cup InstallRequest \cup InstallReply

ElectionTypeOK ==
    /\ currentTerm \in [Server -> Nat]
    /\ votedFor \in [Server -> Server \cup {Nil}]
    /\ role \in [Server -> {"Follower", "Candidate", "Leader"}]
    /\ votesReceived \in [Server -> SUBSET Server]
    /\ preVotes \in [Server -> SUBSET Server]

LeaderTypeOK ==
    /\ nextIndex \in [Server -> [Server -> Nat \ {0}]]
    /\ matchIndex \in [Server -> [Server -> Nat]]

LogTypeOK ==
    /\ log \in [Server -> LogRecord]
    /\ snapshot \in [Server -> SnapshotRecord]

ApplyTypeOK ==
    /\ commitIndex \in [Server -> Nat]
    /\ lastApplied \in [Server -> Nat]
    /\ app \in [Server -> Seq(Command)]

TaskTypeOK ==
    /\ sendingSnapshot \in [Server -> SUBSET Server]
    /\ installing \in [Server -> InstallRequest \cup {Nil}]
    /\ snapshotting \in [Server -> {"no", "save", "compact"}]

\* Every variable keeps its type: the index arithmetic of LogManager keeps the
\* logs well formed, and LeaderState never points before the first entry.
TypeOK ==
    /\ ElectionTypeOK
    /\ LeaderTypeOK
    /\ LogTypeOK
    /\ ApplyTypeOK
    /\ TaskTypeOK
    /\ msgs \subseteq Message
    /\ restarts \in Nat

-----------------------------------------------------------------------------
(* Properties. *)

\* Two nodes never lead the same term: each voter votes once per term, across
\* crashes, late replies and repeated candidacies (handleRequestVote,
\* becomeCandidateUnlocked, handleRequestVoteResponse).
ElectionSafety ==
    \A a, b \in Server :
        role[a] = "Leader" /\ role[b] = "Leader" /\ currentTerm[a] = currentTerm[b] => a = b

\* The granted votes among ms, on their way to a candidate.
GrantsIn(ms) == {m \in ms : m.type = "RequestVoteResponse" /\ m.granted}

\* The votes counted in c's candidacy, or on which c leads.
VotesCounted(c) ==
    {[voter |-> v, candidate |-> c, term |-> currentTerm[c]] : v \in votesReceived[c]}

VotesInFlight ==
    {[voter |-> m.src, candidate |-> m.dst, term |-> m.term] : m \in GrantsIn(msgs)}

VotesGiven == VotesInFlight \cup UNION {VotesCounted(c) : c \in Server}

VotesAreCast ==
    \A g \in VotesGiven :
        \/ currentTerm[g.voter] > g.term
        \/ currentTerm[g.voter] = g.term /\ votedFor[g.voter] = g.candidate

OneVotePerTerm ==
    \A g, h \in VotesGiven :
        g.voter = h.voter /\ g.term = h.term => g.candidate = h.candidate

LeaderHasQuorum ==
    \A n \in Server : role[n] = "Leader" => Cardinality(votesReceived[n]) >= QuorumSize

\* Every vote that counts or may yet count was cast by its voter in that very
\* term, and for one candidate only, also when the reply reaches a later
\* candidacy or the voter has crashed since; a leader has a quorum of them
\* (handleRequestVote, handleRequestVoteResponse, becomeCandidateUnlocked).
ElectionInv == VotesAreCast /\ OneVotePerTerm /\ LeaderHasQuorum

\* A node's term never goes back and its vote in a term is never taken back,
\* whatever arrives late and however often it crashes (updateTermAndVote).
VoteIsFinal ==
    [][\A n \in Server :
          /\ currentTerm'[n] >= currentTerm[n]
          /\ currentTerm'[n] = currentTerm[n] /\ votedFor[n] # Nil =>
                votedFor'[n] = votedFor[n]]_vars

SamePrefix(l, k, i) ==
    \A j \in 1 .. i : HasEntry(l, j) /\ HasEntry(k, j) => Entry(l, j) = Entry(k, j)

\* Entries of the same index and term, where both logs still hold them, are the
\* same and so is everything both hold before them (matchesPrevLog,
\* appendEntriesFrom).
LogMatching ==
    \A a, b \in Server :
        \A i \in log[a].snapIndex + 1 .. LastIndex(log[a]) :
            HasEntry(log[b], i) /\ TermAt(log[a], i) = TermAt(log[b], i) =>
                SamePrefix(log[a], log[b], i)

\* What any node knows committed, every leader of a later or the same term has:
\* in its log, or under its snapshot (isLogUpToDate, calculateCommitIndex).
LeaderCompleteness ==
    \A a, b \in Server :
        role[b] = "Leader" /\ currentTerm[b] >= currentTerm[a] =>
            /\ LastIndex(log[b]) >= commitIndex[a]
            /\ SamePrefix(log[a], log[b], commitIndex[a])

\* What a leader believes replicated on a peer is there: the peer holds the
\* leader's entries up to matchIndex, unless it has moved on to a later term
\* (handleAppendEntriesResponse, sendSnapshot, updateMatchIndex).
MatchIndexIsHeld ==
    \A n, p \in Server :
        role[n] = "Leader" /\ currentTerm[p] <= currentTerm[n] =>
            /\ LastIndex(log[p]) >= matchIndex[n][p]
            /\ SamePrefix(log[n], log[p], matchIndex[n][p])

\* A node never gives up an entry it knows committed: it stays in the log until
\* a snapshot covers it (appendEntriesFrom's truncation, discardEntriesUpTo).
CommittedIsKept ==
    [][\A n \in Server :
          \A i \in log[n].snapIndex + 1 .. LesserOf(commitIndex[n], LastIndex(log[n])) :
             \/ i <= log'[n].snapIndex
             \/ HasEntry(log'[n], i) /\ Entry(log'[n], i) = Entry(log[n], i)]_vars

\* While a node runs, its commitIndex never goes back, although AppendEntries of
\* one leader arrive late and out of order (setCommitIndex, handleAppendEntries).
CommitNeverRegresses ==
    [][\A n \in Server : restarts' = restarts => commitIndex'[n] >= commitIndex[n]]_vars

\* Two nodes that applied the log up to the same index have applied the same
\* commands (applyCommittedEntries, takeSnapshot, handleInstallSnapshot).
SameHistory ==
    \A a, b \in Server : lastApplied[a] = lastApplied[b] => app[a] = app[b]
=============================================================================
