------------------------------ MODULE Membership ------------------------------
(***************************************************************************)
(* How a raft-core cluster changes its members: RaftNode's addServer,      *)
(* removeServer, promoteServer and waitForCommit, and ConfigManager's two  *)
(* configurations, under the elections and the replication of              *)
(* StateMachine.  The active configuration takes effect when its entry is  *)
(* appended and decides who votes, who is replicated to and how many make  *)
(* a quorum; the committed one is on disk.                                 *)
(*                                                                         *)
(* An RPC and its reply are one step here, between the two state locks     *)
(* that the code takes for it; Raft has the messages in flight.  Pre-votes *)
(* and snapshots are Raft's too: an election may start at any time.        *)
(***************************************************************************)
EXTENDS Integers, FiniteSets, SequencesExt, TLC

CONSTANTS
    Node, Nil,
    Voter,          \* the voters that every node starts with
    Added, Removed, Learner,    \* bound: what clients ask for, each once
    Waits,          \* a call may wait between its checks and its append
    Reordered,      \* a delayed AppendEntries may follow a later one
    Electable, MaxTerm, MaxLog, MaxRestarts     \* bounds

VARIABLES
    term, votedFor, role, votes, votesNeeded,
    log,            \* sequences of [term, config]: config is Nil for other entries
    commitIndex, matchIndex,
    active, committed,      \* ConfigManager
    calls,          \* where each call stands
    restarts

electionVars == <<term, votedFor, role, votes, votesNeeded>>
configVars == <<active, committed>>
vars == <<electionVars, log, commitIndex, matchIndex, configVars, calls, restarts>>

Bootstrap == [voters |-> Voter, learners |-> {}]

\* The calls: to add, remove, add as learner and promote a node.
Call == [kind : {"add"}, member : Added] \cup [kind : {"remove"}, member : Removed]
            \cup [kind : {"learner", "promote"}, member : Learner]

\* The match indexes of a node that does not lead, or leads since just now.
NoMatch == [p \in Node |-> 0]

NotMade == [step |-> "idle", node |-> Nil, config |-> Nil, index |-> 0, term |-> 0]

Init ==
    /\ term = [n \in Node |-> 0]
    /\ votedFor = [n \in Node |-> Nil]
    /\ role = [n \in Node |-> "Follower"]
    /\ votes = [n \in Node |-> {}]
    /\ votesNeeded = [n \in Node |-> 0]
    /\ log = [n \in Node |-> <<>>]
    /\ commitIndex = [n \in Node |-> 0]
    /\ matchIndex = [n \in Node |-> NoMatch]
    /\ active = [n \in Node |-> Bootstrap]
    /\ committed = [n \in Node |-> Bootstrap]
    /\ calls = [c \in Call |-> NotMade]
    /\ restarts = 0

-----------------------------------------------------------------------------
(* ClusterConfig and ConfigManager. *)

Members(config) == config.voters \cup config.learners

QuorumSize(config) == Cardinality(config.voters) \div 2 + 1

IsVoter(n, m) == m \in active[n].voters

HasPendingChange(n) == active[n] # committed[n]

\* The configurations of the entries of a log from one index to another.
ConfigsIn(l, from, to) == SelectSeq(SubSeq(l, from, to), LAMBDA e : e.config # Nil)

\* The last of them, or the one before.
LastConfig(entries, before) ==
    IF entries = <<>> THEN before ELSE Last(entries).config

-----------------------------------------------------------------------------
(* The log. *)

LastTerm(l) == IF l = <<>> THEN 0 ELSE Last(l).term

MatchesPrevLog(l, prev, prevTerm) ==
    prev = 0 \/ (prev \in DOMAIN l /\ l[prev].term = prevTerm)

\* isLogUpToDate, of the log other as seen from the log mine.
IsUpToDate(mine, other) ==
    \/ LastTerm(other) > LastTerm(mine)
    \/ LastTerm(other) = LastTerm(mine) /\ Len(other) >= Len(mine)

\* LogManager.appendEntriesFrom: the log is cut at the first entry of another
\* term; entries already held are kept.
AppendEntriesFrom(l, prev, entries) ==
    LET conflicts == {k \in 1..Len(entries) :
                          prev + k <= Len(l) /\ l[prev + k].term # entries[k].term}
        held == IF conflicts = {} THEN l
                ELSE SubSeq(l, 1, prev + (CHOOSE k \in conflicts : \A j \in conflicts : k <= j) - 1)
    IN  held \o SubSeq(entries, Len(held) - prev + 1, Len(entries))

-----------------------------------------------------------------------------
(* Roles and elections. *)

TermAfter(n, t) == IF t > term[n] THEN t ELSE term[n]

\* becomeFollowerUnlocked, of the nodes in ns when they learn of term t; they
\* drop their LeaderState.
BecomeFollower(ns, t) ==
    /\ term' = [n \in Node |-> IF n \in ns THEN TermAfter(n, t) ELSE term[n]]
    /\ votedFor' = [n \in Node |-> IF n \in ns /\ t > term[n] THEN Nil ELSE votedFor[n]]
    /\ role' = [n \in Node |-> IF n \in ns THEN "Follower" ELSE role[n]]
    /\ votes' = [n \in Node |-> IF n \in ns THEN {} ELSE votes[n]]
    /\ UNCHANGED votesNeeded

\* leaderState is null in the nodes of ns.
WithoutMatch(ns, match) == [n \in Node |-> IF n \in ns THEN NoMatch ELSE match[n]]

\* handleElectionTimeoutUnlocked after its pre-vote, becomeCandidateUnlocked.
BecomeCandidate(n) ==
    /\ n \in Electable /\ IsVoter(n, n) /\ role[n] # "Leader" /\ term[n] < MaxTerm
    /\ term' = [term EXCEPT ![n] = @ + 1]
    /\ votedFor' = [votedFor EXCEPT ![n] = n]
    /\ role' = [role EXCEPT ![n] = "Candidate"]
    /\ votes' = [votes EXCEPT ![n] = {n}]
    /\ votesNeeded' = [votesNeeded EXCEPT ![n] = QuorumSize(active[n])]
    /\ UNCHANGED <<log, commitIndex, matchIndex, configVars, calls, restarts>>

\* Mutant of GrantsVote: a vote of an earlier term still stands.
GrantsVoteAgain(q, n) ==
    /\ IsVoter(q, q) /\ IsVoter(q, n)
    /\ IsUpToDate(log[q], log[n])

\* handleRequestVote, for a candidate whose term is not stale.
GrantsVote(q, n) ==
    /\ IsVoter(q, q) /\ IsVoter(q, n)
    /\ term[n] > term[q] \/ votedFor[q] \in {Nil, n}
    /\ IsUpToDate(log[q], log[n])

\* becomeLeaderUnlocked appends its no-op; without room for it n is not elected.
Elected(n) ==
    /\ Len(log[n]) < MaxLog
    /\ log' = [log EXCEPT ![n] = Append(@, [term |-> term[n], config |-> Nil])]

\* q votes for n, whose reply makes it leader when it has enough votes.
RequestVote(n, q) ==
    /\ role[n] = "Candidate" /\ q \in active[n].voters \ {n}
    /\ term[q] <= term[n]
    /\ GrantsVote(q, n)
    /\ LET won == Cardinality(votes[n] \cup {q}) >= votesNeeded[n]
           later == term[n] > term[q]
       IN  /\ votes' = [votes EXCEPT ![n] = @ \cup {q}, ![q] = IF later THEN {} ELSE @]
           /\ role' = [role EXCEPT ![n] = IF won THEN "Leader" ELSE @,
                                   ![q] = IF later THEN "Follower" ELSE @]
           /\ matchIndex' = WithoutMatch({n} \cup (IF later THEN {q} ELSE {}), matchIndex)
           /\ IF won THEN Elected(n) ELSE UNCHANGED log
    /\ term' = [term EXCEPT ![q] = term[n]]
    /\ votedFor' = [votedFor EXCEPT ![q] = n]
    /\ UNCHANGED <<votesNeeded, commitIndex, configVars, calls, restarts>>

\* q refuses, and the later of the two terms becomes the term of both.
RefuseVote(n, q) ==
    /\ role[n] = "Candidate" /\ q \in active[n].voters \ {n}
    /\ term[q] # term[n]
    /\ term[q] < term[n] => ~GrantsVote(q, n)
    /\ LET learns == IF term[q] < term[n] THEN {q} ELSE {n}
       IN  /\ BecomeFollower(learns, IF term[q] < term[n] THEN term[n] ELSE term[q])
           /\ matchIndex' = WithoutMatch(learns, matchIndex)
    /\ UNCHANGED <<log, commitIndex, configVars, calls, restarts>>

-----------------------------------------------------------------------------
(* Replication and commit. *)

\* notifyCommitWaiters: a waiter is found by its index, whatever the entry.
Notified(n, index) ==
    [c \in Call |-> IF calls[c].node = n /\ calls[c].step = "waiting" /\ calls[c].index <= index
                    THEN [calls[c] EXCEPT !.step = "true"] ELSE calls[c]]

\* LeaderState.calculateCommitIndex counts its own node among the voters, even
\* one that its configuration has removed.
MajorityCount(n) == (Cardinality(active[n].voters \ {n}) + 1) \div 2 + 1

\* calculateCommitIndex, with the match indexes of the peers.
CommitIndexFor(n, match) ==
    LET held(i) == {p \in active[n].voters \ {n} : match[p] >= i}
        ready == {i \in 1..Len(log[n]) : /\ log[n][i].term = term[n]
                                         /\ Cardinality(held(i)) + 1 >= MajorityCount(n)}
    IN  IF ready = {} THEN 0 ELSE CHOOSE i \in ready : \A j \in ready : j <= i

\* The requests that n may be sending: sendAppendEntries takes all that follows
\* nextIndex, a delayed request ends where the log once ended.
LastSent(n) == IF Reordered THEN 0..Len(log[n]) ELSE {Len(log[n])}

\* handleAppendEntries: every configuration of the request takes effect, in
\* order, those that the log held already included.
Activated(q, entries, index, newLog) ==
    LastConfig(SelectSeq(entries, LAMBDA e : e.config # Nil), active[q])

\* handleAppendEntries at q of a request of the leader n, and its reply to n.
AppendEntries(n, q, prev, last) ==
    /\ role[n] = "Leader" /\ q \in Members(active[n]) \ {n}
    /\ term[q] <= term[n] /\ prev <= last
    /\ MatchesPrevLog(log[q], prev, IF prev = 0 THEN 0 ELSE log[n][prev].term)
    /\ LET entries == SubSeq(log[n], prev + 1, last)
           newLog == AppendEntriesFrom(log[q], prev, entries)
           index == IF commitIndex[n] < last THEN commitIndex[n] ELSE last
           advances == index > commitIndex[q]
           match == [matchIndex[n] EXCEPT ![q] = IF last > @ THEN last ELSE @]
           reached == CommitIndexFor(n, match)
           commits == reached > commitIndex[n]
           \* tryAdvanceCommitIndex: a leader that its configuration removed steps down.
           follows == {q} \cup (IF commits /\ ~IsVoter(n, n) THEN {n} ELSE {})
           ownCommitted == LastConfig(ConfigsIn(log[n], commitIndex[n] + 1, reached), committed[n])
       IN  /\ log' = [log EXCEPT ![q] = newLog]
           /\ active' = [active EXCEPT ![q] = Activated(q, entries, index, newLog)]
           /\ committed' = [committed EXCEPT
                  ![q] = IF advances THEN LastConfig(ConfigsIn(newLog, commitIndex[q] + 1, index), @) ELSE @,
                  ![n] = IF commits THEN ownCommitted ELSE @]
           /\ commitIndex' = [commitIndex EXCEPT ![q] = IF advances THEN index ELSE @,
                                                 ![n] = IF commits THEN reached ELSE @]
           /\ matchIndex' = WithoutMatch(follows, [matchIndex EXCEPT ![n] = match])
           /\ calls' = [c \in Call |->
                  IF advances /\ calls[c].node = q THEN Notified(q, index)[c]
                  ELSE IF commits /\ calls[c].node = n THEN Notified(n, reached)[c]
                  ELSE calls[c]]
           /\ BecomeFollower(follows, term[n])
    /\ UNCHANGED restarts

\* The reply of a node that knows a later term.
RefuseEntries(n, q) ==
    /\ role[n] = "Leader" /\ q \in Members(active[n]) \ {n} /\ term[q] > term[n]
    /\ BecomeFollower({n}, term[q])
    /\ matchIndex' = WithoutMatch({n}, matchIndex)
    /\ UNCHANGED <<log, commitIndex, configVars, calls, restarts>>

-----------------------------------------------------------------------------
(* The calls. *)

\* The configuration that a call asks of n, and what it asks of the present one.
NewConfig(n, c) ==
    LET now == active[n]
    IN  CASE c.kind = "add" -> [now EXCEPT !.voters = @ \cup {c.member}]
          [] c.kind = "learner" -> [now EXCEPT !.learners = @ \cup {c.member}]
          [] c.kind = "promote" -> [voters |-> now.voters \cup {c.member},
                                    learners |-> now.learners \ {c.member}]
          [] c.kind = "remove" -> [voters |-> now.voters \ {c.member},
                                   learners |-> now.learners \ {c.member}]

Permitted(n, c) ==
    CASE c.kind \in {"add", "learner"} -> c.member \notin Members(active[n])
      [] c.kind = "promote" -> c.member \in active[n].learners
      [] OTHER -> /\ c.member \in Members(active[n])
                  /\ c.member \in active[n].voters => Cardinality(active[n].voters) > 2

MayChange(n) == ~HasPendingChange(n)

\* addServer, removeServer and promoteServer check, then append when they have
\* the command lock; addServer first awaits the transport.
Check(n, c) ==
    /\ calls[c].step = "idle" /\ Len(log[n]) < MaxLog
    /\ role[n] = "Leader"
    /\ MayChange(n) /\ Permitted(n, c)
    /\ calls' = [calls EXCEPT ![c].step = "checked", ![c].node = n, ![c].config = NewConfig(n, c)]
    /\ UNCHANGED <<electionVars, log, commitIndex, matchIndex, configVars, restarts>>

\* submitConfigChange: it relies on what was checked and appends in whatever
\* role and term the node is in by then; the call then waits for the commit,
\* unless the node no longer leads.
Submit(n, c) ==
    /\ calls[c].step = "checked" /\ calls[c].node = n /\ Len(log[n]) < MaxLog
    /\ log' = [log EXCEPT ![n] = Append(@, [term |-> term[n], config |-> calls[c].config])]
    /\ active' = [active EXCEPT ![n] = calls[c].config]
    /\ calls' = [calls EXCEPT ![c] = [step |-> IF role[n] = "Leader" THEN "waiting" ELSE "false",
                                      node |-> n, config |-> Nil,
                                      index |-> Len(log[n]) + 1, term |-> term[n]]]
    /\ UNCHANGED <<electionVars, commitIndex, matchIndex, committed, restarts>>

\* waitForCommit gives up: checkLeadership finds another role or term, or the
\* timeout passes; the entry may still be committed later.
GiveUp(c) ==
    /\ calls[c].step = "waiting"
    /\ calls' = [calls EXCEPT ![c] = [NotMade EXCEPT !.step = "false"]]
    /\ UNCHANGED <<electionVars, log, commitIndex, matchIndex, configVars, restarts>>

\* Mutant of ActiveOnStart: the configuration on disk, whatever the log holds.
ActiveOnStartFromDisk(n) == committed[n]

\* RaftNode.start: the last configuration of the log, or the one on disk.
ActiveOnStart(n) == LastConfig(ConfigsIn(log[n], 1, Len(log[n])), committed[n])

Restart(n) ==
    /\ restarts < MaxRestarts
    /\ restarts' = restarts + 1
    /\ role' = [role EXCEPT ![n] = "Follower"]
    /\ votes' = [votes EXCEPT ![n] = {}]
    /\ commitIndex' = [commitIndex EXCEPT ![n] = 0]
    /\ active' = [active EXCEPT ![n] = ActiveOnStart(n)]
    /\ calls' = [c \in Call |-> IF calls[c].node = n /\ calls[c].step \in {"checked", "waiting"}
                                THEN [NotMade EXCEPT !.step = "false"] ELSE calls[c]]
    /\ matchIndex' = WithoutMatch({n}, matchIndex)
    /\ UNCHANGED <<term, votedFor, votesNeeded, log, committed>>

\* A call that finds the command lock free goes on at once.
NoneHurries == Waits \/ \A c \in Call : calls[c].step # "checked"

Next ==
    \/ \E n \in Node, c \in Call : Submit(n, c)
    \/ /\ NoneHurries
       /\ \/ \E n \in Node : BecomeCandidate(n) \/ Restart(n)
          \/ \E n, q \in Node : RequestVote(n, q) \/ RefuseVote(n, q) \/ RefuseEntries(n, q)
          \/ \E n, q \in Node : \E prev \in 0..Len(log[n]), last \in LastSent(n) :
                 AppendEntries(n, q, prev, last)
          \/ \E n \in Node, c \in Call : Check(n, c)
          \/ \E c \in Call : GiveUp(c)

\* Voters who do not stand for election and are not removed are alike.
Symmetry == Permutations(Voter \ (Electable \cup Removed))

Spec == Init /\ [][Next]_vars

-----------------------------------------------------------------------------
(* Properties. *)

\* State machine safety: what two nodes hold as committed is the same, however
\* the members changed on the way.
CommittedAgree ==
    \A m, n \in Node : \A i \in 1..Len(log[m]) :
        i <= commitIndex[m] /\ i <= commitIndex[n] => log[m][i] = log[n][i]

\* A leader holds everything that any node has committed in an earlier term:
\* the majorities of the configurations that elect and that commit meet.
LeaderHoldsCommitted ==
    \A m, n \in Node : \A i \in 1..commitIndex[m] :
        role[n] = "Leader" /\ term[n] > log[m][i].term /\ (\A o \in Node : term[o] <= term[n]) =>
            i <= Len(log[n]) /\ log[n][i] = log[m][i]

\* Two configurations that follow each other differ by one member's place.
OneAtATime ==
    \A n \in Node :
        LET configs == <<[term |-> 0, config |-> Bootstrap]>> \o ConfigsIn(log[n], 1, Len(log[n]))
            Differ(a, b) == (a \ b) \cup (b \ a)
        IN  \A i \in 1..Len(configs) - 1 :
                Cardinality(Differ(configs[i].config.voters, configs[i + 1].config.voters)) <= 1
=============================================================================
