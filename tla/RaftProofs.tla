----------------------------- MODULE RaftProofs -----------------------------
(***************************************************************************)
(* Proofs about Raft for any set of servers, any commands and any bounds,  *)
(* in three parts, each of which rests on the ones before:                 *)
(*   - elections: type correctness, the finality of votes and election     *)
(*     safety;                                                             *)
(*   - replication: the matching of logs;                                  *)
(*   - commitment: what is committed stays, and there is one history.      *)
(* Safety of elections rests on ElectionInv: each vote in play was cast in *)
(* its term, for one candidate.                                            *)
(***************************************************************************)
EXTENDS Raft, FiniteSetTheorems, WellFoundedInduction, SequenceTheorems, TLAPS

-----------------------------------------------------------------------------
(* Numbers. *)

\* A non-empty finite set of integers has a greatest and a least element: the
\* maximum calculateCommitIndex takes and the minimum getConflictInfo walks to.
LEMMA MaxExists ==
    ASSUME NEW S \in SUBSET Int, IsFiniteSet(S), S # {}
    PROVE  \E m \in S : \A j \in S : j <= m
<1> DEFINE Above(j) == {i \in S : i > j}
<1> DEFINE T == {Above(j) : j \in S}
<1>1. T \subseteq FiniteSubsetsOf(S) /\ T # {}
  <2>1. ASSUME NEW j \in S PROVE Above(j) \in FiniteSubsetsOf(S)
    <3>1. Above(j) \in SUBSET S
      OBVIOUS
    <3>2. IsFiniteSet(Above(j))
      BY <3>1, FS_Subset
    <3> QED BY <3>1, <3>2 DEF FiniteSubsetsOf
  <2> QED BY <2>1
<1>2. IsWellFoundedOn(StrictSubsetOrdering(S), FiniteSubsetsOf(S))
  BY FS_StrictSubsetOrderingWellFounded
<1>3. PICK x \in T : \A y \in T : <<y, x>> \notin StrictSubsetOrdering(S)
  BY <1>1, <1>2, WFMin
<1>4. PICK m \in S : x = Above(m)
  BY <1>3
<1>5. ASSUME NEW j \in S, ~ (j <= m) PROVE FALSE
  <2>0. j \in Int /\ m \in Int /\ \A i \in S : i \in Int
    OBVIOUS
  <2>a. \A i \in S : i > j => i > m
    BY <2>0, <1>5
  <2>b. j \in Above(m) /\ j \notin Above(j)
    BY <2>0, <1>5
  <2>1. Above(j) \in SUBSET S /\ Above(m) \in SUBSET S /\ Above(j) \subseteq Above(m) /\ Above(j) # Above(m)
    <3>1. Above(j) \subseteq Above(m)
      BY <2>a
    <3> QED BY <3>1, <2>b
  <2>2. <<Above(j), Above(m)>> \in StrictSubsetOrdering(S)
    BY <2>1 DEF StrictSubsetOrdering
  <2> QED BY <2>2, <1>3, <1>4
<1> QED BY <1>5

\* The least element: the start of the run getConflictInfo reports.
LEMMA MinExists ==
    ASSUME NEW S \in SUBSET Int, IsFiniteSet(S), S # {}
    PROVE  \E m \in S : \A j \in S : m <= j
<1> DEFINE Below(j) == {i \in S : i < j}
<1> DEFINE T == {Below(j) : j \in S}
<1>1. T \subseteq FiniteSubsetsOf(S) /\ T # {}
  <2>1. ASSUME NEW j \in S PROVE Below(j) \in FiniteSubsetsOf(S)
    <3>1. Below(j) \in SUBSET S
      OBVIOUS
    <3>2. IsFiniteSet(Below(j))
      BY <3>1, FS_Subset
    <3> QED BY <3>1, <3>2 DEF FiniteSubsetsOf
  <2> QED BY <2>1
<1>2. IsWellFoundedOn(StrictSubsetOrdering(S), FiniteSubsetsOf(S))
  BY FS_StrictSubsetOrderingWellFounded
<1>3. PICK x \in T : \A y \in T : <<y, x>> \notin StrictSubsetOrdering(S)
  BY <1>1, <1>2, WFMin
<1>4. PICK m \in S : x = Below(m)
  BY <1>3
<1>5. ASSUME NEW j \in S, ~ (m <= j) PROVE FALSE
  <2>0. j \in Int /\ m \in Int /\ \A i \in S : i \in Int
    OBVIOUS
  <2>a. \A i \in S : i < j => i < m
    BY <2>0, <1>5
  <2>b. j \in Below(m) /\ j \notin Below(j)
    BY <2>0, <1>5
  <2>1. Below(j) \in SUBSET S /\ Below(m) \in SUBSET S /\ Below(j) \subseteq Below(m) /\ Below(j) # Below(m)
    <3>1. Below(j) \subseteq Below(m)
      BY <2>a
    <3> QED BY <3>1, <2>b
  <2>2. <<Below(j), Below(m)>> \in StrictSubsetOrdering(S)
    BY <2>1 DEF StrictSubsetOrdering
  <2> QED BY <2>2, <1>3, <1>4
<1> QED BY <1>5

-----------------------------------------------------------------------------
(* RaftLog: every operation keeps a log well formed. *)

\* The fields of a log and its derived last index.
LEMMA LogFacts ==
    ASSUME NEW l \in LogRecord
    PROVE  /\ l.snapIndex \in Nat /\ l.snapTerm \in Int /\ l.lastTerm \in Int
           /\ l.entries \in Seq(LogEntry) /\ Len(l.entries) \in Nat
           /\ LastIndex(l) \in Nat /\ LastIndex(l) = l.snapIndex + Len(l.entries)
BY DEF LogRecord, Terms, LastIndex

\* Reading a log: getEntry returns an entry and getTermAtIndex a term.
LEMMA TermAtType ==
    ASSUME NEW l \in LogRecord, NEW i \in Int
    PROVE  /\ HasEntry(l, i) => Entry(l, i) \in LogEntry
           /\ TermAt(l, i) \in Int
<1>1. ASSUME HasEntry(l, i) PROVE Entry(l, i) \in LogEntry
  BY <1>1, LogFacts DEF HasEntry, Entry
<1>2. TermAt(l, i) \in Int
  <2>1. \A e \in LogEntry : e.term \in Int
    BY DEF LogEntry, Terms
  <2> QED BY <1>1, <2>1, LogFacts DEF TermAt, NoTerm
<1> QED BY <1>1, <1>2

\* Appending keeps a log well formed (appendEntries).
LEMMA AppendEntriesType ==
    ASSUME NEW l \in LogRecord, NEW es \in Seq(LogEntry)
    PROVE  AppendEntries(l, es) \in LogRecord
<1>1. CASE es = <<>>
  BY <1>1 DEF AppendEntries
<1>2. CASE es # <<>>
  <2>1. es[Len(es)] \in LogEntry
    BY <1>2
  <2>2. es[Len(es)].term \in Int
    BY <2>1 DEF LogEntry, Terms
  <2>3. l.entries \o es \in Seq(LogEntry)
    BY LogFacts
  <2> QED BY <1>2, <2>2, <2>3 DEF AppendEntries, LogRecord, Terms
<1> QED BY <1>1, <1>2

\* Any slice of a log's entries that starts above 0 and ends by its length.
LEMMA SliceType ==
    ASSUME NEW es \in Seq(LogEntry), NEW m \in Int, NEW n \in Int, 1 <= m, n <= Len(es)
    PROVE  /\ SubSeq(es, m, n) \in Seq(LogEntry)
           /\ Len(SubSeq(es, m, n)) = IF m <= n THEN n - m + 1 ELSE 0
<1>1. \A i \in m .. n : es[i] \in LogEntry
  OBVIOUS
<1> QED BY <1>1, SubSeqProperties

\* truncateFrom keeps what lies before i and refreshes the tail.
LEMMA DeleteEntriesFromType ==
    ASSUME NEW l \in LogRecord, NEW i \in Int, l.snapIndex < i, i <= LastIndex(l) + 1
    PROVE  /\ DeleteEntriesFrom(l, i) \in LogRecord
           /\ LastIndex(DeleteEntriesFrom(l, i)) = i - 1
<1> DEFINE kept == SubSeq(l.entries, 1, i - 1 - l.snapIndex)
<1> DEFINE n == i - 1 - l.snapIndex
<1>0. n \in Int /\ 0 <= n /\ n <= Len(l.entries) /\ l.entries \in Seq(LogEntry)
  BY LogFacts DEF LastIndex
<1>1. kept \in Seq(LogEntry) /\ Len(kept) = n
  <2> HIDE DEF n
  <2>1. SubSeq(l.entries, 1, n) \in Seq(LogEntry) /\ Len(SubSeq(l.entries, 1, n)) = n
    BY <1>0, SliceType
  <2> QED BY <2>1 DEF n
<1>2. (IF kept = <<>> THEN l.snapTerm ELSE kept[Len(kept)].term) \in Int
  <2>1. kept # <<>> => kept[Len(kept)] \in LogEntry
    BY <1>1
  <2> QED BY <2>1, LogFacts DEF LogEntry, Terms
<1> HIDE DEF kept
<1>3. DeleteEntriesFrom(l, i) =
         [l EXCEPT !.entries = kept,
                   !.lastTerm = IF kept = <<>> THEN l.snapTerm ELSE kept[Len(kept)].term]
  BY DEF DeleteEntriesFrom, kept
<1>4. DeleteEntriesFrom(l, i) \in LogRecord
  BY <1>1, <1>2, <1>3, LogFacts DEF LogRecord, Terms
<1>5. /\ DeleteEntriesFrom(l, i).snapIndex = l.snapIndex
      /\ DeleteEntriesFrom(l, i).entries = kept
  BY <1>3 DEF LogRecord
<1> QED BY <1>0, <1>1, <1>4, <1>5, LogFacts DEF LastIndex

\* The truncation of a conflict stays above prevLogIndex, wherever that is.
LEMMA TruncateConflictType ==
    ASSUME NEW l \in LogRecord, NEW prev \in Nat, NEW es \in Seq(LogEntry)
    PROVE  /\ TruncateConflict(l, prev, es) \in LogRecord
           /\ LastIndex(TruncateConflict(l, prev, es)) \in Nat
<1>1. CASE Conflicts(l, prev, es) = {}
  BY <1>1, LogFacts DEF TruncateConflict
<1>2. CASE Conflicts(l, prev, es) # {}
  <2> DEFINE k == CHOOSE j \in Conflicts(l, prev, es) : TRUE
  <2>1. k \in 1 .. Len(es) /\ HasEntry(l, prev + k)
    BY <1>2 DEF Conflicts
  <2>2. TruncateConflict(l, prev, es) = DeleteEntriesFrom(l, prev + k)
    BY <1>2 DEF TruncateConflict
  <2> HIDE DEF k
  <2>3. prev + k \in Int /\ l.snapIndex < prev + k /\ prev + k <= LastIndex(l) + 1
    BY <2>1, LogFacts DEF HasEntry
  <2> QED BY <2>2, <2>3, DeleteEntriesFromType, LogFacts
<1> QED BY <1>1, <1>2

\* A follower's append is a slice of the request on top of the truncated log,
\* provided prevLogIndex matched.
LEMMA AppendEntriesFromType ==
    ASSUME NEW l \in LogRecord, NEW prev \in Nat, NEW t \in Int, NEW es \in Seq(LogEntry),
           MatchesPrevLog(l, prev, t)
    PROVE  AppendEntriesFrom(l, prev, es) \in LogRecord
<1> DEFINE kept == TruncateConflict(l, prev, es)
<1>1. kept \in LogRecord /\ LastIndex(kept) \in Nat
  BY TruncateConflictType
<1>2. prev <= LastIndex(l)
  BY LogFacts DEF MatchesPrevLog, TermAt, HasEntry
<1>3. prev <= LastIndex(kept)
  <2>1. CASE Conflicts(l, prev, es) = {}
    BY <2>1, <1>2 DEF TruncateConflict
  <2>2. CASE Conflicts(l, prev, es) # {}
    <3> DEFINE k == CHOOSE j \in Conflicts(l, prev, es) : TRUE
    <3>1. k \in 1 .. Len(es) /\ HasEntry(l, prev + k)
      BY <2>2 DEF Conflicts
    <3>2. kept = DeleteEntriesFrom(l, prev + k)
      BY <2>2 DEF TruncateConflict
    <3> HIDE DEF k, kept
    <3>3. prev + k \in Int /\ l.snapIndex < prev + k /\ prev + k <= LastIndex(l) + 1
      BY <3>1, LogFacts DEF HasEntry
    <3>4. \A i \in Int : l.snapIndex < i /\ i <= LastIndex(l) + 1 =>
             LastIndex(DeleteEntriesFrom(l, i)) = i - 1
      BY DeleteEntriesFromType
    <3> QED BY <3>1, <3>2, <3>3, <3>4
  <2> QED BY <2>1, <2>2
<1> DEFINE fresh == SubSeq(es, LastIndex(kept) - prev + 1, Len(es))
<1> HIDE DEF kept
<1>4. fresh \in Seq(LogEntry)
  BY <1>1, <1>3, SliceType
<1>5. AppendEntriesFrom(l, prev, es) = AppendEntries(kept, fresh)
  BY DEF AppendEntriesFrom, kept
<1> HIDE DEF fresh
<1> QED BY <1>1, <1>4, <1>5, AppendEntriesType

\* compact keeps a log well formed, also beyond its end.
LEMMA DiscardEntriesUpToType ==
    ASSUME NEW l \in LogRecord, NEW i \in Nat, NEW t \in Int
    PROVE  DiscardEntriesUpTo(l, i, t) \in LogRecord
<1>1. CASE i <= l.snapIndex
  BY <1>1 DEF DiscardEntriesUpTo
<1>2. CASE ~ (i <= l.snapIndex)
  <2> DEFINE m == i - l.snapIndex + 1
  <2>0. m \in Int /\ 1 <= m /\ l.entries \in Seq(LogEntry) /\ Len(l.entries) \in Int
    BY <1>2, LogFacts
  <2> HIDE DEF m
  <2>1. SubSeq(l.entries, m, Len(l.entries)) \in Seq(LogEntry)
    BY <2>0, SliceType
  <2> USE DEF m
  <2> QED BY <1>2, <2>1 DEF DiscardEntriesUpTo, LogRecord, Terms
<1> QED BY <1>1, <1>2

\* So does reopening it (loadAndScan).
LEMMA ReloadType ==
    ASSUME NEW l \in LogRecord
    PROVE  Reload(l) \in LogRecord
<1>1. (IF l.entries = <<>> THEN l.snapTerm ELSE l.entries[Len(l.entries)].term) \in Int
  <2>1. l.entries # <<>> => l.entries[Len(l.entries)] \in LogEntry
    BY LogFacts
  <2> QED BY <2>1, LogFacts DEF LogEntry, Terms
<1> QED BY <1>1 DEF Reload, LogRecord, Terms

\* The conflict hint is a pair of numbers: the run of entries of one term has a
\* first index.
LEMMA ConflictInfoType ==
    ASSUME NEW l \in LogRecord, NEW prev \in Nat
    PROVE  ConflictInfo(l, prev) \in Hint
<1>1. CASE ~ HasEntry(l, prev)
  BY <1>1, LogFacts DEF ConflictInfo, Hint, Terms
<1>2. CASE HasEntry(l, prev)
  <2> DEFINE t == Entry(l, prev).term
  <2> DEFINE Run == {i \in l.snapIndex + 1 .. prev :
                        \A j \in i .. prev : Entry(l, j).term = t}
  <2> DEFINE first == CHOOSE i \in Run : \A j \in Run : i <= j
  <2>1. ConflictInfo(l, prev) = [index |-> first, term |-> t]
    BY <1>2 DEF ConflictInfo
  <2>2. t \in Int
    BY <1>2, TermAtType DEF LogEntry, Terms
  <2>3. Run \subseteq l.snapIndex + 1 .. prev /\ prev \in Run
    BY <1>2, LogFacts DEF HasEntry
  <2>4. Run \in SUBSET Int /\ Run # {}
    BY <2>3, LogFacts
  <2>5. IsFiniteSet(Run)
    <3>1. l.snapIndex + 1 \in Int
      BY LogFacts
    <3>2. IsFiniteSet(l.snapIndex + 1 .. prev)
      BY <3>1, FS_Interval
    <3> QED BY <2>3, <3>2, FS_Subset
  <2> HIDE DEF Run
  <2>6. \E i \in Run : \A j \in Run : i <= j
    BY <2>4, <2>5, MinExists
  <2>7. first \in Run
    BY <2>6
  <2> HIDE DEF first, t
  <2> QED BY <2>1, <2>2, <2>4, <2>7 DEF Hint, Terms
<1> QED BY <1>1, <1>2

\* calculateCommitIndex returns an index of the leader's log, or 0.
LEMMA CalculateCommitIndexType ==
    ASSUME NEW l \in LogRecord, NEW term \in Nat,
           NEW S, NEW voters \in SUBSET S, NEW match \in [S -> Nat]
    PROVE  /\ CalculateCommitIndex(l, term, voters, match) \in Nat
           /\ CalculateCommitIndex(l, term, voters, match) <= LastIndex(l)
<1> DEFINE Held(i) == {v \in voters : match[v] >= i}
<1> DEFINE C == {i \in {LastIndex(l)} \cup {match[v] : v \in voters} :
            /\ i > 0
            /\ TermAt(l, i) = term
            /\ Cardinality(Held(i)) + (IF LastIndex(l) >= i THEN 1 ELSE 0)
                  >= (Cardinality(voters) + 1) \div 2 + 1}
<1>1. CalculateCommitIndex(l, term, voters, match) =
         IF C = {} THEN 0 ELSE CHOOSE i \in C : \A j \in C : j <= i
  BY DEF CalculateCommitIndex
<1>2. C \subseteq 0 .. LastIndex(l)
  <2>1. ASSUME NEW i \in C PROVE i \in 0 .. LastIndex(l)
    <3>1. TermAt(l, i) # NoTerm
      BY DEF NoTerm
    <3>2. i = l.snapIndex \/ HasEntry(l, i)
      BY <3>1 DEF TermAt
    <3>3. i \in Nat
      BY LogFacts
    <3> HIDE DEF C
    <3> QED BY <3>2, <3>3, LogFacts DEF HasEntry
  <2> QED BY <2>1
<1> DEFINE top == CHOOSE i \in C : \A j \in C : j <= i
<1> HIDE DEF C
<1>3. IsFiniteSet(C)
  <2>1. IsFiniteSet(0 .. LastIndex(l))
    BY FS_Interval, LogFacts
  <2> QED BY <1>2, <2>1, FS_Subset
<1>4. C # {} => \E i \in C : \A j \in C : j <= i
  <2>1. C \in SUBSET Int
    BY <1>2, LogFacts
  <2> QED BY <1>3, <2>1, MaxExists
<1>5. C # {} => top \in C
  BY <1>4
<1>6. CalculateCommitIndex(l, term, voters, match) = IF C = {} THEN 0 ELSE top
  BY <1>1
<1> HIDE DEF top
<1>7. C # {} => top \in 0 .. LastIndex(l)
  BY <1>2, <1>5
<1> QED BY <1>6, <1>7, LogFacts

\* A conflict hint never drives nextIndex below 1 (updateNextIndexWithConflict).
LEMMA NextIndexAfterConflictType ==
    ASSUME NEW l \in LogRecord, NEW match \in Nat, NEW index \in Int, NEW term \in Int
    PROVE  NextIndexAfterConflict(l, match, index, term) \in Nat \ {0}
<1> DEFINE Last == IndicesOfTerm(l, term)
<1>1. Last # {} => (CHOOSE i \in Last : TRUE) \in Int
  <2>1. Last \subseteq Int
    BY LogFacts DEF IndicesOfTerm
  <2> HIDE DEF Last
  <2> QED BY <2>1
<1> DEFINE wanted == IF term = 0 \/ Last = {} THEN index ELSE (CHOOSE i \in Last : TRUE) + 1
<1>2. wanted \in Int
  BY <1>1
<1>3. NextIndexAfterConflict(l, match, index, term) = IF wanted <= match THEN match + 1 ELSE wanted
  BY DEF NextIndexAfterConflict
<1> HIDE DEF wanted
<1> QED BY <1>2, <1>3

-----------------------------------------------------------------------------
(* Messages. *)

\* The type field tells which record a message is.
LEMMA MessageKinds ==
    ASSUME NEW m \in Message
    PROVE  /\ m.src \in Server /\ m.dst \in Server /\ m.term \in Nat
           /\ m.type \in {"PreVote", "RequestVote"} => m \in VoteRequest
           /\ m.type \in {"PreVoteResponse", "RequestVoteResponse"} => m \in VoteResponse
           /\ m.type = "AppendEntries" => m \in AppendRequest
           /\ m.type = "AppendEntriesResponse" => m \in AppendReply
           /\ m.type = "InstallSnapshot" => m \in InstallRequest
           /\ m.type = "InstallSnapshotResponse" => m \in InstallReply
BY DEF Message, VoteRequest, VoteResponse, AppendRequest, AppendReply, InstallRequest, InstallReply

\* The network carries messages only.
LEMMA NetworkType ==
    ASSUME msgs \subseteq Message
    PROVE  /\ \A out \in SUBSET Message : Send(out) => msgs' \subseteq Message
           /\ \A m \in msgs, out \in SUBSET Message : Exchange(m, out) => msgs' \subseteq Message
           /\ \A m \in msgs, out \in SUBSET Message : Reply(m, out) => msgs' \subseteq Message
           /\ \A m \in msgs : Discard(m) => msgs' \subseteq Message
<1>1. ASSUME NEW out \in SUBSET Message, Send(out) PROVE msgs' \subseteq Message
  BY <1>1 DEF Send
<1>2. ASSUME NEW m \in msgs, NEW out \in SUBSET Message, Exchange(m, out)
      PROVE  msgs' \subseteq Message
  BY <1>2 DEF Exchange
<1>3. ASSUME NEW m \in msgs, NEW out \in SUBSET Message, Reply(m, out)
      PROVE  msgs' \subseteq Message
  <2>1. (IF m.orphan THEN {} ELSE out) \in SUBSET Message
    OBVIOUS
  <2> QED BY <1>2, <1>3, <2>1 DEF Reply
<1>4. ASSUME NEW m \in msgs, Discard(m) PROVE msgs' \subseteq Message
  BY <1>4 DEF Discard
<1> QED BY <1>1, <1>2, <1>3, <1>4

\* requestVotes and requestPreVotes send well-formed requests.
LEMMA VoteRequestsType ==
    ASSUME TypeOK, NEW n \in Server, NEW type \in {"PreVote", "RequestVote"}, NEW term \in Nat
    PROVE  VoteRequests(n, type, term) \subseteq Message
<1>1. log[n] \in LogRecord
  BY DEF TypeOK, LogTypeOK
<1>2. LastIndex(log[n]) \in Nat /\ log[n].lastTerm \in Int
  BY <1>1, LogFacts
<1>3. ASSUME NEW p \in Server
      PROVE  [type |-> type, src |-> n, dst |-> p, orphan |-> FALSE, term |-> term,
              lastLogIndex |-> LastIndex(log[n]), lastLogTerm |-> log[n].lastTerm] \in Message
  <2> DEFINE last == LastIndex(log[n])
  <2> DEFINE lastTerm == log[n].lastTerm
  <2>1. last \in Nat /\ lastTerm \in Int
    BY <1>2
  <2> HIDE DEF last, lastTerm
  <2>2. [type |-> type, src |-> n, dst |-> p, orphan |-> FALSE, term |-> term,
         lastLogIndex |-> last, lastLogTerm |-> lastTerm] \in VoteRequest
    BY <2>1 DEF VoteRequest, Terms
  <2> QED BY <2>2 DEF Message, last, lastTerm
<1> QED BY <1>3 DEF VoteRequests, Peers

\* A crash of the sender leaves requests what they are.
LEMMA OrphanedType ==
    ASSUME NEW ms \in SUBSET Message, NEW n
    PROVE  Orphaned(n, ms) \subseteq Message
<1>1. ASSUME NEW m \in ms, m.type \in Requests PROVE [m EXCEPT !.orphan = TRUE] \in Message
  <2>1. m \in VoteRequest \/ m \in AppendRequest \/ m \in InstallRequest
    BY <1>1, MessageKinds DEF Requests
  <2>2. CASE m \in VoteRequest
    BY <2>2 DEF VoteRequest, Message
  <2>3. CASE m \in AppendRequest
    BY <2>3 DEF AppendRequest, Message
  <2>4. CASE m \in InstallRequest
    BY <2>4 DEF InstallRequest, Message
  <2> QED BY <2>1, <2>2, <2>3, <2>4
<1> QED BY <1>1 DEF Orphaned

-----------------------------------------------------------------------------
(* Role changes. *)

\* Stepping down keeps the election and leader state typed.
LEMMA BecomeFollowerType ==
    ASSUME TypeOK, NEW n \in Server, NEW term \in Nat, BecomeFollower(n, term)
    PROVE  ElectionTypeOK' /\ LeaderTypeOK'
<1>1. ElectionTypeOK'
  BY DEF TypeOK, ElectionTypeOK, BecomeFollower, VoteIn
<1>2. LeaderTypeOK'
  BY DEF TypeOK, LeaderTypeOK, BecomeFollower
<1> QED BY <1>1, <1>2

\* So does a candidacy.
LEMMA BecomeCandidateType ==
    ASSUME TypeOK, NEW n \in Server, BecomeCandidate(n)
    PROVE  ElectionTypeOK'
BY DEF TypeOK, ElectionTypeOK, BecomeCandidate

\* A new leader sizes LeaderState from its log and appends its no-op.
LEMMA BecomeLeaderType ==
    ASSUME TypeOK, NEW n \in Server, BecomeLeader(n)
    PROVE  /\ role' \in [Server -> {"Follower", "Candidate", "Leader"}]
           /\ LeaderTypeOK'
           /\ log' \in [Server -> LogRecord]
<1>1. log[n] \in LogRecord /\ currentTerm[n] \in Nat
  BY DEF TypeOK, LogTypeOK, ElectionTypeOK
<1>2. InitialNextIndex(log[n]) \in Nat \ {0}
  BY <1>1, LogFacts DEF InitialNextIndex
<1>3. <<[term |-> currentTerm[n], cmd |-> NoOp]>> \in Seq(LogEntry)
  BY <1>1 DEF LogEntry, Terms
<1>4. AppendEntries(log[n], <<[term |-> currentTerm[n], cmd |-> NoOp]>>) \in LogRecord
  BY <1>1, <1>3, AppendEntriesType
<1>5. role' \in [Server -> {"Follower", "Candidate", "Leader"}]
  BY DEF BecomeLeader, TypeOK, ElectionTypeOK
<1>6. LeaderTypeOK'
  BY <1>2 DEF BecomeLeader, TypeOK, LeaderTypeOK
<1>7. log' \in [Server -> LogRecord]
  BY <1>4 DEF BecomeLeader, TypeOK, LogTypeOK
<1> QED BY <1>5, <1>6, <1>7

-----------------------------------------------------------------------------
(* Type correctness. *)

\* The initial state: empty logs and zero counters.
LEMMA InitType == Init => TypeOK
<1> SUFFICES ASSUME Init PROVE TypeOK
  OBVIOUS
<1>1. EmptyLog \in LogRecord
  BY DEF EmptyLog, LogRecord, Terms
<1>2. NoSnapshot \in SnapshotRecord
  BY DEF NoSnapshot, SnapshotRecord, Terms
<1>3. ElectionTypeOK
  BY DEF Init, Started, ElectionTypeOK
<1>4. LeaderTypeOK
  BY DEF Init, Started, LeaderTypeOK
<1>5. LogTypeOK
  BY <1>1, <1>2 DEF Init, Started, LogTypeOK
<1>6. ApplyTypeOK
  BY DEF Init, Started, ApplyTypeOK
<1>7. TaskTypeOK
  BY DEF Init, Started, TaskTypeOK
<1>8. msgs \subseteq Message /\ restarts \in Nat
  BY DEF Init, Started
<1> QED BY <1>3, <1>4, <1>5, <1>6, <1>7, <1>8 DEF TypeOK

\* Pre-votes, votes and their answers.
LEMMA ElectionActionsType ==
    ASSUME TypeOK, NEW n \in Server,
           \/ StartPreVote(n)
           \/ StartElection(n)
           \/ \E m \in msgs : \/ HandlePreVote(n, m)
                              \/ HandlePreVoteResponse(n, m)
                              \/ HandleRequestVote(n, m)
                              \/ HandleRequestVoteResponse(n, m)
    PROVE  TypeOK'
<1>0. /\ currentTerm[n] \in Nat /\ currentTerm[n] + 1 \in Nat
      /\ msgs \subseteq Message
  BY DEF TypeOK, ElectionTypeOK
<1>r. VoteRequests(n, "RequestVote", currentTerm[n] + 1) \subseteq Message
  BY <1>0, VoteRequestsType
<1>1. CASE StartPreVote(n)
  <2>1. VoteRequests(n, "PreVote", currentTerm[n] + 1) \subseteq Message
    BY <1>0, VoteRequestsType
  <2>2. msgs' \subseteq Message
    BY <1>0, <1>1, <2>1, NetworkType DEF StartPreVote
  <2>3. ElectionTypeOK'
    BY <1>1 DEF StartPreVote, TypeOK, ElectionTypeOK
  <2> QED BY <1>1, <2>2, <2>3
      DEF StartPreVote, TypeOK, LeaderTypeOK, LogTypeOK, ApplyTypeOK, TaskTypeOK,
          leaderVars, logVars, applyVars, taskVars
<1>2. CASE StartElection(n)
  <2>1. msgs' \subseteq Message
    BY <1>0, <1>2, <1>r, NetworkType DEF StartElection
  <2>2. ElectionTypeOK'
    BY <1>2, BecomeCandidateType DEF StartElection
  <2> QED BY <1>2, <2>1, <2>2
      DEF StartElection, TypeOK, LeaderTypeOK, LogTypeOK, ApplyTypeOK, TaskTypeOK,
          leaderVars, logVars, applyVars, taskVars
<1>3. ASSUME NEW m \in msgs, HandlePreVote(n, m) PROVE TypeOK'
  <2>1. m \in Message /\ m.src \in Server
    BY <1>0, MessageKinds
  <2>2. \A g \in BOOLEAN : {[type |-> "PreVoteResponse", src |-> n, dst |-> m.src,
                             term |-> currentTerm[n], granted |-> g]} \in SUBSET Message
    BY <1>0, <2>1 DEF Message, VoteResponse
  <2>3. \A b \in BOOLEAN : (/\ m.term >= currentTerm[n]
                            /\ b
                            /\ IsLogUpToDate(log[n], m.lastLogIndex, m.lastLogTerm)) \in BOOLEAN
    OBVIOUS
  <2>4. msgs' \subseteq Message
    BY <1>0, <1>3, <2>2, <2>3, NetworkType DEF HandlePreVote
  <2> QED BY <1>3, <2>4
      DEF HandlePreVote, TypeOK, ElectionTypeOK, LeaderTypeOK, LogTypeOK, ApplyTypeOK, TaskTypeOK,
          electionVars, leaderVars, logVars, applyVars, taskVars
<1>4. ASSUME NEW m \in msgs, HandlePreVoteResponse(n, m) PROVE TypeOK'
  <2>1. m \in Message /\ m.src \in Server /\ m.term \in Nat
    BY <1>0, MessageKinds
  <2>2. msgs' \subseteq Message
    BY <1>0, <1>4, <1>r, NetworkType DEF HandlePreVoteResponse
  <2>3. ElectionTypeOK' /\ LeaderTypeOK'
    <3>1. CASE BecomeFollower(n, m.term)
      BY <2>1, <3>1, BecomeFollowerType
    <3>2. CASE /\ preVotes' = [preVotes EXCEPT ![n] = preVotes[n] \cup {m.src}]
               /\ UNCHANGED <<currentTerm, votedFor, role, votesReceived, leaderVars>>
      BY <2>1, <3>2 DEF TypeOK, ElectionTypeOK, LeaderTypeOK, leaderVars
    <3>3. CASE BecomeCandidate(n) /\ UNCHANGED leaderVars
      BY <3>3, BecomeCandidateType DEF TypeOK, LeaderTypeOK, leaderVars
    <3>4. CASE UNCHANGED <<electionVars, leaderVars>>
      BY <3>4 DEF TypeOK, ElectionTypeOK, LeaderTypeOK, electionVars, leaderVars
    <3> QED BY <1>4, <3>1, <3>2, <3>3, <3>4 DEF HandlePreVoteResponse
  <2> QED BY <1>4, <2>2, <2>3
      DEF HandlePreVoteResponse, TypeOK, LogTypeOK, ApplyTypeOK, TaskTypeOK,
          logVars, applyVars, taskVars
<1>5. ASSUME NEW m \in msgs, HandleRequestVote(n, m) PROVE TypeOK'
  <2>1. m \in Message /\ m.src \in Server /\ m.term \in Nat
    BY <1>0, MessageKinds
  <2> DEFINE newer == m.term > currentTerm[n]
  <2> DEFINE granted == /\ m.term >= currentTerm[n]
                        /\ CanGrantVote(n, m)
                        /\ IsLogUpToDate(log[n], m.lastLogIndex, m.lastLogTerm)
  <2> DEFINE term == IF newer THEN m.term ELSE currentTerm[n]
  <2> DEFINE response == [type |-> "RequestVoteResponse", src |-> n, dst |-> m.src,
                          term |-> term, granted |-> granted]
  <2>2. /\ currentTerm' = [currentTerm EXCEPT ![n] = term]
        /\ votedFor' = [votedFor EXCEPT ![n] = IF granted THEN m.src ELSE VoteIn(n, m.term)]
        /\ IF newer
           THEN /\ role' = [role EXCEPT ![n] = "Follower"]
                /\ votesReceived' = [votesReceived EXCEPT ![n] = {}]
                /\ preVotes' = [preVotes EXCEPT ![n] = {}]
                /\ nextIndex' = [nextIndex EXCEPT ![n] = [p \in Server |-> 1]]
                /\ matchIndex' = [matchIndex EXCEPT ![n] = [p \in Server |-> 0]]
           ELSE UNCHANGED <<role, votesReceived, preVotes, leaderVars>>
        /\ Reply(m, {response})
    BY <1>5 DEF HandleRequestVote
  <2>3. term \in Nat /\ granted \in BOOLEAN
    BY <1>0, <2>1
  <2>4. VoteIn(n, m.term) \in Server \cup {Nil}
    BY DEF VoteIn, TypeOK, ElectionTypeOK
  <2> HIDE DEF granted, newer, term
  <2>5. {response} \in SUBSET Message
    BY <2>1, <2>3 DEF Message, VoteResponse
  <2>6. msgs' \subseteq Message
    BY <1>0, <2>2, <2>5, NetworkType
  <2>7. ElectionTypeOK'
    BY <2>1, <2>2, <2>3, <2>4 DEF TypeOK, ElectionTypeOK
  <2>8. LeaderTypeOK'
    <3>1. \/ UNCHANGED leaderVars
          \/ /\ nextIndex' = [nextIndex EXCEPT ![n] = [p \in Server |-> 1]]
             /\ matchIndex' = [matchIndex EXCEPT ![n] = [p \in Server |-> 0]]
      BY <2>2
    <3>2. CASE UNCHANGED leaderVars
      BY <3>2 DEF TypeOK, LeaderTypeOK, leaderVars
    <3>3. CASE /\ nextIndex' = [nextIndex EXCEPT ![n] = [p \in Server |-> 1]]
               /\ matchIndex' = [matchIndex EXCEPT ![n] = [p \in Server |-> 0]]
      BY <3>3 DEF TypeOK, LeaderTypeOK
    <3> QED BY <3>1, <3>2, <3>3
  <2> QED BY <1>5, <2>6, <2>7, <2>8
      DEF HandleRequestVote, TypeOK, LogTypeOK, ApplyTypeOK, TaskTypeOK,
          logVars, applyVars, taskVars
<1>6. ASSUME NEW m \in msgs, HandleRequestVoteResponse(n, m) PROVE TypeOK'
  <2>1. m \in Message /\ m.src \in Server /\ m.term \in Nat
    BY <1>0, MessageKinds
  <2>2. msgs' \subseteq Message
    BY <1>0, <1>6, NetworkType DEF HandleRequestVoteResponse
  <2>3. ElectionTypeOK' /\ LeaderTypeOK' /\ log' \in [Server -> LogRecord]
    <3>1. CASE BecomeFollower(n, m.term) /\ UNCHANGED log
      BY <2>1, <3>1, BecomeFollowerType DEF TypeOK, LogTypeOK
    <3>2. CASE /\ votesReceived' = [votesReceived EXCEPT ![n] = votesReceived[n] \cup {m.src}]
               /\ BecomeLeader(n) \/ UNCHANGED <<role, leaderVars, log>>
               /\ UNCHANGED <<currentTerm, votedFor, preVotes>>
      <4>1. /\ role' \in [Server -> {"Follower", "Candidate", "Leader"}]
            /\ LeaderTypeOK' /\ log' \in [Server -> LogRecord]
        BY <3>2, BecomeLeaderType
        DEF TypeOK, ElectionTypeOK, LeaderTypeOK, LogTypeOK, leaderVars
      <4>2. votesReceived' \in [Server -> SUBSET Server]
        BY <2>1, <3>2 DEF TypeOK, ElectionTypeOK
      <4> QED BY <3>2, <4>1, <4>2 DEF TypeOK, ElectionTypeOK
    <3>3. CASE UNCHANGED <<electionVars, leaderVars, log>>
      BY <3>3 DEF TypeOK, ElectionTypeOK, LeaderTypeOK, LogTypeOK, electionVars, leaderVars
    <3> QED BY <1>6, <3>1, <3>2, <3>3 DEF HandleRequestVoteResponse
  <2> QED BY <1>6, <2>2, <2>3
      DEF HandleRequestVoteResponse, TypeOK, LogTypeOK, ApplyTypeOK, TaskTypeOK,
          applyVars, taskVars
<1> QED BY <1>1, <1>2, <1>3, <1>4, <1>5, <1>6

\* sendAppendEntries reads only entries the log holds.
LEMMA AppendRequestType ==
    ASSUME TypeOK, NEW n \in Server, NEW p \in Server,
           NEW to \in Int, to <= LastIndex(log[n]),
           nextIndex[n][p] > LastIndex(log[n]) \/ nextIndex[n][p] > log[n].snapIndex
    PROVE  AppendEntriesRequest(n, p, to) \in Message
<1> DEFINE next == nextIndex[n][p]
<1> DEFINE l == log[n]
<1> DEFINE es == IF next > LastIndex(l) THEN <<>> ELSE Entries(l, next, to)
<1> DEFINE t == OrZero(TermAt(l, next - 1))
<1>1. l \in LogRecord /\ currentTerm[n] \in Nat /\ commitIndex[n] \in Nat /\ next \in Nat \ {0}
  BY DEF TypeOK, ElectionTypeOK, LeaderTypeOK, LogTypeOK, ApplyTypeOK
<1> HIDE DEF next
<1>2. t \in Int
  BY <1>1, TermAtType DEF OrZero
<1>3. es \in Seq(LogEntry)
  <2>1. CASE next > LastIndex(l)
    BY <2>1
  <2>2. CASE ~ (next > LastIndex(l))
    <3>1. next > l.snapIndex
      BY <2>2 DEF next
    <3> DEFINE a == next - l.snapIndex
    <3> DEFINE b == to - l.snapIndex
    <3>2. /\ a \in Int /\ b \in Int /\ 1 <= a /\ b <= Len(l.entries)
          /\ l.entries \in Seq(LogEntry)
      BY SMTT(30), <1>1, <3>1, LogFacts
    <3>3. es = SubSeq(l.entries, a, b)
      BY <2>2 DEF Entries
    <3> HIDE DEF a, b, es
    <3> QED BY <3>2, <3>3, SliceType
  <2> QED BY <2>1, <2>2
<1> HIDE DEF es, t
<1>4. [type |-> "AppendEntries", src |-> n, dst |-> p, orphan |-> FALSE,
       term |-> currentTerm[n], prevLogIndex |-> next - 1, prevLogTerm |-> t,
       entries |-> es, leaderCommit |-> commitIndex[n]] \in AppendRequest
  BY <1>1, <1>2, <1>3 DEF AppendRequest, Terms
<1> QED BY <1>4 DEF Message, AppendEntriesRequest, es, t, next

\* handleAppendEntries answers with a well-formed reply.
LEMMA AppendResponseType ==
    ASSUME NEW n \in Server, NEW m, m.src \in Server, NEW term \in Nat, NEW success \in BOOLEAN,
           NEW match \in Nat, NEW conflict \in Hint
    PROVE  AppendResponse(n, m, term, success, match, conflict) \in Message
BY DEF AppendResponse, AppendReply, Message

\* Submitting, replicating, and their answers.
LEMMA ReplicationActionsType ==
    ASSUME TypeOK, NEW n \in Server,
           \/ \E c \in Command : SubmitCommand(n, c)
           \/ \E p \in Peers(n) : SendAppendEntries(n, p)
           \/ \E m \in msgs : \/ HandleAppendEntries(n, m)
                              \/ HandleAppendEntriesResponse(n, m)
    PROVE  TypeOK'
<1>0. /\ currentTerm[n] \in Nat /\ commitIndex[n] \in Nat
      /\ log[n] \in LogRecord
      /\ nextIndex[n] \in [Server -> Nat \ {0}] /\ matchIndex[n] \in [Server -> Nat]
      /\ msgs \subseteq Message
  BY DEF TypeOK, ElectionTypeOK, ApplyTypeOK, LogTypeOK, LeaderTypeOK
<1>1. ASSUME NEW c \in Command, SubmitCommand(n, c) PROVE TypeOK'
  <2>1. <<[term |-> currentTerm[n], cmd |-> c]>> \in Seq(LogEntry)
    BY <1>0 DEF LogEntry, Terms
  <2>2. AppendEntries(log[n], <<[term |-> currentTerm[n], cmd |-> c]>>) \in LogRecord
    BY <1>0, <2>1, AppendEntriesType
  <2>3. LogTypeOK'
    BY <1>1, <2>2 DEF SubmitCommand, TypeOK, LogTypeOK
  <2> QED BY <1>1, <2>3
      DEF SubmitCommand, TypeOK, ElectionTypeOK, LeaderTypeOK, ApplyTypeOK, TaskTypeOK,
          electionVars, leaderVars, applyVars, taskVars
<1>2. ASSUME NEW p \in Peers(n), SendAppendEntries(n, p) PROVE TypeOK'
  <2>0. p \in Server
    BY DEF Peers
  <2> DEFINE next == nextIndex[n][p]
  <2> DEFINE last == LastIndex(log[n])
  <2>1. next \in Nat \ {0} /\ last \in Nat
    BY <1>0, <2>0, LogFacts
  <2>2. msgs' \subseteq Message
    <3>1. CASE UNCHANGED msgs
      BY <1>0, <3>1
    <3>2. CASE ~ UNCHANGED msgs
      <4>1. PICK to \in IF next > last THEN {last}
                        ELSE next .. LesserOf(last, next + MaxBatch - 1) :
               Send({AppendEntriesRequest(n, p, to)})
        BY <1>2, <3>2 DEF SendAppendEntries
      <4>2. next > last \/ next > log[n].snapIndex
        BY <1>2, <3>2 DEF SendAppendEntries
      <4>3. to \in Int /\ to <= last
        BY <2>1, <4>1, BoundAssumption DEF LesserOf
      <4>4. AppendEntriesRequest(n, p, to) \in Message
        BY <2>0, <4>2, <4>3, AppendRequestType
      <4> QED BY <1>0, <4>1, <4>4, NetworkType
    <3> QED BY <3>1, <3>2
  <2>3. sendingSnapshot' \in [Server -> SUBSET Server]
    BY <1>2, <2>0 DEF SendAppendEntries, TypeOK, TaskTypeOK
  <2> QED BY <1>2, <2>2, <2>3
      DEF SendAppendEntries, TypeOK, ElectionTypeOK, LeaderTypeOK, LogTypeOK, ApplyTypeOK,
          TaskTypeOK, electionVars, leaderVars, logVars, applyVars
<1>3. ASSUME NEW m \in msgs, HandleAppendEntries(n, m) PROVE TypeOK'
  <2>1. m \in AppendRequest /\ m.src \in Server /\ m.term \in Nat
    BY <1>0, <1>3, MessageKinds DEF HandleAppendEntries
  <2>2. /\ m.prevLogIndex \in Nat /\ m.prevLogTerm \in Int
        /\ m.entries \in Seq(LogEntry) /\ m.leaderCommit \in Nat
    BY <2>1 DEF AppendRequest, Terms
  <2> DEFINE last == m.prevLogIndex + Len(m.entries)
  <2> DEFINE newCommit == LesserOf(m.leaderCommit, last)
  <2>3. last \in Nat /\ newCommit \in Nat
    BY <2>2 DEF LesserOf
  <2>4. CASE m.term < currentTerm[n]
    <3>1. AppendResponse(n, m, currentTerm[n], FALSE, 0, NoConflict) \in Message
      <4>1. NoConflict \in Hint
        BY DEF NoConflict, Hint, Terms
      <4> QED BY <1>0, <2>1, <4>1, AppendResponseType
    <3>2. /\ Reply(m, {AppendResponse(n, m, currentTerm[n], FALSE, 0, NoConflict)})
          /\ UNCHANGED <<electionVars, leaderVars, log, commitIndex>>
          /\ UNCHANGED <<snapshot, lastApplied, app, taskVars, restarts>>
      BY <1>0, <1>3, <2>1, <2>4 DEF HandleAppendEntries
    <3>3. msgs' \subseteq Message
      BY <1>0, <3>1, <3>2, NetworkType
    <3> QED BY <3>2, <3>3
        DEF TypeOK, ElectionTypeOK, LeaderTypeOK, LogTypeOK, ApplyTypeOK, TaskTypeOK,
            electionVars, leaderVars, taskVars
  <2>5. CASE m.term >= currentTerm[n]
    <3>1. /\ BecomeFollower(n, m.term)
          /\ UNCHANGED <<snapshot, lastApplied, app, taskVars, restarts>>
      BY <1>0, <1>3, <2>1, <2>5 DEF HandleAppendEntries
    <3>2. ElectionTypeOK' /\ LeaderTypeOK'
      BY <2>1, <3>1, BecomeFollowerType
    <3>3. log' \in [Server -> LogRecord] /\ commitIndex' \in [Server -> Nat] /\ msgs' \subseteq Message
      <4>1. CASE MatchesPrevLog(log[n], m.prevLogIndex, m.prevLogTerm)
        <5>1. /\ log' = [log EXCEPT ![n] = AppendEntriesFrom(log[n], m.prevLogIndex, m.entries)]
              /\ \/ commitIndex' = [commitIndex EXCEPT ![n] = SetCommitIndex(commitIndex[n], newCommit)]
                 \/ commitIndex' = [commitIndex EXCEPT ![n] = commitIndex[n]]
              /\ \/ Reply(m, {})
                 \/ Reply(m, {AppendResponse(n, m, m.term, TRUE, last, NoConflict)})
          BY <1>0, <1>3, <2>1, <2>5, <4>1 DEF HandleAppendEntries
        <5>2. AppendEntriesFrom(log[n], m.prevLogIndex, m.entries) \in LogRecord
          BY <1>0, <2>2, <4>1, AppendEntriesFromType
        <5>3. SetCommitIndex(commitIndex[n], newCommit) \in Nat
          BY <1>0, <2>3 DEF SetCommitIndex
        <5>4. AppendResponse(n, m, m.term, TRUE, last, NoConflict) \in Message
          <6>1. NoConflict \in Hint
            BY DEF NoConflict, Hint, Terms
          <6> QED BY <2>1, <2>3, <6>1, AppendResponseType
        <5>5. msgs' \subseteq Message
          BY <1>0, <5>1, <5>4, NetworkType
        <5> HIDE DEF newCommit
        <5>6. commitIndex' \in [Server -> Nat]
          BY <1>0, <5>1, <5>3 DEF TypeOK, ApplyTypeOK
        <5>7. log' \in [Server -> LogRecord]
          BY <5>1, <5>2 DEF TypeOK, LogTypeOK
        <5> QED BY <5>5, <5>6, <5>7
      <4>2. CASE ~ MatchesPrevLog(log[n], m.prevLogIndex, m.prevLogTerm)
        <5>1. /\ Reply(m, {AppendResponse(n, m, m.term, FALSE, 0,
                                          ConflictInfo(log[n], m.prevLogIndex))})
              /\ UNCHANGED <<log, commitIndex>>
          BY <1>0, <1>3, <2>1, <2>5, <4>2 DEF HandleAppendEntries
        <5>2. ConflictInfo(log[n], m.prevLogIndex) \in Hint
          BY <1>0, <2>2, ConflictInfoType
        <5>3. AppendResponse(n, m, m.term, FALSE, 0, ConflictInfo(log[n], m.prevLogIndex)) \in Message
          BY <2>1, <5>2, AppendResponseType
        <5>4. msgs' \subseteq Message
          BY <1>0, <5>1, <5>3, NetworkType
        <5> QED BY <5>1, <5>4 DEF TypeOK, LogTypeOK, ApplyTypeOK
      <4> QED BY <4>1, <4>2
    <3> QED BY <3>1, <3>2, <3>3
        DEF TypeOK, LogTypeOK, ApplyTypeOK, TaskTypeOK, taskVars
  <2> QED BY <1>0, <2>1, <2>4, <2>5
<1>4. ASSUME NEW m \in msgs, HandleAppendEntriesResponse(n, m) PROVE TypeOK'
  <2>1. /\ m \in AppendReply /\ m.src \in Server /\ m.term \in Nat
        /\ m.matchIndex \in Nat /\ m.conflict.index \in Int /\ m.conflict.term \in Int
    <3>1. m \in AppendReply /\ m.src \in Server /\ m.term \in Nat
      BY <1>0, <1>4, MessageKinds DEF HandleAppendEntriesResponse
    <3> QED BY <3>1 DEF AppendReply, Hint, Terms
  <2>2. msgs' \subseteq Message
    BY <1>0, <1>4, NetworkType DEF HandleAppendEntriesResponse
  <2>3. ElectionTypeOK' /\ LeaderTypeOK' /\ commitIndex' \in [Server -> Nat]
    <3>1. CASE BecomeFollower(n, m.term) /\ UNCHANGED commitIndex
      BY <2>1, <3>1, BecomeFollowerType DEF TypeOK, ApplyTypeOK
    <3>2. CASE UNCHANGED <<electionVars, leaderVars, commitIndex>>
      BY <3>2 DEF TypeOK, ElectionTypeOK, LeaderTypeOK, ApplyTypeOK, electionVars, leaderVars
    <3> DEFINE ahead == m.matchIndex > matchIndex[n][m.src]
    <3> DEFINE match == [matchIndex[n] EXCEPT ![m.src] = IF ahead THEN m.matchIndex ELSE matchIndex[n][m.src]]
    <3> DEFINE newCommit == CalculateCommitIndex(log[n], currentTerm[n], Peers(n), match)
    <3>3. CASE /\ matchIndex' = [matchIndex EXCEPT ![n] = match]
               /\ nextIndex' = [nextIndex EXCEPT ![n][m.src] =
                                   IF ahead THEN m.matchIndex + 1 ELSE nextIndex[n][m.src]]
               /\ commitIndex' = [commitIndex EXCEPT ![n] =
                                     IF newCommit > commitIndex[n] THEN newCommit ELSE commitIndex[n]]
               /\ UNCHANGED electionVars
      <4>1. match \in [Server -> Nat]
        BY <1>0, <2>1
      <4>2. newCommit \in Nat
        <5> HIDE DEF match
        <5>1. Peers(n) \in SUBSET Server
          BY DEF Peers
        <5> QED BY <1>0, <4>1, <5>1, CalculateCommitIndexType
      <4> HIDE DEF match, newCommit
      <4>3. commitIndex' \in [Server -> Nat]
        BY <1>0, <3>3, <4>2 DEF TypeOK, ApplyTypeOK
      <4>4. LeaderTypeOK'
        <5> DEFINE next == IF ahead THEN m.matchIndex + 1 ELSE nextIndex[n][m.src]
        <5>1. next \in Nat \ {0}
          BY <1>0, <2>1
        <5> HIDE DEF next, ahead
        <5>2. nextIndex' = [nextIndex EXCEPT ![n][m.src] = next]
          BY <3>3 DEF next
        <5>3. nextIndex' \in [Server -> [Server -> Nat \ {0}]]
          BY <2>1, <5>1, <5>2 DEF TypeOK, LeaderTypeOK
        <5>4. matchIndex' \in [Server -> [Server -> Nat]]
          BY <3>3, <4>1 DEF TypeOK, LeaderTypeOK
        <5> QED BY <5>3, <5>4 DEF LeaderTypeOK
      <4> QED BY <3>3, <4>3, <4>4 DEF TypeOK, ElectionTypeOK, electionVars
    <3> DEFINE next ==
          IF m.conflict = NoConflict
          THEN IF nextIndex[n][m.src] - 1 > matchIndex[n][m.src] THEN nextIndex[n][m.src] - 1
               ELSE matchIndex[n][m.src] + 1
          ELSE NextIndexAfterConflict(log[n], matchIndex[n][m.src], m.conflict.index, m.conflict.term)
    <3>4. CASE /\ nextIndex' = [nextIndex EXCEPT ![n][m.src] = next]
               /\ UNCHANGED <<electionVars, matchIndex, commitIndex>>
      <4>1. nextIndex[n][m.src] \in Nat /\ matchIndex[n][m.src] \in Nat
        BY <1>0, <2>1
      <4>2. next \in Nat \ {0}
        BY <1>0, <2>1, <4>1, NextIndexAfterConflictType
      <4> HIDE DEF next
      <4>3. LeaderTypeOK'
        BY <1>0, <2>1, <3>4, <4>2 DEF TypeOK, LeaderTypeOK
      <4> QED BY <3>4, <4>3 DEF TypeOK, ElectionTypeOK, ApplyTypeOK, electionVars
    <3> QED BY <1>4, <3>1, <3>2, <3>3, <3>4 DEF HandleAppendEntriesResponse
  <2> QED BY <1>4, <2>2, <2>3
      DEF HandleAppendEntriesResponse, TypeOK, LogTypeOK, ApplyTypeOK, TaskTypeOK,
          logVars, taskVars
<1> QED BY <1>1, <1>2, <1>3, <1>4

\* Applying the log, taking, sending and installing snapshots.
LEMMA SnapshotActionsType ==
    ASSUME TypeOK, NEW n \in Server,
           \/ \E p \in Peers(n) : SendSnapshot(n, p)
           \/ ApplyNext(n) \/ SaveSnapshot(n) \/ CompactLog(n) \/ InstallSnapshot(n)
           \/ \E m \in msgs : ReceiveSnapshot(n, m) \/ HandleInstallSnapshotResponse(n, m)
    PROVE  TypeOK'
<1>0. /\ currentTerm[n] \in Nat /\ commitIndex[n] \in Nat /\ lastApplied[n] \in Nat
      /\ log[n] \in LogRecord /\ snapshot[n] \in SnapshotRecord /\ app[n] \in Seq(Command)
      /\ installing[n] \in InstallRequest \cup {Nil}
      /\ msgs \subseteq Message
  BY DEF TypeOK, ElectionTypeOK, ApplyTypeOK, LogTypeOK, TaskTypeOK
<1>1. ASSUME NEW p \in Peers(n), SendSnapshot(n, p) PROVE TypeOK'
  <2>1. [type |-> "InstallSnapshot", src |-> n, dst |-> p, orphan |-> FALSE,
         term |-> currentTerm[n], snapshot |-> snapshot[n]] \in InstallRequest
    BY <1>0 DEF InstallRequest, Peers
  <2>2. msgs' \subseteq Message
    <3>1. {[type |-> "InstallSnapshot", src |-> n, dst |-> p, orphan |-> FALSE,
            term |-> currentTerm[n], snapshot |-> snapshot[n]]} \in SUBSET Message
      BY <2>1 DEF Message
    <3> QED BY <1>0, <1>1, <3>1, NetworkType DEF SendSnapshot
  <2>3. sendingSnapshot' \in [Server -> SUBSET Server]
    BY <1>1 DEF SendSnapshot, TypeOK, TaskTypeOK
  <2> QED BY <1>1, <2>2, <2>3
      DEF SendSnapshot, TypeOK, ElectionTypeOK, LeaderTypeOK, LogTypeOK, ApplyTypeOK,
          TaskTypeOK, electionVars, leaderVars, logVars, applyVars
<1>2. CASE ApplyNext(n)
  <2> DEFINE next == lastApplied[n] + 1
  <2>1. /\ lastApplied' \in [Server -> Nat] /\ app' \in [Server -> Seq(Command)]
        /\ snapshotting' \in [Server -> {"no", "save", "compact"}]
    <3>1. CASE /\ lastApplied' = [lastApplied EXCEPT ![n] = log[n].snapIndex]
               /\ UNCHANGED <<app, snapshotting>>
      BY <1>0, <3>1, LogFacts DEF TypeOK, ApplyTypeOK, TaskTypeOK
    <3>2. CASE /\ HasEntry(log[n], next)
               /\ LET cmd == Entry(log[n], next).cmd
                  IN app' = [app EXCEPT ![n] = IF cmd = NoOp THEN app[n] ELSE Append(app[n], cmd)]
               /\ lastApplied' = [lastApplied EXCEPT ![n] = next]
               /\ snapshotting' = [snapshotting EXCEPT ![n] =
                     IF next - snapshot[n].index >= SnapshotThreshold THEN "save"
                     ELSE snapshotting[n]]
      <4>1. Entry(log[n], next) \in LogEntry
        BY <1>0, <3>2, TermAtType
      <4> DEFINE cmd == Entry(log[n], next).cmd
      <4>2. cmd \in Command \cup {NoOp}
        BY <4>1 DEF LogEntry
      <4> HIDE DEF cmd
      <4>3. (IF cmd = NoOp THEN app[n] ELSE Append(app[n], cmd)) \in Seq(Command)
        BY <1>0, <4>2
      <4>4. app' = [app EXCEPT ![n] = IF cmd = NoOp THEN app[n] ELSE Append(app[n], cmd)]
        BY <3>2 DEF cmd
      <4>5. app' \in [Server -> Seq(Command)]
        BY <4>3, <4>4 DEF TypeOK, ApplyTypeOK
      <4> QED BY <1>0, <3>2, <4>5 DEF TypeOK, ApplyTypeOK, TaskTypeOK
    <3> QED BY <1>2, <3>1, <3>2 DEF ApplyNext
  <2> QED BY <1>2, <2>1
      DEF ApplyNext, TypeOK, ElectionTypeOK, LeaderTypeOK, LogTypeOK, ApplyTypeOK, TaskTypeOK,
          electionVars, leaderVars, logVars
<1>3. CASE SaveSnapshot(n)
  <2>1. [index |-> lastApplied[n], term |-> TermAt(log[n], lastApplied[n]), data |-> app[n]]
            \in SnapshotRecord
    <3>1. TermAt(log[n], lastApplied[n]) \in Int
      BY <1>0, TermAtType
    <3> QED BY <1>0, <3>1 DEF SnapshotRecord, Terms
  <2>2. snapshot' \in [Server -> SnapshotRecord]
    BY <1>3, <2>1 DEF SaveSnapshot, TypeOK, LogTypeOK
  <2> QED BY <1>3, <2>2
      DEF SaveSnapshot, TypeOK, ElectionTypeOK, LeaderTypeOK, LogTypeOK, ApplyTypeOK, TaskTypeOK,
          electionVars, leaderVars, applyVars
<1>4. CASE CompactLog(n)
  <2>1. DiscardEntriesUpTo(log[n], lastApplied[n], TermAt(log[n], lastApplied[n])) \in LogRecord
    <3>1. TermAt(log[n], lastApplied[n]) \in Int
      BY <1>0, TermAtType
    <3> QED BY <1>0, <3>1, DiscardEntriesUpToType
  <2>2. log' \in [Server -> LogRecord]
    BY <1>4, <2>1 DEF CompactLog, TypeOK, LogTypeOK
  <2> QED BY <1>4, <2>2
      DEF CompactLog, TypeOK, ElectionTypeOK, LeaderTypeOK, LogTypeOK, ApplyTypeOK, TaskTypeOK,
          electionVars, leaderVars, applyVars
<1>5. CASE InstallSnapshot(n)
  <2> DEFINE m == installing[n]
  <2> DEFINE s == m.snapshot
  <2>1. m \in InstallRequest
    BY <1>0, <1>5 DEF InstallSnapshot, Unlocked
  <2>2. /\ m.src \in Server
        /\ s.index \in Nat /\ s.term \in Int /\ s.data \in Seq(Command)
    BY <2>1 DEF InstallRequest, SnapshotRecord, Terms
  <2> HIDE DEF m
  <2>3. log' \in [Server -> LogRecord]
    <3>1. DiscardEntriesUpTo(log[n], s.index, s.term) \in LogRecord
      BY <1>0, <2>2, DiscardEntriesUpToType
    <3>2. ResetToSnapshot(s.index, s.term) \in LogRecord
      BY <2>2 DEF ResetToSnapshot, LogRecord, Terms
    <3>3. \/ log' = [log EXCEPT ![n] = DiscardEntriesUpTo(log[n], s.index, s.term)]
          \/ log' = [log EXCEPT ![n] = ResetToSnapshot(s.index, s.term)]
      BY <1>5 DEF InstallSnapshot, m
    <3> QED BY <3>1, <3>2, <3>3 DEF TypeOK, LogTypeOK
  <2>4. ApplyTypeOK'
    <3>1. SetCommitIndex(commitIndex[n], s.index) \in Nat
      BY <1>0, <2>2 DEF SetCommitIndex
    <3>2. /\ app' = [app EXCEPT ![n] = s.data]
          /\ commitIndex' = [commitIndex EXCEPT ![n] = SetCommitIndex(commitIndex[n], s.index)]
          /\ \/ lastApplied' = [lastApplied EXCEPT ![n] = lastApplied[n]]
             \/ lastApplied' = [lastApplied EXCEPT ![n] = s.index]
      BY <1>5 DEF InstallSnapshot, m
    <3> QED BY <1>0, <2>2, <3>1, <3>2 DEF TypeOK, ApplyTypeOK
  <2>5. msgs' \subseteq Message
    <3> DEFINE r == [type |-> "InstallSnapshotResponse", src |-> n, dst |-> m.src,
                     term |-> currentTerm[n], success |-> TRUE, index |-> s.index]
    <3>1. r \in Message
      BY <1>0, <2>2 DEF Message, InstallReply
    <3>2. Send({}) \/ Send({r})
      BY <1>5 DEF InstallSnapshot, m
    <3> HIDE DEF r
    <3>3. {} \in SUBSET Message /\ {r} \in SUBSET Message
      BY <3>1
    <3> QED BY <1>0, <3>2, <3>3, NetworkType
  <2>6. installing' \in [Server -> InstallRequest \cup {Nil}]
    BY <1>5 DEF InstallSnapshot, TypeOK, TaskTypeOK
  <2> QED BY <1>5, <2>3, <2>4, <2>5, <2>6
      DEF InstallSnapshot, TypeOK, ElectionTypeOK, LeaderTypeOK, LogTypeOK, TaskTypeOK,
          electionVars, leaderVars
<1>6. ASSUME NEW m \in msgs, ReceiveSnapshot(n, m) PROVE TypeOK'
  <2>1. m \in InstallRequest /\ m.src \in Server /\ m.term \in Nat
    BY <1>0, <1>6, MessageKinds DEF ReceiveSnapshot
  <2>2. m.snapshot \in SnapshotRecord /\ m.snapshot.index \in Nat
    BY <2>1 DEF InstallRequest, SnapshotRecord
  <2>3. msgs' \subseteq Message
    <3> DEFINE r == [type |-> "InstallSnapshotResponse", src |-> n, dst |-> m.src,
                     term |-> currentTerm[n], success |-> FALSE, index |-> m.snapshot.index]
    <3>1. r \in Message
      BY <1>0, <2>1, <2>2 DEF Message, InstallReply
    <3>2. Reply(m, {r}) \/ Exchange(m, {})
      BY <1>6 DEF ReceiveSnapshot
    <3> HIDE DEF r
    <3>3. {} \in SUBSET Message /\ {r} \in SUBSET Message
      BY <3>1
    <3> QED BY <1>0, <3>2, <3>3, NetworkType
  <2>4. ElectionTypeOK' /\ LeaderTypeOK'
    <3>1. CASE BecomeFollower(n, m.term)
      BY <2>1, <3>1, BecomeFollowerType
    <3>2. CASE UNCHANGED <<electionVars, leaderVars>>
      BY <3>2 DEF TypeOK, ElectionTypeOK, LeaderTypeOK, electionVars, leaderVars
    <3> QED BY <1>6, <3>1, <3>2 DEF ReceiveSnapshot
  <2>5. snapshot' \in [Server -> SnapshotRecord] /\ installing' \in [Server -> InstallRequest \cup {Nil}]
    BY <1>6, <2>1, <2>2 DEF ReceiveSnapshot, TypeOK, LogTypeOK, TaskTypeOK
  <2> QED BY <1>6, <2>3, <2>4, <2>5
      DEF ReceiveSnapshot, TypeOK, LogTypeOK, ApplyTypeOK, TaskTypeOK, applyVars
<1>7. ASSUME NEW m \in msgs, HandleInstallSnapshotResponse(n, m) PROVE TypeOK'
  <2>1. m \in InstallReply /\ m.src \in Server /\ m.term \in Nat
    BY <1>0, <1>7, MessageKinds DEF HandleInstallSnapshotResponse
  <2>2. m.index \in Nat
    BY <2>1 DEF InstallReply
  <2>3. msgs' \subseteq Message
    BY <1>0, <1>7, NetworkType DEF HandleInstallSnapshotResponse
  <2>4. ElectionTypeOK' /\ LeaderTypeOK'
    <3>1. CASE BecomeFollower(n, m.term)
      BY <2>1, <3>1, BecomeFollowerType
    <3>2. CASE UNCHANGED <<electionVars, leaderVars>>
      BY <3>2 DEF TypeOK, ElectionTypeOK, LeaderTypeOK, electionVars, leaderVars
    <3>3. CASE /\ matchIndex' = [matchIndex EXCEPT ![n][m.src] = m.index]
               /\ nextIndex' = [nextIndex EXCEPT ![n][m.src] = m.index + 1]
               /\ UNCHANGED electionVars
      <4>1. m.index + 1 \in Nat \ {0}
        BY <2>2
      <4>2. LeaderTypeOK'
        BY <2>1, <2>2, <3>3, <4>1 DEF TypeOK, LeaderTypeOK
      <4> QED BY <3>3, <4>2 DEF TypeOK, ElectionTypeOK, electionVars
    <3> QED BY <1>7, <3>1, <3>2, <3>3 DEF HandleInstallSnapshotResponse
  <2> QED BY <1>7, <2>3, <2>4
      DEF HandleInstallSnapshotResponse, TypeOK, LogTypeOK, ApplyTypeOK, TaskTypeOK,
          logVars, applyVars, taskVars
<1> QED BY <1>1, <1>2, <1>3, <1>4, <1>5, <1>6, <1>7

\* A restart rebuilds typed volatile state from what is on disk.
LEMMA RebootType ==
    ASSUME TypeOK, NEW n \in Server, NEW l \in LogRecord, Reboot(n, l)
    PROVE  /\ role' \in [Server -> {"Follower", "Candidate", "Leader"}]
           /\ votesReceived' \in [Server -> SUBSET Server]
           /\ preVotes' \in [Server -> SUBSET Server]
           /\ LeaderTypeOK' /\ ApplyTypeOK' /\ TaskTypeOK'
           /\ log' \in [Server -> LogRecord]
           /\ restarts' \in Nat
<1>1. Reload(l) \in LogRecord
  BY ReloadType
<1>2. /\ role' \in [Server -> {"Follower", "Candidate", "Leader"}]
      /\ votesReceived' \in [Server -> SUBSET Server]
      /\ preVotes' \in [Server -> SUBSET Server]
  BY DEF Reboot, TypeOK, ElectionTypeOK
<1>3. LeaderTypeOK'
  BY DEF Reboot, TypeOK, LeaderTypeOK
<1>4. ApplyTypeOK'
  <2>1. snapshot[n].index \in Nat /\ snapshot[n].data \in Seq(Command)
    BY DEF TypeOK, LogTypeOK, SnapshotRecord
  <2> QED BY <2>1 DEF Reboot, TypeOK, ApplyTypeOK
<1>5. TaskTypeOK'
  BY DEF Reboot, TypeOK, TaskTypeOK
<1>6. log' \in [Server -> LogRecord]
  BY <1>1 DEF Reboot, TypeOK, LogTypeOK
<1>7. restarts' \in Nat
  BY DEF Reboot, TypeOK
<1> QED BY <1>2, <1>3, <1>4, <1>5, <1>6, <1>7

\* The two crashes: between handlers and inside handleAppendEntries.
LEMMA CrashActionsType ==
    ASSUME TypeOK, NEW n \in Server,
           Restart(n) \/ \E m \in msgs : CrashAfterTruncate(n, m)
    PROVE  TypeOK'
<1>0. log[n] \in LogRecord /\ currentTerm[n] \in Nat /\ msgs \subseteq Message
  BY DEF TypeOK, LogTypeOK, ElectionTypeOK
<1>1. CASE Restart(n)
  <2>1. msgs' \subseteq Message
    BY <1>0, <1>1, OrphanedType DEF Restart
  <2>2. ElectionTypeOK' /\ LogTypeOK'
    BY <1>0, <1>1, RebootType DEF Restart, TypeOK, ElectionTypeOK, LogTypeOK
  <2> QED BY <1>0, <1>1, <2>1, <2>2, RebootType DEF Restart, TypeOK
<1>2. ASSUME NEW m \in msgs, CrashAfterTruncate(n, m) PROVE TypeOK'
  <2>1. m \in AppendRequest /\ m.term \in Nat
    BY <1>0, <1>2, MessageKinds DEF CrashAfterTruncate
  <2>2. m.prevLogIndex \in Nat /\ m.entries \in Seq(LogEntry)
    BY <2>1 DEF AppendRequest
  <2> DEFINE l == TruncateConflict(log[n], m.prevLogIndex, m.entries)
  <2>3. l \in LogRecord /\ Reboot(n, l)
    BY <1>0, <1>2, <2>2, TruncateConflictType DEF CrashAfterTruncate
  <2> HIDE DEF l
  <2>4. msgs' \subseteq Message
    <3>1. msgs \ {m} \in SUBSET Message
      BY <1>0
    <3> QED BY <1>2, <3>1, OrphanedType DEF CrashAfterTruncate
  <2>5. currentTerm' \in [Server -> Nat] /\ votedFor' \in [Server -> Server \cup {Nil}]
    BY <1>2, <2>1 DEF CrashAfterTruncate, VoteIn, TypeOK, ElectionTypeOK
  <2>6. ElectionTypeOK' /\ LogTypeOK'
    BY <1>2, <2>3, <2>5, RebootType DEF CrashAfterTruncate, TypeOK, ElectionTypeOK, LogTypeOK
  <2> QED BY <2>3, <2>4, <2>6, RebootType DEF TypeOK
<1> QED BY <1>1, <1>2

\* Every step keeps the types.
LEMMA NextType == TypeOK /\ [Next]_vars => TypeOK'
<1> SUFFICES ASSUME TypeOK, [Next]_vars PROVE TypeOK'
  OBVIOUS
<1>1. CASE UNCHANGED vars
  BY <1>1 DEF vars, electionVars, leaderVars, logVars, applyVars, taskVars, TypeOK,
              ElectionTypeOK, LeaderTypeOK, LogTypeOK, ApplyTypeOK, TaskTypeOK
<1>2. ASSUME NEW n \in Server, Step(n) PROVE TypeOK'
  BY <1>2, ElectionActionsType, ReplicationActionsType, SnapshotActionsType, CrashActionsType
  DEF Step, Receive
<1> QED BY <1>1, <1>2 DEF Next

\* The types hold in every reachable state, for every instance.
THEOREM TypeCorrect == Spec => []TypeOK
BY InitType, NextType, PTL DEF Spec

-----------------------------------------------------------------------------
(* Elections.  Most steps are quiet: they cast no vote and count none. *)

VoteKept ==
    \A c \in Server :
        /\ currentTerm'[c] >= currentTerm[c]
        /\ currentTerm'[c] = currentTerm[c] /\ votedFor[c] # Nil => votedFor'[c] = votedFor[c]

VotesOnlyDropped ==
    \A c \in Server : \/ votesReceived'[c] = {}
                      \/ votesReceived'[c] = votesReceived[c] /\ currentTerm'[c] = currentTerm[c]

NoNewLeader ==
    \A c \in Server : role'[c] = "Leader" =>
        role[c] = "Leader" /\ votesReceived'[c] = votesReceived[c]

NoNewGrant == GrantsIn(msgs') \subseteq GrantsIn(msgs)

Quiet == VoteKept /\ VotesOnlyDropped /\ NoNewLeader /\ NoNewGrant

\* Messages other than granted votes, sent or dropped, add no vote.
LEMMA NetworkGrants ==
    /\ \A out : Send(out) /\ GrantsIn(out) = {} => NoNewGrant
    /\ \A m, out : Exchange(m, out) /\ m \in msgs /\ GrantsIn(out) = {} => NoNewGrant
    /\ \A m, out : Reply(m, out) /\ m \in msgs /\ GrantsIn(out) = {} => NoNewGrant
    /\ \A m : Discard(m) => NoNewGrant
<1>1. ASSUME NEW out, Send(out), GrantsIn(out) = {} PROVE NoNewGrant
  BY <1>1 DEF Send, GrantsIn, NoNewGrant
<1>2. ASSUME NEW m, NEW out, Exchange(m, out), m \in msgs, GrantsIn(out) = {} PROVE NoNewGrant
  <2>1. PICK kept \in SUBSET out, left \in {{m}, {}} : msgs' = (msgs \ {m}) \cup left \cup kept
    BY <1>2 DEF Exchange
  <2>2. GrantsIn(kept) = {}
    BY <1>2 DEF GrantsIn
  <2>3. msgs' \subseteq msgs \cup kept
    BY <1>2, <2>1
  <2> QED BY <2>2, <2>3 DEF GrantsIn, NoNewGrant
<1>3. ASSUME NEW m, NEW out, Reply(m, out), m \in msgs, GrantsIn(out) = {} PROVE NoNewGrant
  <2>1. GrantsIn({}) = {}
    BY DEF GrantsIn
  <2>2. Exchange(m, {}) \/ Exchange(m, out)
    BY <1>3 DEF Reply
  <2> QED BY <1>2, <1>3, <2>1, <2>2
<1>4. ASSUME NEW m, Discard(m) PROVE NoNewGrant
  BY <1>4 DEF Discard, GrantsIn, NoNewGrant
<1> QED BY <1>1, <1>2, <1>3, <1>4

\* A single message that is not a vote is no grant.
LEMMA NotAGrant ==
    ASSUME NEW m, m.type # "RequestVoteResponse" \/ m.granted = FALSE
    PROVE  GrantsIn({m}) = {}
BY DEF GrantsIn

\* Vote requests are no granted votes.
LEMMA VoteRequestsGrants ==
    ASSUME NEW n, NEW type \in {"PreVote", "RequestVote"}, NEW term
    PROVE  GrantsIn(VoteRequests(n, type, term)) = {}
BY DEF GrantsIn, VoteRequests

\* A crash adds no granted vote to the network.
LEMMA OrphanedGrants ==
    ASSUME NEW n, NEW ms \in SUBSET msgs, msgs' = Orphaned(n, ms)
    PROVE  NoNewGrant
<1>1. ASSUME NEW m \in msgs', m.type = "RequestVoteResponse" PROVE m \in msgs
  <2>1. PICK x \in ms : m = IF x.type \in Requests /\ x.src = n THEN [x EXCEPT !.orphan = TRUE] ELSE x
    BY DEF Orphaned
  <2>2. CASE x.type \in Requests /\ x.src = n
    <3>1. m.type = x.type
      BY <2>1, <2>2
    <3> QED BY <1>1, <2>2, <3>1 DEF Requests
  <2>3. CASE ~ (x.type \in Requests /\ x.src = n)
    BY <2>1, <2>3
  <2> QED BY <2>2, <2>3
<1> QED BY <1>1 DEF NoNewGrant, GrantsIn

\* A step that changes nothing an election depends on.
LEMMA QuietFrame ==
    ASSUME TypeOK, UNCHANGED <<currentTerm, votedFor, role, votesReceived>>, NoNewGrant
    PROVE  Quiet
<1>1. \A c \in Server : currentTerm[c] \in Nat
  BY DEF TypeOK, ElectionTypeOK
<1> QED BY <1>1 DEF Quiet, VoteKept, VotesOnlyDropped, NoNewLeader

\* Stepping down.
LEMMA QuietFollower ==
    ASSUME TypeOK, NEW n \in Server, NEW term \in Nat, BecomeFollower(n, term), NoNewGrant
    PROVE  Quiet
<1>1. VoteKept
  BY DEF BecomeFollower, VoteIn, VoteKept, TypeOK, ElectionTypeOK
<1>2. VotesOnlyDropped
  <2>1. votesReceived'[n] = {}
    BY DEF BecomeFollower, TypeOK, ElectionTypeOK
  <2>2. \A c \in Server : c # n => /\ votesReceived'[c] = votesReceived[c]
                                   /\ currentTerm'[c] = currentTerm[c]
    BY DEF BecomeFollower, TypeOK, ElectionTypeOK
  <2> SUFFICES ASSUME NEW c \in Server
               PROVE  \/ votesReceived'[c] = {}
                      \/ votesReceived'[c] = votesReceived[c] /\ currentTerm'[c] = currentTerm[c]
    BY DEF VotesOnlyDropped
  <2> QED BY <2>1, <2>2
<1>3. NoNewLeader
  BY DEF BecomeFollower, NoNewLeader, TypeOK, ElectionTypeOK
<1> QED BY <1>1, <1>2, <1>3 DEF Quiet

\* Restarting.
LEMMA QuietReboot ==
    ASSUME TypeOK, NEW n \in Server, NEW l, NEW term \in Nat, Reboot(n, l), NoNewGrant,
           term >= currentTerm[n],
           currentTerm' = [currentTerm EXCEPT ![n] = term],
           votedFor' = [votedFor EXCEPT ![n] = VoteIn(n, term)]
    PROVE  Quiet
<1>1. VoteKept
  BY DEF VoteIn, VoteKept, TypeOK, ElectionTypeOK
<1>2. VotesOnlyDropped
  <2>1. votesReceived'[n] = {}
    BY DEF Reboot, TypeOK, ElectionTypeOK
  <2>2. \A c \in Server : c # n => /\ votesReceived'[c] = votesReceived[c]
                                   /\ currentTerm'[c] = currentTerm[c]
    BY DEF Reboot, TypeOK, ElectionTypeOK
  <2> SUFFICES ASSUME NEW c \in Server
               PROVE  \/ votesReceived'[c] = {}
                      \/ votesReceived'[c] = votesReceived[c] /\ currentTerm'[c] = currentTerm[c]
    BY DEF VotesOnlyDropped
  <2> QED BY <2>1, <2>2
<1>3. NoNewLeader
  BY DEF Reboot, NoNewLeader, TypeOK, ElectionTypeOK
<1> QED BY <1>1, <1>2, <1>3 DEF Quiet

\* Every step is quiet, starts a candidacy, answers a vote request or counts a vote.
LEMMA StepKinds ==
    ASSUME TypeOK, NEW n \in Server, Step(n)
    PROVE  \/ Quiet
           \/ BecomeCandidate(n) /\ NoNewGrant
           \/ \E m \in msgs : HandleRequestVote(n, m)
           \/ \E m \in msgs : HandleRequestVoteResponse(n, m) /\ CountsVote(n, m)
                               /\ ~ (m.term > currentTerm[n])
<1>0. msgs \subseteq Message
  BY DEF TypeOK
<1>a. GrantsIn({}) = {}
  BY DEF GrantsIn
<1>1. CASE StartPreVote(n)
  <2>1. NoNewGrant
    BY <1>1, NetworkGrants, VoteRequestsGrants DEF StartPreVote
  <2> QED BY <1>1, <2>1, QuietFrame DEF StartPreVote
<1>2. CASE StartElection(n)
  BY <1>2, NetworkGrants, VoteRequestsGrants DEF StartElection
<1>3. ASSUME NEW c \in Command, SubmitCommand(n, c) PROVE Quiet
  <2>1. NoNewGrant
    BY <1>3 DEF SubmitCommand, NoNewGrant
  <2> QED BY <1>3, <2>1, QuietFrame DEF SubmitCommand, electionVars
<1>4. ASSUME NEW p \in Peers(n), SendAppendEntries(n, p) PROVE Quiet
  <2>1. \A to : GrantsIn({AppendEntriesRequest(n, p, to)}) = {}
    <3>1. \A to : AppendEntriesRequest(n, p, to).type = "AppendEntries"
      BY DEF AppendEntriesRequest
    <3> QED BY <3>1, NotAGrant
  <2>2. NoNewGrant
    <3>1. CASE UNCHANGED msgs
      BY <3>1 DEF NoNewGrant
    <3>2. CASE ~ UNCHANGED msgs
      <4>1. \E to : Send({AppendEntriesRequest(n, p, to)})
        BY <1>4, <3>2 DEF SendAppendEntries
      <4> QED BY <2>1, <4>1, NetworkGrants
    <3> QED BY <3>1, <3>2
  <2> QED BY <1>4, <2>2, QuietFrame DEF SendAppendEntries, electionVars
<1>5. ASSUME NEW p \in Peers(n), SendSnapshot(n, p) PROVE Quiet
  <2> DEFINE m == [type |-> "InstallSnapshot", src |-> n, dst |-> p, orphan |-> FALSE,
                   term |-> currentTerm[n], snapshot |-> snapshot[n]]
  <2>1. GrantsIn({m}) = {}
    BY NotAGrant
  <2>2. Send({m})
    BY <1>5 DEF SendSnapshot
  <2> HIDE DEF m
  <2>3. NoNewGrant
    BY <2>1, <2>2, NetworkGrants
  <2> QED BY <1>5, <2>3, QuietFrame DEF SendSnapshot, electionVars
<1>6. ASSUME ApplyNext(n) \/ SaveSnapshot(n) \/ CompactLog(n) PROVE Quiet
  <2>1. UNCHANGED <<electionVars, msgs>>
    BY <1>6 DEF ApplyNext, SaveSnapshot, CompactLog
  <2>2. NoNewGrant
    BY <2>1 DEF NoNewGrant
  <2> QED BY <2>1, <2>2, QuietFrame DEF electionVars
<1>7. CASE InstallSnapshot(n)
  <2> DEFINE s == installing[n].snapshot
  <2> DEFINE r == [type |-> "InstallSnapshotResponse", src |-> n, dst |-> installing[n].src,
                   term |-> currentTerm[n], success |-> TRUE, index |-> s.index]
  <2>1. GrantsIn({r}) = {}
    BY NotAGrant
  <2>2. Send({}) \/ Send({r})
    BY <1>7 DEF InstallSnapshot
  <2> HIDE DEF r
  <2>3. NoNewGrant
    BY <1>a, <2>1, <2>2, NetworkGrants
  <2> QED BY <1>7, <2>3, QuietFrame DEF InstallSnapshot, electionVars
<1>8. CASE Restart(n)
  <2>1. NoNewGrant
    BY <1>8, OrphanedGrants DEF Restart
  <2>2. /\ currentTerm[n] \in Nat
        /\ currentTerm = [currentTerm EXCEPT ![n] = currentTerm[n]]
        /\ votedFor = [votedFor EXCEPT ![n] = VoteIn(n, currentTerm[n])]
    BY DEF VoteIn, TypeOK, ElectionTypeOK
  <2> QED BY <1>8, <2>1, <2>2, QuietReboot DEF Restart
<1>9. ASSUME NEW m \in msgs, HandlePreVote(n, m) PROVE Quiet
  <2> DEFINE r(b) == [type |-> "PreVoteResponse", src |-> n, dst |-> m.src, term |-> currentTerm[n],
                      granted |-> /\ m.term >= currentTerm[n]
                                  /\ b
                                  /\ IsLogUpToDate(log[n], m.lastLogIndex, m.lastLogTerm)]
  <2>1. \A b : GrantsIn({r(b)}) = {}
    <3>1. \A b : r(b).type = "PreVoteResponse"
      OBVIOUS
    <3> HIDE DEF r
    <3> QED BY <3>1, NotAGrant
  <2>2. \E b \in BOOLEAN : Reply(m, {r(b)})
    BY <1>9 DEF HandlePreVote
  <2> HIDE DEF r
  <2>3. NoNewGrant
    BY <2>1, <2>2, NetworkGrants
  <2> QED BY <1>9, <2>3, QuietFrame DEF HandlePreVote, electionVars
<1>10. ASSUME NEW m \in msgs, HandlePreVoteResponse(n, m)
       PROVE  Quiet \/ (BecomeCandidate(n) /\ NoNewGrant)
  <2>1. m.term \in Nat
    BY <1>0, MessageKinds
  <2>2. NoNewGrant
    BY <1>10, NetworkGrants, VoteRequestsGrants DEF HandlePreVoteResponse
  <2>3. \/ BecomeFollower(n, m.term)
        \/ BecomeCandidate(n)
        \/ UNCHANGED <<currentTerm, votedFor, role, votesReceived>>
    BY <1>10 DEF HandlePreVoteResponse, electionVars
  <2> QED BY <2>1, <2>2, <2>3, QuietFollower, QuietFrame
<1>11. ASSUME NEW m \in msgs, HandleRequestVoteResponse(n, m),
              m.term > currentTerm[n] \/ ~ CountsVote(n, m)
       PROVE  Quiet
  <2>1. m.term \in Nat /\ currentTerm[n] \in Nat
    BY <1>0, MessageKinds DEF TypeOK, ElectionTypeOK
  <2>2. NoNewGrant
    BY <1>11, NetworkGrants DEF HandleRequestVoteResponse
  <2>3. \/ BecomeFollower(n, m.term)
        \/ UNCHANGED <<currentTerm, votedFor, role, votesReceived>>
    BY <1>11, <2>1 DEF HandleRequestVoteResponse, CountsVote, electionVars
  <2> QED BY <2>1, <2>2, <2>3, QuietFollower, QuietFrame
<1>12. ASSUME NEW m \in msgs, HandleAppendEntries(n, m) PROVE Quiet
  <2>1. m.term \in Nat
    BY <1>0, MessageKinds
  <2>2. \A term, success, match, conflict :
           GrantsIn({AppendResponse(n, m, term, success, match, conflict)}) = {}
    <3>1. \A term, success, match, conflict :
             AppendResponse(n, m, term, success, match, conflict).type = "AppendEntriesResponse"
      BY DEF AppendResponse
    <3> QED BY <3>1, NotAGrant
  <2>3. \/ Reply(m, {})
        \/ \E term, success, match, conflict :
              Reply(m, {AppendResponse(n, m, term, success, match, conflict)})
    BY <1>12 DEF HandleAppendEntries
  <2>4. NoNewGrant
    BY <1>a, <2>2, <2>3, NetworkGrants
  <2>5. BecomeFollower(n, m.term) \/ UNCHANGED <<currentTerm, votedFor, role, votesReceived>>
    BY <1>12 DEF HandleAppendEntries, electionVars
  <2> QED BY <2>1, <2>4, <2>5, QuietFollower, QuietFrame
<1>13. ASSUME NEW m \in msgs, HandleAppendEntriesResponse(n, m) \/ HandleInstallSnapshotResponse(n, m)
       PROVE  Quiet
  <2>1. m.term \in Nat
    BY <1>0, MessageKinds
  <2>2. NoNewGrant
    BY <1>13, NetworkGrants DEF HandleAppendEntriesResponse, HandleInstallSnapshotResponse
  <2>3. BecomeFollower(n, m.term) \/ UNCHANGED <<currentTerm, votedFor, role, votesReceived>>
    BY <1>13 DEF HandleAppendEntriesResponse, HandleInstallSnapshotResponse, electionVars
  <2> QED BY <2>1, <2>2, <2>3, QuietFollower, QuietFrame
<1>14. ASSUME NEW m \in msgs, ReceiveSnapshot(n, m) PROVE Quiet
  <2>1. m.term \in Nat
    BY <1>0, MessageKinds
  <2> DEFINE r == [type |-> "InstallSnapshotResponse", src |-> n, dst |-> m.src,
                   term |-> currentTerm[n], success |-> FALSE, index |-> m.snapshot.index]
  <2>2. GrantsIn({r}) = {}
    BY NotAGrant
  <2>3. Reply(m, {r}) \/ Exchange(m, {})
    BY <1>14 DEF ReceiveSnapshot
  <2> HIDE DEF r
  <2>4. NoNewGrant
    BY <1>a, <2>2, <2>3, NetworkGrants
  <2>5. BecomeFollower(n, m.term) \/ UNCHANGED <<currentTerm, votedFor, role, votesReceived>>
    BY <1>14 DEF ReceiveSnapshot, electionVars
  <2> QED BY <2>1, <2>4, <2>5, QuietFollower, QuietFrame
<1>15. ASSUME NEW m \in msgs, CrashAfterTruncate(n, m) PROVE Quiet
  <2>1. m.term \in Nat
    BY <1>0, MessageKinds
  <2>2. NoNewGrant
    <3>1. msgs \ {m} \in SUBSET msgs
      OBVIOUS
    <3> QED BY <1>15, <3>1, OrphanedGrants DEF CrashAfterTruncate
  <2> QED BY <1>15, <2>1, <2>2, QuietReboot DEF CrashAfterTruncate
<1> QED BY <1>1, <1>2, <1>3, <1>4, <1>5, <1>6, <1>7, <1>8, <1>9, <1>10, <1>11, <1>12, <1>13,
           <1>14, <1>15
    DEF Step, Receive


\* A vote this very step casts, or confirms, without contradicting an earlier one.
JustCast(g) ==
    /\ currentTerm'[g.voter] = g.term
    /\ votedFor'[g.voter] = g.candidate
    /\ currentTerm[g.voter] < g.term \/ votedFor[g.voter] \in {Nil, g.candidate}

\* The vote g is n's answer to the request m of an up-to-date candidate.
Answers(g, n, m) ==
    /\ m.type = "RequestVote"
    /\ g.voter = n /\ g.candidate = m.src /\ g.term = m.term
    /\ IsLogUpToDate(log[n], m.lastLogIndex, m.lastLogTerm)

\* A vote given is between two nodes and in a term.
LEMMA VotesGivenType ==
    ASSUME TypeOK, NEW g \in VotesGiven
    PROVE  g.voter \in Server /\ g.candidate \in Server /\ g.term \in Nat
<1>1. CASE g \in VotesInFlight
  <2>1. PICK m \in msgs : g = [voter |-> m.src, candidate |-> m.dst, term |-> m.term]
    BY <1>1 DEF VotesInFlight, GrantsIn
  <2>2. m \in Message
    BY DEF TypeOK
  <2> QED BY <2>1, <2>2, MessageKinds
<1>2. ASSUME NEW c \in Server, g \in VotesCounted(c)
      PROVE  g.voter \in Server /\ g.candidate \in Server /\ g.term \in Nat
  BY <1>2 DEF VotesCounted, TypeOK, ElectionTypeOK
<1> QED BY <1>1, <1>2 DEF VotesGiven

\* Votes stay cast and unique when a step adds only votes that it casts.
LEMMA VotesStay ==
    ASSUME TypeOK, TypeOK', VotesAreCast, OneVotePerTerm, VoteKept,
           \A g \in VotesGiven' : g \in VotesGiven \/ JustCast(g)
    PROVE  VotesAreCast' /\ OneVotePerTerm'
<1>1. \A g \in VotesGiven : g.voter \in Server /\ g.candidate \in Server /\ g.term \in Nat
  BY VotesGivenType
<1>2. \A v \in Server : currentTerm[v] \in Nat /\ currentTerm'[v] \in Nat
  BY DEF TypeOK, ElectionTypeOK
<1>3. VotesAreCast'
  <2> SUFFICES ASSUME NEW g \in VotesGiven'
               PROVE  \/ currentTerm'[g.voter] > g.term
                      \/ currentTerm'[g.voter] = g.term /\ votedFor'[g.voter] = g.candidate
    BY DEF VotesAreCast
  <2>1. CASE g \in VotesGiven
    <3>1. g.voter \in Server /\ g.candidate # Nil /\ g.term \in Nat
      BY <1>1, <2>1, ServerAssumption
    <3> QED BY <1>2, <2>1, <3>1 DEF VotesAreCast, VoteKept
  <2>2. CASE JustCast(g)
    BY <2>2 DEF JustCast
  <2> QED BY <2>1, <2>2
<1>4. OneVotePerTerm'
  <2> SUFFICES ASSUME NEW g \in VotesGiven', NEW h \in VotesGiven',
                      g.voter = h.voter, g.term = h.term
               PROVE  g.candidate = h.candidate
    BY DEF OneVotePerTerm
  <2>1. ASSUME NEW x \in VotesGiven, NEW y, JustCast(y), x.voter = y.voter, x.term = y.term
        PROVE  x.candidate = y.candidate
    <3>1. x.voter \in Server /\ x.candidate # Nil /\ x.term \in Nat
      BY <1>1, ServerAssumption
    <3>2. currentTerm'[x.voter] = x.term /\ currentTerm'[x.voter] >= currentTerm[x.voter]
      BY <2>1, <3>1 DEF JustCast, VoteKept
    <3>3. currentTerm[x.voter] = x.term /\ votedFor[x.voter] = x.candidate
      BY <1>2, <3>1, <3>2 DEF VotesAreCast
    <3> QED BY <1>2, <2>1, <3>1, <3>3 DEF JustCast
  <2>2. CASE g \in VotesGiven /\ h \in VotesGiven
    BY <2>2 DEF OneVotePerTerm
  <2>3. CASE JustCast(g) /\ JustCast(h)
    BY <2>3 DEF JustCast
  <2>4. CASE g \in VotesGiven /\ JustCast(h)
    BY <2>1, <2>4
  <2>5. CASE h \in VotesGiven /\ JustCast(g)
    BY <2>1, <2>5
  <2> QED BY <2>2, <2>3, <2>4, <2>5
<1> QED BY <1>3, <1>4

\* A vote counted is given, and so is a granted reply.
LEMMA VotesGivenIntro ==
    /\ \A c \in Server : \A v \in votesReceived[c] :
          [voter |-> v, candidate |-> c, term |-> currentTerm[c]] \in VotesGiven
    /\ \A m \in GrantsIn(msgs) :
          [voter |-> m.src, candidate |-> m.dst, term |-> m.term] \in VotesGiven
<1>1. ASSUME NEW c \in Server, NEW v \in votesReceived[c]
      PROVE  [voter |-> v, candidate |-> c, term |-> currentTerm[c]] \in VotesGiven
  <2>1. [voter |-> v, candidate |-> c, term |-> currentTerm[c]] \in VotesCounted(c)
    BY DEF VotesCounted
  <2> QED BY <2>1 DEF VotesGiven
<1> QED BY <1>1 DEF VotesGiven, VotesInFlight

\* After a step, too, a vote given is one or the other.
LEMMA VotesGivenAfter ==
    ASSUME NEW g \in VotesGiven'
    PROVE  \/ \E m \in GrantsIn(msgs') : g = [voter |-> m.src, candidate |-> m.dst, term |-> m.term]
           \/ \E c \in Server : \E v \in votesReceived'[c] :
                 g = [voter |-> v, candidate |-> c, term |-> currentTerm'[c]]
<1>1. CASE g \in VotesInFlight'
  BY <1>1 DEF VotesInFlight
<1>2. ASSUME NEW c \in Server, g \in VotesCounted(c)'
      PROVE  \E v \in votesReceived'[c] : g = [voter |-> v, candidate |-> c, term |-> currentTerm'[c]]
  BY <1>2 DEF VotesCounted
<1>3. g \in VotesInFlight' \/ \E c \in Server : g \in VotesCounted(c)'
  BY DEF VotesGiven
<1> QED BY <1>1, <1>2, <1>3

\* A quiet step gives no vote.
LEMMA QuietVotes ==
    ASSUME VotesOnlyDropped, NoNewGrant
    PROVE  VotesGiven' \subseteq VotesGiven
<1> SUFFICES ASSUME NEW g \in VotesGiven' PROVE g \in VotesGiven
  OBVIOUS
<1>1. CASE \E m \in GrantsIn(msgs') : g = [voter |-> m.src, candidate |-> m.dst, term |-> m.term]
  BY <1>1, VotesGivenIntro DEF NoNewGrant
<1>2. ASSUME NEW c \in Server, NEW v \in votesReceived'[c],
             g = [voter |-> v, candidate |-> c, term |-> currentTerm'[c]]
      PROVE  g \in VotesGiven
  <2>1. votesReceived'[c] = votesReceived[c] /\ currentTerm'[c] = currentTerm[c]
    BY DEF VotesOnlyDropped
  <2> QED BY <1>2, <2>1, VotesGivenIntro
<1> QED BY <1>1, <1>2, VotesGivenAfter

\* A candidacy gives one vote, its own, in a term the node had not reached.
LEMMA CandidacyStep ==
    ASSUME TypeOK, NEW n \in Server, BecomeCandidate(n), NoNewGrant
    PROVE  /\ VoteKept
           /\ \A g \in VotesGiven' :
                 g \in VotesGiven \/ (JustCast(g) /\ g.voter = n /\ g.candidate = n)
           /\ NoNewLeader
<1>0. /\ \A c \in Server : currentTerm[c] \in Nat
      /\ currentTerm'[n] = currentTerm[n] + 1 /\ votedFor'[n] = n /\ role'[n] = "Candidate"
      /\ votesReceived'[n] = {n}
  BY DEF BecomeCandidate, TypeOK, ElectionTypeOK
<1>1. \A c \in Server : c # n => /\ currentTerm'[c] = currentTerm[c] /\ votedFor'[c] = votedFor[c]
                                 /\ role'[c] = role[c] /\ votesReceived'[c] = votesReceived[c]
  BY DEF BecomeCandidate, TypeOK, ElectionTypeOK
<1>2. VoteKept
  BY <1>0, <1>1 DEF VoteKept
<1>3. NoNewLeader
  BY <1>0, <1>1 DEF NoNewLeader
<1>4. ASSUME NEW g \in VotesGiven' PROVE g \in VotesGiven \/ (JustCast(g) /\ g.voter = n /\ g.candidate = n)
  <2>1. CASE \E m \in GrantsIn(msgs') : g = [voter |-> m.src, candidate |-> m.dst, term |-> m.term]
    BY <2>1, VotesGivenIntro DEF NoNewGrant
  <2>2. ASSUME NEW c \in Server, NEW v \in votesReceived'[c],
               g = [voter |-> v, candidate |-> c, term |-> currentTerm'[c]]
        PROVE  g \in VotesGiven \/ (JustCast(g) /\ g.voter = n /\ g.candidate = n)
    <3>1. CASE c = n
      BY <1>0, <2>2, <3>1 DEF JustCast
    <3>2. CASE c # n
      BY <1>1, <2>2, <3>2, VotesGivenIntro
    <3> QED BY <3>1, <3>2
  <2> QED BY <2>1, <2>2, VotesGivenAfter
<1> QED BY <1>2, <1>3, <1>4

\* The only vote a reply may grant is the one the voter has just recorded.
LEMMA VoteRequestStep ==
    ASSUME TypeOK, NEW n \in Server, NEW m \in msgs, HandleRequestVote(n, m)
    PROVE  /\ VoteKept
           /\ \A g \in VotesGiven' : g \in VotesGiven \/ (JustCast(g) /\ Answers(g, n, m))
           /\ NoNewLeader
<1> DEFINE newer == m.term > currentTerm[n]
<1> DEFINE granted == /\ m.term >= currentTerm[n]
                      /\ CanGrantVote(n, m)
                      /\ IsLogUpToDate(log[n], m.lastLogIndex, m.lastLogTerm)
<1> DEFINE term == IF newer THEN m.term ELSE currentTerm[n]
<1> DEFINE vote == IF granted THEN m.src ELSE VoteIn(n, m.term)
<1> DEFINE response == [type |-> "RequestVoteResponse", src |-> n, dst |-> m.src,
                        term |-> term, granted |-> granted]
<1>1. /\ currentTerm' = [currentTerm EXCEPT ![n] = term]
      /\ votedFor' = [votedFor EXCEPT ![n] = vote]
      /\ \/ /\ newer
            /\ role' = [role EXCEPT ![n] = "Follower"]
            /\ votesReceived' = [votesReceived EXCEPT ![n] = {}]
         \/ ~newer /\ UNCHANGED <<role, votesReceived>>
      /\ Reply(m, {response})
  BY DEF HandleRequestVote
<1>2. /\ m.src \in Server /\ m.term \in Nat
      /\ \A c \in Server : currentTerm[c] \in Nat
  <2>1. m \in Message
    BY DEF TypeOK
  <2> QED BY <2>1, MessageKinds DEF TypeOK, ElectionTypeOK
<1>3. /\ term \in Nat /\ term >= currentTerm[n]
      /\ term = currentTerm[n] => ~newer
      /\ granted => term = m.term
      /\ ~newer => VoteIn(n, m.term) = votedFor[n]
      /\ granted => VoteIn(n, m.term) \in {Nil, m.src}
      /\ granted => IsLogUpToDate(log[n], m.lastLogIndex, m.lastLogTerm)
  BY <1>2 DEF CanGrantVote, VoteIn
<1>4. ~newer /\ votedFor[n] # Nil => vote = votedFor[n]
  BY <1>3
<1>5. granted => vote = m.src /\ (currentTerm[n] < term \/ votedFor[n] \in {Nil, m.src})
  <2>1. CASE newer
    BY <1>2, <2>1
  <2>2. CASE ~newer
    BY <1>3, <2>2
  <2> QED BY <2>1, <2>2
<1> HIDE DEF granted, vote, term
<1>6. /\ currentTerm'[n] = term /\ votedFor'[n] = vote
      /\ \A c \in Server : c # n => currentTerm'[c] = currentTerm[c] /\ votedFor'[c] = votedFor[c]
  BY <1>1 DEF TypeOK, ElectionTypeOK
<1>7. VoteKept
  BY <1>2, <1>3, <1>4, <1>6 DEF VoteKept
<1>8. NoNewLeader
  BY <1>1 DEF NoNewLeader, TypeOK, ElectionTypeOK
<1>9. \A c \in Server : \/ votesReceived'[c] = {}
                        \/ votesReceived'[c] = votesReceived[c] /\ currentTerm'[c] = currentTerm[c]
  <2>1. CASE newer /\ votesReceived' = [votesReceived EXCEPT ![n] = {}]
    BY <1>6, <2>1 DEF TypeOK, ElectionTypeOK
  <2>2. CASE ~newer /\ UNCHANGED votesReceived
    BY <1>6, <2>2 DEF term
  <2> QED BY <1>1, <2>1, <2>2
<1>10. \A x \in GrantsIn(msgs') : x \in GrantsIn(msgs) \/ x = response
  <2>1. msgs' \subseteq msgs \cup {response}
    <3>1. Exchange(m, {}) \/ Exchange(m, {response})
      BY <1>1 DEF Reply
    <3> HIDE DEF response
    <3> QED BY <3>1 DEF Exchange
  <2> HIDE DEF response
  <2> QED BY <2>1 DEF GrantsIn
<1>11. ASSUME NEW g \in VotesGiven' PROVE g \in VotesGiven \/ (JustCast(g) /\ Answers(g, n, m))
  <2>1. ASSUME NEW x \in GrantsIn(msgs'), g = [voter |-> x.src, candidate |-> x.dst, term |-> x.term]
        PROVE  g \in VotesGiven \/ (JustCast(g) /\ Answers(g, n, m))
    <3>1. CASE x \in GrantsIn(msgs)
      BY <2>1, <3>1, VotesGivenIntro
    <3>2. CASE x = response
      <4>1. granted
        BY <3>2 DEF GrantsIn
      <4>2. g.voter = n /\ g.candidate = m.src /\ g.term = term
        BY <2>1, <3>2
      <4>3. m.type = "RequestVote"
        BY DEF HandleRequestVote
      <4> QED BY <1>3, <1>5, <1>6, <4>1, <4>2, <4>3 DEF JustCast, Answers
    <3> QED BY <1>10, <3>1, <3>2
  <2>2. ASSUME NEW c \in Server, NEW v \in votesReceived'[c],
               g = [voter |-> v, candidate |-> c, term |-> currentTerm'[c]]
        PROVE  g \in VotesGiven
    BY <1>9, <2>2, VotesGivenIntro
  <2> QED BY <2>1, <2>2, VotesGivenAfter
<1> QED BY <1>7, <1>8, <1>11

\* Counting a vote only moves it from the network to the candidate.
LEMMA CountStep ==
    ASSUME TypeOK, NEW n \in Server, NEW m \in msgs, HandleRequestVoteResponse(n, m),
           CountsVote(n, m), ~ (m.term > currentTerm[n]), LeaderHasQuorum
    PROVE  VoteKept /\ VotesGiven' \subseteq VotesGiven /\ LeaderHasQuorum'
<1> DEFINE voters == votesReceived[n] \cup {m.src}
<1>1. /\ votesReceived' = [votesReceived EXCEPT ![n] = voters]
      /\ UNCHANGED <<currentTerm, votedFor>>
      /\ \/ /\ Cardinality(voters) >= QuorumSize
            /\ role' = [role EXCEPT ![n] = "Leader"]
         \/ UNCHANGED role
      /\ Discard(m) /\ m.dst = n
  BY DEF HandleRequestVoteResponse, BecomeLeader
<1>2. role[n] = "Candidate" /\ m.term = currentTerm[n] /\ m \in GrantsIn(msgs)
  BY DEF CountsVote, GrantsIn, HandleRequestVoteResponse
<1> HIDE DEF voters
<1>3. votesReceived'[n] = voters /\ \A c \in Server : c # n => votesReceived'[c] = votesReceived[c]
  BY <1>1 DEF TypeOK, ElectionTypeOK
<1>4. VoteKept
  <2>1. \A c \in Server : currentTerm[c] \in Nat
    BY DEF TypeOK, ElectionTypeOK
  <2> QED BY <1>1, <2>1 DEF VoteKept
<1>5. ASSUME NEW g \in VotesGiven' PROVE g \in VotesGiven
  <2>1. CASE \E x \in GrantsIn(msgs') : g = [voter |-> x.src, candidate |-> x.dst, term |-> x.term]
    <3>1. NoNewGrant
      BY <1>1, NetworkGrants
    <3> QED BY <2>1, <3>1, VotesGivenIntro DEF NoNewGrant
  <2>2. ASSUME NEW c \in Server, NEW v \in votesReceived'[c],
               g = [voter |-> v, candidate |-> c, term |-> currentTerm'[c]]
        PROVE  g \in VotesGiven
    <3>1. CASE v \in votesReceived[c]
      BY <1>1, <2>2, <3>1, VotesGivenIntro
    <3>2. CASE v \notin votesReceived[c]
      <4>1. c = n /\ v = m.src
        BY <1>3, <3>2 DEF voters
      <4> QED BY <1>1, <1>2, <2>2, <4>1, VotesGivenIntro
    <3> QED BY <3>1, <3>2
  <2> QED BY <2>1, <2>2, VotesGivenAfter
<1>6. LeaderHasQuorum'
  <2> SUFFICES ASSUME NEW c \in Server, role'[c] = "Leader"
               PROVE  Cardinality(votesReceived'[c]) >= QuorumSize
    BY DEF LeaderHasQuorum, QuorumSize
  <2>1. CASE c = n
    BY <1>1, <1>2, <1>3, <2>1
  <2>2. CASE c # n
    <3>1. role[c] = "Leader"
      BY <1>1, <2>2 DEF TypeOK, ElectionTypeOK
    <3> QED BY <1>3, <2>2, <3>1 DEF LeaderHasQuorum
  <2> QED BY <2>1, <2>2
<1> QED BY <1>4, <1>5, <1>6

\* A leader keeps the quorum that elected it.
LEMMA QuorumStays ==
    ASSUME LeaderHasQuorum, NoNewLeader
    PROVE  LeaderHasQuorum'
<1> SUFFICES ASSUME NEW c \in Server, role'[c] = "Leader"
             PROVE  Cardinality(votesReceived'[c]) >= QuorumSize
  BY DEF LeaderHasQuorum, QuorumSize
<1> QED BY DEF LeaderHasQuorum, NoNewLeader

\* Nobody has voted.
LEMMA ElectionInvInit == Init => ElectionInv
<1> SUFFICES ASSUME Init PROVE ElectionInv
  OBVIOUS
<1>1. VotesGiven = {}
  BY DEF Init, Started, VotesGiven, VotesInFlight, VotesCounted, GrantsIn
<1>2. LeaderHasQuorum
  BY DEF Init, Started, LeaderHasQuorum
<1> QED BY <1>1, <1>2 DEF ElectionInv, VotesAreCast, OneVotePerTerm

\* Every step keeps the votes that were cast.
LEMMA VoteKeptNext == TypeOK /\ [Next]_vars => VoteKept
<1> SUFFICES ASSUME TypeOK, [Next]_vars PROVE VoteKept
  OBVIOUS
<1>1. CASE UNCHANGED vars
  <2>1. \A c \in Server : currentTerm[c] \in Nat
    BY DEF TypeOK, ElectionTypeOK
  <2> QED BY <1>1, <2>1 DEF vars, electionVars, VoteKept
<1>2. ASSUME NEW n \in Server, Step(n) PROVE VoteKept
  <2>1. CASE Quiet
    BY <2>1 DEF Quiet
  <2>2. CASE BecomeCandidate(n) /\ NoNewGrant
    BY <2>2, CandidacyStep
  <2>3. ASSUME NEW m \in msgs, HandleRequestVote(n, m) PROVE VoteKept
    BY <2>3, VoteRequestStep
  <2>4. ASSUME NEW m \in msgs, HandleRequestVoteResponse(n, m), CountsVote(n, m),
               ~ (m.term > currentTerm[n])
        PROVE  VoteKept
    <3>1. UNCHANGED <<currentTerm, votedFor>>
      BY <2>4 DEF HandleRequestVoteResponse, electionVars
    <3>2. \A c \in Server : currentTerm[c] \in Nat
      BY DEF TypeOK, ElectionTypeOK
    <3> QED BY <3>1, <3>2 DEF VoteKept
  <2> QED BY <1>2, <2>1, <2>2, <2>3, <2>4, StepKinds
<1> QED BY <1>1, <1>2 DEF Next

\* The election invariant is inductive.
LEMMA ElectionInvNext == TypeOK /\ TypeOK' /\ ElectionInv /\ [Next]_vars => ElectionInv'
<1> SUFFICES ASSUME TypeOK, TypeOK', ElectionInv, [Next]_vars PROVE ElectionInv'
  OBVIOUS
<1>0. VotesAreCast /\ OneVotePerTerm /\ LeaderHasQuorum
  BY DEF ElectionInv
<1>1. VoteKept
  BY VoteKeptNext
<1>2. CASE UNCHANGED vars
  <2>1. VotesOnlyDropped /\ NoNewGrant /\ NoNewLeader
    BY <1>2 DEF vars, electionVars, VotesOnlyDropped, NoNewGrant, NoNewLeader
  <2> QED BY <1>0, <1>1, <2>1, QuietVotes, VotesStay, QuorumStays DEF ElectionInv
<1>3. ASSUME NEW n \in Server, Step(n) PROVE ElectionInv'
  <2>1. CASE Quiet
    BY <1>0, <1>1, <2>1, QuietVotes, VotesStay, QuorumStays DEF ElectionInv, Quiet
  <2>2. CASE BecomeCandidate(n) /\ NoNewGrant
    BY <1>0, <1>1, <2>2, CandidacyStep, VotesStay, QuorumStays DEF ElectionInv
  <2>3. ASSUME NEW m \in msgs, HandleRequestVote(n, m) PROVE ElectionInv'
    BY <1>0, <1>1, <2>3, VoteRequestStep, VotesStay, QuorumStays DEF ElectionInv
  <2>4. ASSUME NEW m \in msgs, HandleRequestVoteResponse(n, m), CountsVote(n, m),
               ~ (m.term > currentTerm[n])
        PROVE  ElectionInv'
    BY <1>0, <1>1, <2>4, CountStep, VotesStay DEF ElectionInv
  <2> QED BY <1>3, <2>1, <2>2, <2>3, <2>4, StepKinds
<1> QED BY <1>2, <1>3 DEF Next

\* Every vote counted or in flight was cast in its term, for one candidate only,
\* and every leader has a quorum of them, in every reachable state.
THEOREM VotesStand == Spec => []ElectionInv
<1>1. TypeOK /\ ElectionInv /\ [Next]_vars => TypeOK' /\ ElectionInv'
  BY NextType, ElectionInvNext
<1>2. Init => TypeOK /\ ElectionInv
  BY InitType, ElectionInvInit
<1> QED BY <1>1, <1>2, PTL DEF Spec

\* Two quorums of Server share a voter, and that voter voted once.
LEMMA QuorumsMeet == TypeOK /\ ElectionInv => ElectionSafety
<1> SUFFICES ASSUME TypeOK, ElectionInv,
                    NEW a \in Server, NEW b \in Server,
                    role[a] = "Leader", role[b] = "Leader", currentTerm[a] = currentTerm[b]
             PROVE  a = b
  BY DEF ElectionSafety
<1>1. /\ votesReceived[a] \in SUBSET Server /\ votesReceived[b] \in SUBSET Server
      /\ Cardinality(votesReceived[a]) >= QuorumSize /\ Cardinality(votesReceived[b]) >= QuorumSize
  BY DEF TypeOK, ElectionTypeOK, ElectionInv, LeaderHasQuorum
<1>2. Cardinality(votesReceived[a]) + Cardinality(votesReceived[b]) > Cardinality(Server)
  <2>1. /\ Cardinality(Server) \in Nat
        /\ Cardinality(votesReceived[a]) \in Nat /\ Cardinality(votesReceived[b]) \in Nat
    BY <1>1, ServerAssumption, FS_CardinalityType, FS_Subset
  <2> QED BY <1>1, <2>1 DEF QuorumSize
<1>3. PICK v \in Server : v \in votesReceived[a] /\ v \in votesReceived[b]
  BY <1>1, <1>2, ServerAssumption, FS_MajoritiesIntersect
<1> DEFINE va == [voter |-> v, candidate |-> a, term |-> currentTerm[a]]
<1> DEFINE vb == [voter |-> v, candidate |-> b, term |-> currentTerm[b]]
<1>4. va \in VotesGiven /\ vb \in VotesGiven
  BY <1>3, VotesGivenIntro
<1>5. va.candidate = vb.candidate
  BY <1>4 DEF ElectionInv, OneVotePerTerm
<1> QED BY <1>5

\* No two nodes ever lead the same term, for any cluster and any number of
\* crashes, losses, re-deliveries and elections.
THEOREM OneLeaderPerTerm == Spec => []ElectionSafety
BY TypeCorrect, VotesStand, QuorumsMeet, PTL

\* No step takes a vote back or lowers a term, a crash included.
THEOREM VotesAreFinal == Spec => VoteIsFinal
<1>1. TypeOK /\ [Next]_vars =>
        [\A n \in Server :
            /\ currentTerm'[n] >= currentTerm[n]
            /\ currentTerm'[n] = currentTerm[n] /\ votedFor[n] # Nil =>
                  votedFor'[n] = votedFor[n]]_vars
  BY VoteKeptNext DEF VoteKept
<1> QED BY <1>1, TypeCorrect, PTL DEF Spec, VoteIsFinal

\* A step that is no crash of n leaves its commitIndex where it was or raises it.
LEMMA CommitStep ==
    ASSUME TypeOK, TypeOK', [Next]_vars, restarts' = restarts, NEW c \in Server
    PROVE  commitIndex'[c] >= commitIndex[c]
<1>0. commitIndex \in [Server -> Nat] /\ restarts \in Nat
  BY DEF TypeOK, ApplyTypeOK
<1>1. CASE UNCHANGED commitIndex
  BY <1>0, <1>1
<1>2. ASSUME NEW n \in Server, NEW v \in Nat, v >= commitIndex[n],
             commitIndex' = [commitIndex EXCEPT ![n] = v]
      PROVE  commitIndex'[c] >= commitIndex[c]
  BY <1>0, <1>2
<1>3. ASSUME NEW n \in Server, Step(n) PROVE commitIndex'[c] >= commitIndex[c]
  <2>1. ASSUME NEW m \in msgs, HandleAppendEntries(n, m)
        PROVE  commitIndex'[c] >= commitIndex[c]
    <3> DEFINE last == m.prevLogIndex + Len(m.entries)
    <3> DEFINE newCommit == LesserOf(m.leaderCommit, last)
    <3>1. m \in AppendRequest
      BY <2>1, MessageKinds DEF TypeOK, HandleAppendEntries
    <3>2. newCommit \in Nat
      BY <3>1 DEF AppendRequest, LesserOf
    <3>3. SetCommitIndex(commitIndex[n], newCommit) \in Nat
          /\ SetCommitIndex(commitIndex[n], newCommit) >= commitIndex[n]
      BY <1>0, <3>2 DEF SetCommitIndex
    <3>4. \/ UNCHANGED commitIndex
          \/ commitIndex' = [commitIndex EXCEPT ![n] = SetCommitIndex(commitIndex[n], newCommit)]
          \/ commitIndex' = [commitIndex EXCEPT ![n] = commitIndex[n]]
      BY <2>1 DEF HandleAppendEntries
    <3> HIDE DEF newCommit
    <3> QED BY <1>0, <1>1, <1>2, <3>3, <3>4
  <2>2. ASSUME NEW m \in msgs, HandleAppendEntriesResponse(n, m)
        PROVE  commitIndex'[c] >= commitIndex[c]
    <3>1. \/ UNCHANGED commitIndex
          \/ \E v : commitIndex' = [commitIndex EXCEPT ![n] = IF v > commitIndex[n] THEN v
                                                             ELSE commitIndex[n]]
      BY <2>2 DEF HandleAppendEntriesResponse
    <3>2. commitIndex' \in [Server -> Nat]
      BY DEF TypeOK, ApplyTypeOK
    <3> QED BY <1>0, <1>1, <3>1, <3>2
  <2>3. CASE InstallSnapshot(n)
    <3> DEFINE i == installing[n].snapshot.index
    <3>1. commitIndex' = [commitIndex EXCEPT ![n] = SetCommitIndex(commitIndex[n], i)]
      BY <2>3 DEF InstallSnapshot
    <3>2. commitIndex' \in [Server -> Nat]
      BY DEF TypeOK, ApplyTypeOK
    <3> HIDE DEF i
    <3> QED BY <1>0, <3>1, <3>2 DEF SetCommitIndex
  <2>4. ~ Restart(n) /\ \A m \in msgs : ~ CrashAfterTruncate(n, m)
    BY <1>0 DEF Restart, CrashAfterTruncate, Reboot
  <2>5. CASE \/ StartPreVote(n) \/ StartElection(n)
             \/ \E d \in Command : SubmitCommand(n, d)
             \/ \E p \in Peers(n) : SendAppendEntries(n, p) \/ SendSnapshot(n, p)
             \/ ApplyNext(n) \/ SaveSnapshot(n) \/ CompactLog(n)
             \/ \E m \in msgs : \/ HandlePreVote(n, m) \/ HandlePreVoteResponse(n, m)
                                \/ HandleRequestVote(n, m) \/ HandleRequestVoteResponse(n, m)
                                \/ ReceiveSnapshot(n, m)
                                \/ HandleInstallSnapshotResponse(n, m)
    <3>1. UNCHANGED commitIndex
      BY <2>5 DEF StartPreVote, StartElection, SubmitCommand, SendAppendEntries, SendSnapshot,
                  ApplyNext, SaveSnapshot, CompactLog, HandlePreVote, HandlePreVoteResponse,
                  HandleRequestVote, HandleRequestVoteResponse, ReceiveSnapshot,
                  HandleInstallSnapshotResponse, applyVars
    <3> QED BY <1>1, <3>1
  <2> QED BY <1>3, <2>1, <2>2, <2>3, <2>4, <2>5 DEF Step, Receive
<1>4. CASE UNCHANGED vars
  BY <1>1, <1>4 DEF vars, applyVars
<1> QED BY <1>3, <1>4 DEF Next

\* A node that does not crash never forgets that an entry is committed, whatever
\* order AppendEntries, their answers and snapshots arrive in.
THEOREM CommitStands == Spec => CommitNeverRegresses
<1>1. TypeOK /\ TypeOK' /\ [Next]_vars =>
        [\A n \in Server : restarts' = restarts => commitIndex'[n] >= commitIndex[n]]_vars
  BY CommitStep
<1> QED BY <1>1, TypeCorrect, PTL DEF Spec, CommitNeverRegresses

-----------------------------------------------------------------------------
(***************************************************************************)
(* Why two logs never disagree on an entry of the same index and term, in  *)
(* any cluster that has not taken a snapshot: with a snapshot they may     *)
(* disagree, as the run raft_snapshot_race shows.  A link is an entry with *)
(* its index and the term before it, wherever it is, in a log or in a      *)
(* request.  The argument:                                                 *)
(*   - every step is of one of six kinds (SafetyKinds), and only a leader  *)
(*     that appends an entry of its own brings a new link (NewLinks);      *)
(*   - links stem from a node that has led their term (LedInv), it alone,  *)
(*     and while it leads it holds every link of its term (LeaderHasAll):  *)
(*     the new one has a new index, so that an index and a term determine  *)
(*     a link (LinksAgree);                                                *)
(*   - a log is a chain of links, hence the theorem, from the last shared  *)
(*     entry down (LinkedMatch).                                           *)
(***************************************************************************)

-----------------------------------------------------------------------------
(* Clusters that take no snapshot, and quorums. *)

\* No node is taking a snapshot: neither does one reach another node then.
NoSnapshots == \A n \in Server : snapshotting[n] = "no"

\* No node has applied as many entries as make it take a snapshot.
FewApplied == \A n \in Server : lastApplied[n] < SnapshotThreshold

\* Below snapshotThreshold applied entries no snapshot is taken: what follows
\* holds of every cluster at least up to then.
THEOREM FewTakeNoSnapshots == Spec /\ []FewApplied => []NoSnapshots
<1>1. Init => NoSnapshots
  BY DEF Init, Started, NoSnapshots
<1>2. TypeOK /\ NoSnapshots /\ FewApplied' /\ [Next]_vars => NoSnapshots'
  <2> SUFFICES ASSUME TypeOK, NoSnapshots, FewApplied', [Next]_vars PROVE NoSnapshots'
    OBVIOUS
  <2>0. /\ lastApplied \in [Server -> Nat] /\ log \in [Server -> LogRecord]
        /\ snapshot \in [Server -> SnapshotRecord]
        /\ snapshotting \in [Server -> {"no", "save", "compact"}]
    BY DEF TypeOK, ApplyTypeOK, LogTypeOK, TaskTypeOK
  <2>1. CASE UNCHANGED vars
    BY <2>1 DEF vars, taskVars, NoSnapshots
  <2>2. ASSUME NEW n \in Server, Step(n) PROVE NoSnapshots'
    <3>1. CASE UNCHANGED snapshotting
      BY <3>1 DEF NoSnapshots
    <3>2. CASE ApplyNext(n)
      <4> DEFINE next == lastApplied[n] + 1
      <4> DEFINE due == next - snapshot[n].index >= SnapshotThreshold
      <4>1. \/ UNCHANGED snapshotting
            \/ /\ lastApplied' = [lastApplied EXCEPT ![n] = next]
               /\ snapshotting' = [snapshotting EXCEPT ![n] = IF due THEN "save" ELSE snapshotting[n]]
        BY <3>2 DEF ApplyNext
      <4>2. ASSUME lastApplied' = [lastApplied EXCEPT ![n] = next] PROVE ~ due
        <5>1. lastApplied'[n] = next /\ lastApplied'[n] < SnapshotThreshold
          BY <2>0, <4>2 DEF FewApplied
        <5>2. lastApplied[n] \in Nat /\ snapshot[n].index \in Nat /\ SnapshotThreshold \in Nat
          BY <2>0, BoundAssumption DEF SnapshotRecord
        <5> QED BY <5>1, <5>2
      <4>3. CASE snapshotting' = [snapshotting EXCEPT ![n] = snapshotting[n]]
        BY <2>0, <4>3 DEF NoSnapshots
      <4> HIDE DEF due, next
      <4> QED BY <3>1, <4>1, <4>2, <4>3
    <3>3. ~ SaveSnapshot(n) /\ ~ CompactLog(n)
      BY DEF SaveSnapshot, CompactLog, NoSnapshots
    <3>4. ASSUME NEW l, Reboot(n, l) PROVE NoSnapshots'
      BY <2>0, <3>4 DEF Reboot, NoSnapshots
    <3>5. CASE Restart(n) \/ \E m \in msgs : CrashAfterTruncate(n, m)
      BY <3>4, <3>5 DEF Restart, CrashAfterTruncate
    <3>6. CASE \/ StartPreVote(n) \/ StartElection(n) \/ InstallSnapshot(n)
               \/ \E d \in Command : SubmitCommand(n, d)
               \/ \E p \in Peers(n) : SendAppendEntries(n, p) \/ SendSnapshot(n, p)
      BY <3>1, <3>6 DEF StartPreVote, StartElection, InstallSnapshot, SubmitCommand,
         SendAppendEntries, SendSnapshot, taskVars
    <3>7. CASE \E m \in msgs : \/ HandlePreVote(n, m) \/ HandlePreVoteResponse(n, m)
                               \/ HandleRequestVote(n, m) \/ HandleRequestVoteResponse(n, m)
                               \/ HandleAppendEntries(n, m) \/ HandleAppendEntriesResponse(n, m)
                               \/ ReceiveSnapshot(n, m) \/ HandleInstallSnapshotResponse(n, m)
      BY <3>1, <3>7 DEF HandlePreVote, HandlePreVoteResponse, HandleRequestVote,
         HandleRequestVoteResponse, HandleAppendEntries, HandleAppendEntriesResponse,
         ReceiveSnapshot, HandleInstallSnapshotResponse, taskVars
    <3> QED BY <2>2, <3>2, <3>3, <3>5, <3>6, <3>7 DEF Step, Receive
  <2> QED BY <2>1, <2>2 DEF Next
<1> QED BY <1>1, <1>2, TypeCorrect, PTL DEF Spec

\* Majorities of the voters: getQuorumSize of them or more.
Quorums == {V \in SUBSET Server : Cardinality(V) >= QuorumSize}

\* Two quorums have a server in common.
LEMMA QuorumsShare ==
    ASSUME NEW V \in Quorums, NEW W \in Quorums
    PROVE  \E v \in Server : v \in V /\ v \in W
<1>1. Cardinality(V) >= QuorumSize /\ Cardinality(W) >= QuorumSize
  BY DEF Quorums
<1>2. V \in SUBSET Server /\ W \in SUBSET Server
  BY DEF Quorums
<1>3. Cardinality(V) \in Nat /\ Cardinality(W) \in Nat /\ Cardinality(Server) \in Nat
  BY <1>2, ServerAssumption, FS_CardinalityType, FS_Subset
<1>4. Cardinality(V) + Cardinality(W) > Cardinality(Server)
  BY <1>1, <1>3 DEF QuorumSize
<1> QED BY <1>2, <1>4, ServerAssumption, FS_MajoritiesIntersect

-----------------------------------------------------------------------------
(* Logs that were never compacted. *)

LastTermOf(es) == IF es = <<>> THEN 0 ELSE es[Len(es)].term

\* A log that starts at index 1 and whose cached tail is the true one.
Whole(l) == l.snapIndex = 0 /\ l.snapTerm = 0 /\ l.lastTerm = LastTermOf(l.entries)

\* Such a log is its entries: an index is a position, a term is an entry's.
LEMMA WholeFacts ==
    ASSUME NEW l \in LogRecord, Whole(l)
    PROVE  /\ LastIndex(l) = Len(l.entries)
           /\ \A i \in Int : HasEntry(l, i) <=> i \in 1 .. Len(l.entries)
           /\ \A i \in Int : Entry(l, i) = l.entries[i]
           /\ TermAt(l, 0) = 0
           /\ \A i \in 1 .. Len(l.entries) : TermAt(l, i) = l.entries[i].term
           /\ \A i \in Int : i > Len(l.entries) => TermAt(l, i) = NoTerm
<1>1. /\ l.snapIndex = 0 /\ l.snapTerm = 0 /\ Len(l.entries) \in Nat
      /\ LastIndex(l) = l.snapIndex + Len(l.entries)
  BY LogFacts DEF Whole
<1>2. LastIndex(l) = Len(l.entries)
  BY <1>1
<1>3. \A i \in Int : HasEntry(l, i) <=> i \in 1 .. Len(l.entries)
  BY <1>1, <1>2 DEF HasEntry
<1>4. \A i \in Int : Entry(l, i) = l.entries[i]
  BY <1>1 DEF Entry
<1> QED BY <1>1, <1>2, <1>3, <1>4 DEF TermAt

\* Appending one entry.
LEMMA WholeAppend ==
    ASSUME NEW l \in LogRecord, Whole(l), NEW e \in LogEntry
    PROVE  /\ Whole(AppendEntries(l, <<e>>))
           /\ AppendEntries(l, <<e>>).entries = Append(l.entries, e)
<1>1. l.entries \in Seq(LogEntry)
  BY LogFacts
<1>2. l.entries \o <<e>> = Append(l.entries, e)
  BY <1>1
<1>3. <<e>> # <<>> /\ Len(<<e>>) = 1 /\ <<e>>[1] = e
  OBVIOUS
<1>4. AppendEntries(l, <<e>>) = [l EXCEPT !.entries = Append(l.entries, e), !.lastTerm = e.term]
  BY <1>2, <1>3 DEF AppendEntries
<1> DEFINE es == Append(l.entries, e)
<1>5. es # <<>> /\ es[Len(es)] = e
  BY <1>1
<1> HIDE DEF es
<1>6. AppendEntries(l, <<e>>) = [l EXCEPT !.entries = es, !.lastTerm = e.term]
  BY <1>4 DEF es
<1>7. /\ AppendEntries(l, <<e>>).entries = es /\ AppendEntries(l, <<e>>).lastTerm = e.term
      /\ AppendEntries(l, <<e>>).snapIndex = l.snapIndex
      /\ AppendEntries(l, <<e>>).snapTerm = l.snapTerm
  BY <1>6 DEF LogRecord
<1>8. Whole(AppendEntries(l, <<e>>))
  BY <1>5, <1>7 DEF Whole, LastTermOf
<1> QED BY <1>7, <1>8 DEF es

\* Reopening a log changes nothing of it.
LEMMA WholeReload ==
    ASSUME NEW l \in LogRecord, Whole(l)
    PROVE  Reload(l) = l
BY DEF Whole, LastTermOf, Reload, LogRecord

\* What a follower's log becomes: all of the old entries up to a cut at or after
\* prev, then entries of the request; up to the cut the terms agree, and what is
\* cut off begins with an entry that contradicts the request.
Merged(old, new, prev, es) ==
    \E cut \in prev .. Len(old) :
        /\ cut <= Len(new)
        /\ \A j \in 1 .. cut : new[j] = old[j]
        /\ \A j \in cut + 1 .. Len(new) : j <= prev + Len(es) /\ new[j] = es[j - prev]
        /\ \A j \in prev + 1 .. cut : j <= prev + Len(es) => old[j].term = es[j - prev].term
        /\ cut < Len(old) => /\ cut < prev + Len(es)
                             /\ old[cut + 1].term # es[cut + 1 - prev].term

\* truncateFrom on such a log.
LEMMA WholeDelete ==
    ASSUME NEW l \in LogRecord, Whole(l), NEW i \in 1 .. Len(l.entries)
    PROVE  /\ Whole(DeleteEntriesFrom(l, i))
           /\ Len(DeleteEntriesFrom(l, i).entries) = i - 1
           /\ \A j \in 1 .. i - 1 : DeleteEntriesFrom(l, i).entries[j] = l.entries[j]
<1> DEFINE kept == SubSeq(l.entries, 1, i - 1)
<1>1. l.entries \in Seq(LogEntry) /\ Len(l.entries) \in Nat /\ i - 1 \in Int /\ i \in Int /\ 1 <= i
  BY LogFacts
<1>2. \A j \in 1 .. i - 1 : l.entries[j] \in LogEntry
  BY <1>1
<1>3. kept \in Seq(LogEntry) /\ Len(kept) = i - 1 /\ \A j \in 1 .. i - 1 : kept[j] = l.entries[j]
  BY <1>1, <1>2, SubSeqProperties
<1>4. i - 1 - l.snapIndex = i - 1 /\ l.snapTerm = 0 /\ l.snapIndex = 0
  BY <1>1 DEF Whole
<1> HIDE DEF kept
<1>5. DeleteEntriesFrom(l, i) = [l EXCEPT !.entries = kept, !.lastTerm = LastTermOf(kept)]
  BY <1>4 DEF DeleteEntriesFrom, LastTermOf, kept
<1>6. /\ DeleteEntriesFrom(l, i).entries = kept
      /\ DeleteEntriesFrom(l, i).lastTerm = LastTermOf(kept)
      /\ DeleteEntriesFrom(l, i).snapIndex = 0 /\ DeleteEntriesFrom(l, i).snapTerm = 0
  BY <1>4, <1>5 DEF LogRecord
<1> QED BY <1>3, <1>6 DEF Whole

\* The cut of appendEntriesFrom, and of a crash in the middle of it.
LEMMA WholeTruncate ==
    ASSUME NEW l \in LogRecord, Whole(l), NEW prev \in 0 .. Len(l.entries), NEW es \in Seq(LogEntry),
           NEW k, k = TruncateConflict(l, prev, es)
    PROVE  /\ Whole(k) /\ k \in LogRecord
           /\ Len(k.entries) \in prev .. Len(l.entries)
           /\ \A j \in 1 .. Len(k.entries) : k.entries[j] = l.entries[j]
           /\ \A j \in prev + 1 .. Len(k.entries) :
                 j <= prev + Len(es) => l.entries[j].term = es[j - prev].term
           /\ Len(k.entries) < Len(l.entries) =>
                 /\ Len(k.entries) < prev + Len(es)
                 /\ l.entries[Len(k.entries) + 1].term # es[Len(k.entries) + 1 - prev].term
<1>1. /\ l.entries \in Seq(LogEntry) /\ Len(l.entries) \in Nat /\ prev \in Nat /\ Len(es) \in Nat
      /\ \A i \in Int : HasEntry(l, i) <=> i \in 1 .. Len(l.entries)
      /\ \A i \in Int : Entry(l, i) = l.entries[i]
  BY WholeFacts, LogFacts
<1>2. k \in LogRecord
  BY TruncateConflictType, <1>1
<1>3. CASE Conflicts(l, prev, es) # {}
  <2>1. PICK c \in Conflicts(l, prev, es) : k = DeleteEntriesFrom(l, prev + c)
    BY <1>3 DEF TruncateConflict
  <2>2. /\ c \in 1 .. Len(es) /\ HasEntry(l, prev + c)
        /\ Entry(l, prev + c).term # es[c].term
        /\ \A j \in 1 .. c - 1 : HasEntry(l, prev + j) /\ Entry(l, prev + j).term = es[j].term
    BY DEF Conflicts
  <2> DEFINE at == prev + c
  <2>3. /\ at \in 1 .. Len(l.entries) /\ at > prev /\ at <= prev + Len(es) /\ at - prev = c
        /\ l.entries[at].term # es[at - prev].term
    BY <1>1, <2>2
  <2>4. \A j \in prev + 1 .. at - 1 : l.entries[j].term = es[j - prev].term
    <3> SUFFICES ASSUME NEW j \in prev + 1 .. at - 1 PROVE l.entries[j].term = es[j - prev].term
      OBVIOUS
    <3>1. j - prev \in 1 .. c - 1 /\ prev + (j - prev) = j /\ j \in Int
      BY <1>1, <2>2
    <3> QED BY <1>1, <2>2, <3>1
  <2> HIDE DEF at
  <2>5. k = DeleteEntriesFrom(l, at)
    BY <2>1 DEF at
  <2>6. /\ Whole(k) /\ Len(k.entries) = at - 1
        /\ \A j \in 1 .. at - 1 : k.entries[j] = l.entries[j]
    BY <2>3, <2>5, WholeDelete
  <2> DEFINE len == Len(k.entries)
  <2>7. len = at - 1 /\ len + 1 = at /\ len \in Int
    BY <2>3, <2>6
  <2> HIDE DEF len
  <2>8. len \in prev .. Len(l.entries) /\ len < prev + Len(es)
    BY <1>1, <2>3, <2>7
  <2>9. l.entries[len + 1].term # es[len + 1 - prev].term
    BY <2>3, <2>7
  <2>10. /\ \A j \in 1 .. len : k.entries[j] = l.entries[j]
         /\ \A j \in prev + 1 .. len : l.entries[j].term = es[j - prev].term
    BY <2>4, <2>6, <2>7
  <2> QED BY <1>2, <2>6, <2>8, <2>9, <2>10 DEF len
<1>4. CASE Conflicts(l, prev, es) = {}
  <2>1. k = l
    BY <1>4 DEF TruncateConflict
  <2>2. ASSUME NEW j \in prev + 1 .. Len(l.entries), j <= prev + Len(es),
               l.entries[j].term # es[j - prev].term
        PROVE  FALSE
    <3> DEFINE D == {c \in 1 .. Len(es) : /\ prev + c <= Len(l.entries)
                                          /\ l.entries[prev + c].term # es[c].term}
    <3>1. j - prev \in D
      <4>1. prev + (j - prev) = j /\ j - prev \in 1 .. Len(es)
        BY <1>1, <2>2
      <4> QED BY <2>2, <4>1
    <3>2. D \in SUBSET Int /\ IsFiniteSet(D)
      <4>1. IsFiniteSet(1 .. Len(es))
        BY <1>1, FS_Interval
      <4>2. D \subseteq 1 .. Len(es)
        OBVIOUS
      <4> QED BY <4>1, <4>2, FS_Subset
    <3>3. PICK c \in D : \A i \in D : c <= i
      BY <3>1, <3>2, MinExists
    <3>4. \A i \in 1 .. c - 1 : prev + i <= Len(l.entries) /\ l.entries[prev + i].term = es[i].term
      <4> SUFFICES ASSUME NEW i \in 1 .. c - 1
                   PROVE  prev + i <= Len(l.entries) /\ l.entries[prev + i].term = es[i].term
        OBVIOUS
      <4>1. i \in 1 .. Len(es) /\ prev + i <= Len(l.entries) /\ ~ (c <= i)
        BY <1>1
      <4> QED BY <3>3, <4>1
    <3>5. c \in 1 .. Len(es) /\ prev + c <= Len(l.entries) /\ l.entries[prev + c].term # es[c].term
      BY <3>3
    <3>6. HasEntry(l, prev + c) /\ Entry(l, prev + c) = l.entries[prev + c]
      <4>1. prev + c \in 1 .. Len(l.entries)
        BY <1>1, <3>5
      <4> QED BY <1>1, <4>1
    <3>7. \A i \in 1 .. c - 1 : HasEntry(l, prev + i) /\ Entry(l, prev + i) = l.entries[prev + i]
      <4> SUFFICES ASSUME NEW i \in 1 .. c - 1
                   PROVE  HasEntry(l, prev + i) /\ Entry(l, prev + i) = l.entries[prev + i]
        OBVIOUS
      <4>1. prev + i \in 1 .. Len(l.entries)
        BY <1>1, <3>4
      <4> QED BY <1>1, <4>1
    <3>8. c \in Conflicts(l, prev, es)
      BY <3>4, <3>5, <3>6, <3>7 DEF Conflicts
    <3> QED BY <1>4, <3>8
  <2> QED BY <1>1, <1>2, <2>1, <2>2
<1> QED BY <1>3, <1>4

\* A crash between the cut and the append.
LEMMA TruncateMerges ==
    ASSUME NEW l \in LogRecord, Whole(l), NEW prev \in 0 .. Len(l.entries), NEW es \in Seq(LogEntry)
    PROVE  /\ Whole(TruncateConflict(l, prev, es))
           /\ Merged(l.entries, TruncateConflict(l, prev, es).entries, prev, es)
<1> DEFINE k == TruncateConflict(l, prev, es)
<1> HIDE DEF k
<1>1. /\ Whole(k) /\ k \in LogRecord
      /\ Len(k.entries) \in prev .. Len(l.entries)
      /\ \A j \in 1 .. Len(k.entries) : k.entries[j] = l.entries[j]
      /\ \A j \in prev + 1 .. Len(k.entries) :
            j <= prev + Len(es) => l.entries[j].term = es[j - prev].term
      /\ Len(k.entries) < Len(l.entries) =>
            /\ Len(k.entries) < prev + Len(es)
            /\ l.entries[Len(k.entries) + 1].term # es[Len(k.entries) + 1 - prev].term
  BY WholeTruncate DEF k
<1> DEFINE cut == Len(k.entries)
<1>2. cut \in prev .. Len(l.entries) /\ cut \in Int
  BY <1>1, LogFacts
<1>3. \A j \in cut + 1 .. Len(k.entries) : FALSE
  BY <1>2
<1>4. cut <= Len(k.entries)
  BY <1>2
<1> HIDE DEF cut
<1>5. Merged(l.entries, k.entries, prev, es)
  BY <1>1, <1>2, <1>3, <1>4 DEF Merged, cut
<1> QED BY <1>1, <1>5 DEF k

\* The same, followed by the entries of the request the log does not hold yet.
LEMMA AppendFromMerges ==
    ASSUME NEW l \in LogRecord, Whole(l), NEW prev \in 0 .. Len(l.entries), NEW es \in Seq(LogEntry)
    PROVE  /\ Whole(AppendEntriesFrom(l, prev, es))
           /\ Merged(l.entries, AppendEntriesFrom(l, prev, es).entries, prev, es)
           /\ prev + Len(es) <= Len(AppendEntriesFrom(l, prev, es).entries)
<1> DEFINE k == TruncateConflict(l, prev, es)
<1> HIDE DEF k
<1>1. /\ Whole(k) /\ k \in LogRecord
      /\ Len(k.entries) \in prev .. Len(l.entries)
      /\ \A j \in 1 .. Len(k.entries) : k.entries[j] = l.entries[j]
      /\ \A j \in prev + 1 .. Len(k.entries) :
            j <= prev + Len(es) => l.entries[j].term = es[j - prev].term
      /\ Len(k.entries) < Len(l.entries) =>
            /\ Len(k.entries) < prev + Len(es)
            /\ l.entries[Len(k.entries) + 1].term # es[Len(k.entries) + 1 - prev].term
  BY WholeTruncate DEF k
<1> DEFINE cut == Len(k.entries)
<1> DEFINE held == cut - prev
<1> DEFINE fresh == SubSeq(es, held + 1, Len(es))
<1>2. /\ cut \in Nat /\ prev \in Nat /\ Len(es) \in Nat /\ held \in Nat /\ held + prev = cut
      /\ k.entries \in Seq(LogEntry) /\ Len(l.entries) \in Nat /\ cut \in prev .. Len(l.entries)
  BY <1>1, LogFacts
<1>3. AppendEntriesFrom(l, prev, es) = AppendEntries(k, fresh)
  <2>1. LastIndex(k) = cut
    BY <1>1, WholeFacts
  <2> QED BY <2>1 DEF AppendEntriesFrom, k
<1> HIDE DEF cut, held
<1>4. /\ fresh \in Seq(LogEntry)
      /\ Len(fresh) = IF held + 1 <= Len(es) THEN Len(es) - held ELSE 0
      /\ \A i \in 1 .. Len(es) - held : fresh[i] = es[held + i]
  <2>1. \A i \in held + 1 .. Len(es) : es[i] \in LogEntry
    BY <1>2
  <2>2. held + 1 \in Int /\ Len(es) \in Int
    BY <1>2
  <2>3. /\ fresh \in Seq(LogEntry)
        /\ Len(fresh) = IF held + 1 <= Len(es) THEN Len(es) - (held + 1) + 1 ELSE 0
        /\ \A i \in 1 .. Len(es) - (held + 1) + 1 : fresh[i] = es[held + 1 + i - 1]
    BY <2>1, <2>2, SubSeqProperties
  <2>4. Len(es) - (held + 1) + 1 = Len(es) - held /\ \A i \in Int : held + 1 + i - 1 = held + i
    BY <1>2
  <2> HIDE DEF fresh
  <2>5. \A i \in 1 .. Len(es) - held : fresh[i] = es[held + i]
    <3> SUFFICES ASSUME NEW i \in 1 .. Len(es) - held PROVE fresh[i] = es[held + i]
      OBVIOUS
    <3>1. i \in Int /\ i \in 1 .. Len(es) - (held + 1) + 1
      BY <2>4
    <3> QED BY <2>3, <2>4, <3>1
  <2> QED BY <2>3, <2>4, <2>5
<1> HIDE DEF fresh
<1> DEFINE r == AppendEntries(k, fresh)
<1>5. CASE fresh = <<>>
  <2>0. Len(fresh) = 0
    BY <1>5
  <2>1. r = k /\ Len(es) <= held
    BY <1>2, <1>4, <1>5, <2>0 DEF AppendEntries
  <2> HIDE DEF r
  <2>2. \A j \in cut + 1 .. Len(r.entries) : FALSE
    BY <1>2, <2>1 DEF cut
  <2>3. cut <= Len(r.entries) /\ prev + Len(es) <= Len(r.entries)
    BY <1>2, <2>1 DEF cut
  <2>4. Merged(l.entries, r.entries, prev, es)
    BY <1>1, <1>2, <2>1, <2>2, <2>3 DEF Merged, cut
  <2> QED BY <1>1, <1>3, <2>1, <2>3, <2>4 DEF r
<1>6. CASE fresh # <<>>
  <2> DEFINE new == k.entries \o fresh
  <2>1. held + 1 <= Len(es) /\ Len(fresh) = Len(es) - held
    BY <1>2, <1>4, <1>6
  <2>2. /\ new \in Seq(LogEntry) /\ Len(new) = cut + Len(fresh)
        /\ \A i \in 1 .. cut + Len(fresh) : new[i] = IF i <= cut THEN k.entries[i] ELSE fresh[i - cut]
    <3>1. k.entries \in Seq(LogEntry) /\ Len(k.entries) = cut /\ fresh \in Seq(LogEntry)
      BY <1>2, <1>4 DEF cut
    <3> QED BY <3>1, ConcatProperties
  <2> HIDE DEF new
  <2>3. Len(new) = prev + Len(es) /\ new # <<>> /\ cut < Len(new)
    <3>1. cut + Len(fresh) = prev + Len(es) /\ cut < cut + Len(fresh)
      BY <1>2, <2>1
    <3>2. Len(<<>>) = 0
      OBVIOUS
    <3> QED BY <1>2, <2>2, <3>1, <3>2
  <2>4. \A j \in 1 .. cut : new[j] = l.entries[j]
    <3> SUFFICES ASSUME NEW j \in 1 .. cut PROVE new[j] = l.entries[j]
      OBVIOUS
    <3>1. j \in 1 .. cut + Len(fresh) /\ j <= cut
      BY <1>2, <2>1
    <3> QED BY <1>1, <2>2, <3>1 DEF cut
  <2>5. \A j \in cut + 1 .. Len(new) : j <= prev + Len(es) /\ new[j] = es[j - prev]
    <3> SUFFICES ASSUME NEW j \in cut + 1 .. Len(new)
                 PROVE  j <= prev + Len(es) /\ new[j] = es[j - prev]
      OBVIOUS
    <3>1. j \in 1 .. cut + Len(fresh) /\ ~ (j <= cut) /\ j <= prev + Len(es)
      BY <1>2, <2>2, <2>3
    <3>2. j - cut \in 1 .. Len(es) - held /\ held + (j - cut) = j - prev
      BY <1>2, <2>1, <2>3
    <3>3. new[j] = fresh[j - cut]
      BY <2>2, <3>1
    <3>4. fresh[j - cut] = es[held + (j - cut)]
      BY <1>4, <3>2
    <3> QED BY <3>1, <3>2, <3>3, <3>4
  <2>6. new[Len(new)] = fresh[Len(fresh)]
    <3>1. Len(new) \in 1 .. cut + Len(fresh) /\ ~ (Len(new) <= cut) /\ Len(new) - cut = Len(fresh)
      BY <1>2, <2>1, <2>2
    <3> QED BY <2>2, <3>1
  <2>7. r = [k EXCEPT !.entries = new, !.lastTerm = fresh[Len(fresh)].term]
    BY <1>6 DEF AppendEntries, new
  <2>8. /\ r.entries = new /\ r.lastTerm = fresh[Len(fresh)].term
        /\ r.snapIndex = k.snapIndex /\ r.snapTerm = k.snapTerm
    BY <1>1, <2>7 DEF LogRecord
  <2> HIDE DEF r
  <2>9. Whole(r)
    BY <1>1, <2>3, <2>6, <2>8 DEF Whole, LastTermOf
  <2>10. Merged(l.entries, new, prev, es)
    <3>1. cut <= Len(new)
      BY <1>2, <2>3
    <3> QED BY <1>1, <1>2, <2>4, <2>5, <3>1 DEF Merged, cut
  <2> QED BY <1>2, <1>3, <2>3, <2>8, <2>9, <2>10 DEF r
<1> QED BY <1>5, <1>6

\* A request matches a log at prevLogIndex.
PrevMatches(es, prev, prevTerm) ==
    \/ prev = 0 /\ prevTerm = 0
    \/ prev \in 1 .. Len(es) /\ es[prev].term = prevTerm

\* What matchesPrevLog finds in such a log.
LEMMA WholeMatches ==
    ASSUME NEW l \in LogRecord, Whole(l), NEW prev \in Nat, NEW t \in Int, MatchesPrevLog(l, prev, t)
    PROVE  PrevMatches(l.entries, prev, t) /\ prev \in 0 .. Len(l.entries)
<1>1. CASE prev = 0
  BY <1>1, LogFacts DEF MatchesPrevLog, PrevMatches
<1>2. CASE prev # 0
  <2>1. TermAt(l, prev) # NoTerm /\ TermAt(l, prev) = t
    BY <1>2 DEF MatchesPrevLog
  <2>2. prev \in 1 .. Len(l.entries)
    BY <1>2, <2>1, WholeFacts, LogFacts
  <2>3. l.entries[prev].term = t
    BY <2>1, <2>2, WholeFacts
  <2> QED BY <2>2, <2>3 DEF PrevMatches
<1> QED BY <1>1, <1>2

-----------------------------------------------------------------------------
(* What a step does to logs, roles and the messages about them. *)

Es(n) == log[n].entries

Appends == {m \in msgs : m.type = "AppendEntries"}
Acks == {m \in msgs : m.type = "AppendEntriesResponse" /\ m.success}
Ballots == {m \in msgs : m.type = "RequestVote"}

\* No log was compacted and no snapshot was taken, sent or received.
Uncompacted ==
    /\ \A n \in Server : /\ Whole(log[n])
                         /\ snapshot[n] = NoSnapshot
                         /\ sendingSnapshot[n] = {}
                         /\ installing[n] = Nil
    /\ \A m \in msgs : m.type \notin {"InstallSnapshot", "InstallSnapshotResponse"}

\* Copies of a request differ in orphan only.
CopyOf(m, k) ==
    /\ m.src = k.src /\ m.dst = k.dst /\ m.term = k.term
    /\ m.prevLogIndex = k.prevLogIndex /\ m.prevLogTerm = k.prevLogTerm
    /\ m.entries = k.entries /\ m.leaderCommit = k.leaderCommit

SameBallot(m, k) ==
    /\ m.src = k.src /\ m.dst = k.dst /\ m.term = k.term
    /\ m.lastLogIndex = k.lastLogIndex /\ m.lastLogTerm = k.lastLogTerm

OldAppends == \A m \in Appends' : \E k \in Appends : CopyOf(m, k)
OldAcks == Acks' \subseteq Acks
OldBallots == \A m \in Ballots' : \E k \in Ballots : SameBallot(m, k)
NothingSent == OldAppends /\ OldAcks /\ OldBallots

Steady(n) ==
    role'[n] = role[n] /\ currentTerm'[n] = currentTerm[n] /\ matchIndex'[n] = matchIndex[n]
StepsDown(n) == role'[n] = "Follower" /\ currentTerm'[n] >= currentTerm[n]

\* The other nodes are left alone.
Others(n) ==
    \A c \in Server : c # n =>
        /\ log'[c] = log[c] /\ role'[c] = role[c] /\ currentTerm'[c] = currentTerm[c]
        /\ matchIndex'[c] = matchIndex[c] /\ commitIndex'[c] = commitIndex[c]
        /\ lastApplied'[c] = lastApplied[c] /\ app'[c] = app[c]

\* A step that touches no log and sends nothing about logs.
Still(n) ==
    /\ UNCHANGED log /\ NothingSent
    /\ Steady(n) \/ StepsDown(n)
    /\ commitIndex'[n] \in {commitIndex[n], 0}

Candidacy(n) ==
    /\ UNCHANGED log /\ OldAppends /\ OldAcks
    /\ role'[n] = "Candidate" /\ currentTerm'[n] = currentTerm[n] + 1
    /\ commitIndex'[n] = commitIndex[n]
    /\ \A m \in Ballots' :
          \/ \E k \in Ballots : SameBallot(m, k)
          \/ /\ m.src = n /\ m.term = currentTerm[n] + 1
             /\ m.lastLogIndex = Len(Es(n)) /\ m.lastLogTerm = LastTermOf(Es(n))

\* A leader appends an entry of its own: a command, or the no-op it begins with.
Grows(n) ==
    /\ NothingSent
    /\ role'[n] = "Leader" /\ currentTerm'[n] = currentTerm[n]
    /\ \/ role[n] = "Leader" /\ matchIndex'[n] = matchIndex[n]
       \/ role[n] = "Candidate" /\ \A p \in Server : matchIndex'[n][p] = 0
    /\ \E cmd \in Command \cup {NoOp} :
          Es(n)' = Append(Es(n), [term |-> currentTerm[n], cmd |-> cmd])
    /\ commitIndex'[n] = commitIndex[n]

\* m is what leader n may send of its log.
TakenFrom(m, n) ==
    /\ m.src = n /\ m.dst # n /\ m.term = currentTerm[n] /\ m.leaderCommit = commitIndex[n]
    /\ m.prevLogIndex = 0 => m.prevLogTerm = 0
    /\ m.prevLogIndex \in 1 .. Len(Es(n)) => m.prevLogTerm = OrZero(Es(n)[m.prevLogIndex].term)
    /\ m.prevLogIndex > Len(Es(n)) => m.prevLogTerm = 0
    /\ m.entries # <<>> => m.prevLogIndex + Len(m.entries) <= Len(Es(n))
    /\ \A k \in 1 .. Len(m.entries) : m.entries[k] = Es(n)[m.prevLogIndex + k]

Sends(n) ==
    /\ UNCHANGED log /\ OldAcks /\ OldBallots
    /\ role[n] = "Leader" /\ Steady(n)
    /\ \A m \in Appends' : (\E k \in Appends : CopyOf(m, k)) \/ TakenFrom(m, n)
    /\ commitIndex'[n] = commitIndex[n]

\* A follower takes over the entries of m, or crashes halfway.
Takes(n, m) ==
    /\ m.dst = n
    /\ role'[n] = "Follower" /\ currentTerm[n] <= m.term /\ currentTerm'[n] = m.term
    /\ PrevMatches(Es(n), m.prevLogIndex, m.prevLogTerm)
    /\ Merged(Es(n), Es(n)', m.prevLogIndex, m.entries)
    /\ OldAppends /\ OldBallots
    /\ \A r \in Acks' :
          \/ r \in Acks
          \/ /\ r.src = n /\ r.dst = m.src /\ r.term = m.term
             /\ r.matchIndex = m.prevLogIndex + Len(m.entries)
             /\ r.matchIndex <= Len(Es(n)')
    /\ \/ commitIndex'[n] \in {commitIndex[n], 0}
       \/ /\ commitIndex'[n] <= m.leaderCommit
          /\ commitIndex'[n] <= m.prevLogIndex + Len(m.entries)
          /\ m.prevLogIndex + Len(m.entries) <= Len(Es(n)')

\* A leader learns that a peer holds its log up to m.matchIndex.
Confirms(n, m) ==
    /\ UNCHANGED log /\ NothingSent
    /\ m.dst = n /\ m.term = currentTerm[n]
    /\ role[n] = "Leader" /\ role'[n] = "Leader" /\ currentTerm'[n] = currentTerm[n]
    /\ \A p \in Server : \/ matchIndex'[n][p] = matchIndex[n][p]
                         \/ p = m.src /\ matchIndex'[n][p] = m.matchIndex
    /\ \/ commitIndex'[n] = commitIndex[n]
       \/ /\ commitIndex'[n] > 0
          /\ commitIndex'[n] =
                CalculateCommitIndex(log[n], currentTerm[n], Peers(n), matchIndex'[n])

\* The network adds what is sent, no more.
LEMMA NetworkAdds ==
    /\ \A out : Send(out) => msgs' \subseteq msgs \cup out
    /\ \A m : Discard(m) => msgs' \subseteq msgs \cup {}
BY DEF Send, Discard

\* A message handled leaves at most a copy of itself and what is sent.
LEMMA NetworkExchange ==
    ASSUME NEW m \in msgs, NEW out, Exchange(m, out)
    PROVE  msgs' \subseteq msgs \cup out
BY DEF Exchange

\* And so does one that is answered.
LEMMA NetworkReply ==
    ASSUME NEW m \in msgs, NEW out, Reply(m, out)
    PROVE  msgs' \subseteq msgs \cup out
<1>1. Exchange(m, {}) \/ Exchange(m, out)
  BY DEF Reply
<1>2. CASE Exchange(m, {})
  BY <1>2 DEF Exchange
<1> QED BY <1>1, <1>2, NetworkExchange

\* Messages of other kinds leave those about logs what they were.
LEMMA NetworkOld ==
    ASSUME NEW out, msgs' \subseteq msgs \cup out
    PROVE  /\ (\A x \in out : x.type # "AppendEntries") => OldAppends
           /\ (\A x \in out : x.type = "AppendEntriesResponse" => ~ x.success) => OldAcks
           /\ (\A x \in out : x.type # "RequestVote") => OldBallots
<1>1. \A m : CopyOf(m, m) /\ SameBallot(m, m)
  BY DEF CopyOf, SameBallot
<1>2. ASSUME \A x \in out : x.type # "AppendEntries" PROVE OldAppends
  BY <1>1, <1>2 DEF OldAppends, Appends
<1>3. ASSUME \A x \in out : x.type = "AppendEntriesResponse" => ~ x.success PROVE OldAcks
  BY <1>3 DEF OldAcks, Acks
<1>4. ASSUME \A x \in out : x.type # "RequestVote" PROVE OldBallots
  BY <1>1, <1>4 DEF OldBallots, Ballots
<1> QED BY <1>2, <1>3, <1>4

\* Messages that are only lost bring no others about.
LEMMA NetworkSame == msgs' \subseteq msgs => NothingSent
BY DEF NothingSent, OldAppends, OldAcks, OldBallots, Appends, Acks, Ballots, CopyOf, SameBallot

\* A crash turns requests into orphans and drops replies.
LEMMA OrphanedOld ==
    ASSUME TypeOK, NEW n, NEW ms \in SUBSET msgs, msgs' = Orphaned(n, ms)
    PROVE  NothingSent /\ \A m \in msgs' : \E x \in msgs : m.type = x.type
<1>1. ASSUME NEW x \in msgs, x.type \in Requests
      PROVE  /\ [x EXCEPT !.orphan = TRUE].type = x.type
             /\ x.type = "AppendEntries" => CopyOf([x EXCEPT !.orphan = TRUE], x)
             /\ x.type = "RequestVote" => SameBallot([x EXCEPT !.orphan = TRUE], x)
  <2>1. x \in VoteRequest \/ x \in AppendRequest \/ x \in InstallRequest
    BY <1>1, MessageKinds DEF TypeOK, Requests
  <2>2. CASE x \in VoteRequest
    BY <2>2 DEF VoteRequest, SameBallot
  <2>3. CASE x \in AppendRequest
    BY <2>3 DEF AppendRequest, CopyOf
  <2>4. CASE x \in InstallRequest
    BY <2>4 DEF InstallRequest
  <2> QED BY <2>1, <2>2, <2>3, <2>4
<1>2. \A x : CopyOf(x, x) /\ SameBallot(x, x)
  BY DEF CopyOf, SameBallot
<1>3. ASSUME NEW m \in msgs'
      PROVE  \E x \in msgs : /\ m.type = x.type
                             /\ m.type = "AppendEntries" => CopyOf(m, x)
                             /\ m.type = "RequestVote" => SameBallot(m, x)
                             /\ m.type = "AppendEntriesResponse" => m = x
  <2>1. PICK x \in ms : m = IF x.type \in Requests /\ x.src = n THEN [x EXCEPT !.orphan = TRUE] ELSE x
    BY DEF Orphaned
  <2>2. CASE x.type \in Requests /\ x.src = n
    <3>1. m = [x EXCEPT !.orphan = TRUE]
      BY <2>1, <2>2
    <3>2. x.type # "AppendEntriesResponse"
      BY <2>2 DEF Requests
    <3> QED BY <1>1, <2>2, <3>1, <3>2
  <2>3. CASE ~ (x.type \in Requests /\ x.src = n)
    BY <1>2, <2>1, <2>3
  <2> QED BY <2>2, <2>3
<1>4. OldAppends
  BY <1>3 DEF OldAppends, Appends
<1>5. OldAcks
  BY <1>3 DEF OldAcks, Acks
<1>6. OldBallots
  BY <1>3 DEF OldBallots, Ballots
<1> QED BY <1>3, <1>4, <1>5, <1>6 DEF NothingSent

-----------------------------------------------------------------------------
(* Every step is one of these. *)

\* A step of n leaves the other nodes alone.
LEMMA StepOthers ==
    ASSUME TypeOK, TypeOK', NEW n \in Server, Step(n)
    PROVE  Others(n)
<1>0. /\ log \in [Server -> LogRecord] /\ role \in [Server -> {"Follower", "Candidate", "Leader"}]
      /\ currentTerm \in [Server -> Nat] /\ matchIndex \in [Server -> [Server -> Nat]]
      /\ commitIndex \in [Server -> Nat] /\ lastApplied \in [Server -> Nat]
      /\ app \in [Server -> Seq(Command)]
  BY DEF TypeOK, ElectionTypeOK, LeaderTypeOK, LogTypeOK, ApplyTypeOK
<1> SUFFICES ASSUME NEW c \in Server, c # n
             PROVE  /\ log'[c] = log[c] /\ role'[c] = role[c] /\ currentTerm'[c] = currentTerm[c]
                    /\ matchIndex'[c] = matchIndex[c] /\ commitIndex'[c] = commitIndex[c]
                    /\ lastApplied'[c] = lastApplied[c] /\ app'[c] = app[c]
  BY DEF Others
<1> USE DEF electionVars, leaderVars, logVars, applyVars
<1>1. CASE StartPreVote(n) \/ StartElection(n)
  BY <1>0, <1>1 DEF StartPreVote, StartElection, BecomeCandidate
<1>2. CASE \E d \in Command : SubmitCommand(n, d)
  BY <1>0, <1>2 DEF SubmitCommand
<1>3. CASE \E p \in Peers(n) : SendAppendEntries(n, p) \/ SendSnapshot(n, p)
  BY <1>0, <1>3 DEF SendAppendEntries, SendSnapshot
<1>4. CASE ApplyNext(n) \/ SaveSnapshot(n) \/ CompactLog(n)
  <2>1. UNCHANGED <<electionVars, leaderVars, commitIndex>>
    BY <1>4 DEF ApplyNext, SaveSnapshot, CompactLog
  <2>2. lastApplied'[c] = lastApplied[c] /\ app'[c] = app[c] /\ log'[c] = log[c]
    BY <1>0, <1>4 DEF ApplyNext, SaveSnapshot, CompactLog
  <2> QED BY <2>1, <2>2
<1>5. CASE InstallSnapshot(n)
  BY <1>0, <1>5 DEF InstallSnapshot
<1>6. ASSUME NEW l, Reboot(n, l) PROVE /\ log'[c] = log[c] /\ role'[c] = role[c]
                    /\ matchIndex'[c] = matchIndex[c] /\ commitIndex'[c] = commitIndex[c]
                    /\ lastApplied'[c] = lastApplied[c] /\ app'[c] = app[c]
  BY <1>0, <1>6 DEF Reboot
<1>7. CASE Restart(n)
  BY <1>6, <1>7 DEF Restart
<1>8. ASSUME NEW m \in msgs, CrashAfterTruncate(n, m)
      PROVE /\ log'[c] = log[c] /\ role'[c] = role[c] /\ currentTerm'[c] = currentTerm[c]
            /\ matchIndex'[c] = matchIndex[c] /\ commitIndex'[c] = commitIndex[c]
            /\ lastApplied'[c] = lastApplied[c] /\ app'[c] = app[c]
  BY <1>0, <1>6, <1>8 DEF CrashAfterTruncate
<1>9. ASSUME NEW t, BecomeFollower(n, t)
      PROVE  role'[c] = role[c] /\ currentTerm'[c] = currentTerm[c] /\ matchIndex'[c] = matchIndex[c]
  BY <1>0, <1>9 DEF BecomeFollower
<1>10. ASSUME NEW m \in msgs, HandlePreVote(n, m) \/ HandlePreVoteResponse(n, m)
       PROVE /\ log'[c] = log[c] /\ role'[c] = role[c] /\ currentTerm'[c] = currentTerm[c]
             /\ matchIndex'[c] = matchIndex[c] /\ commitIndex'[c] = commitIndex[c]
             /\ lastApplied'[c] = lastApplied[c] /\ app'[c] = app[c]
  <2>1. UNCHANGED <<logVars, applyVars>>
    BY <1>10 DEF HandlePreVote, HandlePreVoteResponse
  <2>2. \/ UNCHANGED <<currentTerm, role, matchIndex>>
        \/ BecomeFollower(n, m.term)
        \/ BecomeCandidate(n) /\ UNCHANGED leaderVars
    BY <1>10 DEF HandlePreVote, HandlePreVoteResponse
  <2>3. role'[c] = role[c] /\ currentTerm'[c] = currentTerm[c] /\ matchIndex'[c] = matchIndex[c]
    BY <1>0, <1>9, <2>2 DEF BecomeCandidate
  <2> QED BY <2>1, <2>3
<1>11. ASSUME NEW m \in msgs, HandleRequestVote(n, m)
       PROVE /\ log'[c] = log[c] /\ role'[c] = role[c] /\ currentTerm'[c] = currentTerm[c]
             /\ matchIndex'[c] = matchIndex[c] /\ commitIndex'[c] = commitIndex[c]
             /\ lastApplied'[c] = lastApplied[c] /\ app'[c] = app[c]
  <2>1. UNCHANGED <<logVars, applyVars>>
    BY <1>11 DEF HandleRequestVote
  <2>2. \E t : currentTerm' = [currentTerm EXCEPT ![n] = t]
    BY <1>11 DEF HandleRequestVote
  <2>3. \/ UNCHANGED <<role, leaderVars>>
        \/ /\ role' = [role EXCEPT ![n] = "Follower"]
           /\ matchIndex' = [matchIndex EXCEPT ![n] = [p \in Server |-> 0]]
    BY <1>11 DEF HandleRequestVote
  <2> QED BY <1>0, <2>1, <2>2, <2>3
<1>12. ASSUME NEW m \in msgs, HandleRequestVoteResponse(n, m)
       PROVE /\ log'[c] = log[c] /\ role'[c] = role[c] /\ currentTerm'[c] = currentTerm[c]
             /\ matchIndex'[c] = matchIndex[c] /\ commitIndex'[c] = commitIndex[c]
             /\ lastApplied'[c] = lastApplied[c] /\ app'[c] = app[c]
  <2>1. UNCHANGED applyVars
    BY <1>12 DEF HandleRequestVoteResponse
  <2>2. \/ BecomeFollower(n, m.term) /\ UNCHANGED log
        \/ UNCHANGED <<currentTerm, role, leaderVars, log>>
        \/ UNCHANGED currentTerm /\ BecomeLeader(n)
    BY <1>12 DEF HandleRequestVoteResponse
  <2>3. CASE UNCHANGED currentTerm /\ BecomeLeader(n)
    BY <1>0, <2>1, <2>3 DEF BecomeLeader
  <2> QED BY <1>9, <2>1, <2>2, <2>3
<1>13. ASSUME NEW m \in msgs, HandleAppendEntries(n, m)
       PROVE /\ log'[c] = log[c] /\ role'[c] = role[c] /\ currentTerm'[c] = currentTerm[c]
             /\ matchIndex'[c] = matchIndex[c] /\ commitIndex'[c] = commitIndex[c]
             /\ lastApplied'[c] = lastApplied[c] /\ app'[c] = app[c]
  <2>1. UNCHANGED <<lastApplied, app>>
    BY <1>13 DEF HandleAppendEntries
  <2>2. BecomeFollower(n, m.term) \/ UNCHANGED <<electionVars, leaderVars>>
    BY <1>13 DEF HandleAppendEntries
  <2>3. \/ UNCHANGED <<log, commitIndex>>
        \/ \E l, i : log' = [log EXCEPT ![n] = l] /\ commitIndex' = [commitIndex EXCEPT ![n] = i]
    BY <1>13 DEF HandleAppendEntries
  <2>4. log'[c] = log[c] /\ commitIndex'[c] = commitIndex[c]
    BY <1>0, <2>3
  <2> QED BY <1>9, <2>1, <2>2, <2>4
<1>14. ASSUME NEW m \in msgs, HandleAppendEntriesResponse(n, m)
       PROVE /\ log'[c] = log[c] /\ role'[c] = role[c] /\ currentTerm'[c] = currentTerm[c]
             /\ matchIndex'[c] = matchIndex[c] /\ commitIndex'[c] = commitIndex[c]
             /\ lastApplied'[c] = lastApplied[c] /\ app'[c] = app[c]
  <2>1. UNCHANGED <<log, lastApplied, app>>
    BY <1>14 DEF HandleAppendEntriesResponse
  <2>2. \/ BecomeFollower(n, m.term) /\ UNCHANGED commitIndex
        \/ UNCHANGED <<electionVars, leaderVars, commitIndex>>
        \/ /\ UNCHANGED electionVars
           /\ \E f, i : /\ matchIndex' = [matchIndex EXCEPT ![n] = f]
                        /\ commitIndex' = [commitIndex EXCEPT ![n] = i]
        \/ UNCHANGED <<electionVars, matchIndex, commitIndex>>
    BY <1>14 DEF HandleAppendEntriesResponse
  <2>3. CASE /\ UNCHANGED electionVars
             /\ \E f, i : /\ matchIndex' = [matchIndex EXCEPT ![n] = f]
                          /\ commitIndex' = [commitIndex EXCEPT ![n] = i]
    BY <1>0, <2>1, <2>3
  <2> QED BY <1>9, <2>1, <2>2, <2>3
<1>15. ASSUME NEW m \in msgs, ReceiveSnapshot(n, m)
       PROVE /\ log'[c] = log[c] /\ role'[c] = role[c] /\ currentTerm'[c] = currentTerm[c]
             /\ matchIndex'[c] = matchIndex[c] /\ commitIndex'[c] = commitIndex[c]
             /\ lastApplied'[c] = lastApplied[c] /\ app'[c] = app[c]
  <2>1. UNCHANGED <<log, applyVars>>
    BY <1>15 DEF ReceiveSnapshot
  <2>2. BecomeFollower(n, m.term) \/ UNCHANGED <<electionVars, leaderVars>>
    BY <1>15 DEF ReceiveSnapshot
  <2> QED BY <1>9, <2>1, <2>2
<1>16. ASSUME NEW m \in msgs, HandleInstallSnapshotResponse(n, m)
       PROVE /\ log'[c] = log[c] /\ role'[c] = role[c] /\ currentTerm'[c] = currentTerm[c]
             /\ matchIndex'[c] = matchIndex[c] /\ commitIndex'[c] = commitIndex[c]
             /\ lastApplied'[c] = lastApplied[c] /\ app'[c] = app[c]
  <2>1. UNCHANGED <<log, applyVars>>
    BY <1>16 DEF HandleInstallSnapshotResponse
  <2>2. \/ BecomeFollower(n, m.term)
        \/ UNCHANGED <<electionVars, leaderVars>>
        \/ UNCHANGED electionVars /\ matchIndex' = [matchIndex EXCEPT ![n][m.src] = m.index]
    BY <1>16 DEF HandleInstallSnapshotResponse
  <2>3. CASE UNCHANGED electionVars /\ matchIndex' = [matchIndex EXCEPT ![n][m.src] = m.index]
    BY <1>0, <2>1, <2>3
  <2> QED BY <1>9, <2>1, <2>2, <2>3
<1> QED BY <1>1, <1>2, <1>3, <1>4, <1>5, <1>7, <1>8, <1>10, <1>11, <1>12, <1>13, <1>14, <1>15, <1>16
    DEF Step, Receive

\* What a step leaves to prove of Uncompacted' when it sends no snapshot.
LEMMA UncompactedStays ==
    ASSUME Uncompacted, NEW out, msgs' \subseteq msgs \cup out,
           \A x \in out : x.type \notin {"InstallSnapshot", "InstallSnapshotResponse"},
           \A c \in Server : Whole(log'[c]),
           UNCHANGED <<snapshot, sendingSnapshot, installing>>
    PROVE  Uncompacted'
BY DEF Uncompacted

\* The logs stay whole when one log changes into a whole one.
LEMMA WholeOthers ==
    ASSUME TypeOK, Uncompacted, NEW n \in Server, NEW l, Whole(l), log' = [log EXCEPT ![n] = l]
    PROVE  Es(n)' = l.entries /\ \A c \in Server : Whole(log'[c])
BY DEF TypeOK, LogTypeOK, Uncompacted, Es

\* The elections' own steps.
LEMMA ElectionKinds ==
    ASSUME TypeOK, TypeOK', Uncompacted, NEW n \in Server,
           \/ StartPreVote(n) \/ StartElection(n)
           \/ \E m \in msgs : HandlePreVote(n, m) \/ HandlePreVoteResponse(n, m) \/ HandleRequestVote(n, m)
    PROVE  Uncompacted' /\ (Still(n) \/ Candidacy(n))
<1>0. /\ log \in [Server -> LogRecord] /\ role \in [Server -> {"Follower", "Candidate", "Leader"}]
      /\ currentTerm \in [Server -> Nat] /\ matchIndex \in [Server -> [Server -> Nat]]
      /\ commitIndex \in [Server -> Nat] /\ currentTerm' \in [Server -> Nat]
  BY DEF TypeOK, ElectionTypeOK, LeaderTypeOK, LogTypeOK, ApplyTypeOK
<1>1. UNCHANGED <<log, snapshot, commitIndex, sendingSnapshot, installing>>
  BY DEF StartPreVote, StartElection, HandlePreVote, HandlePreVoteResponse, HandleRequestVote,
         logVars, applyVars, taskVars
<1>2. /\ \A c \in Server : Whole(log'[c])
      /\ \A c \in Server : Whole(log[c])
      /\ LastIndex(log[n]) = Len(Es(n)) /\ log[n].lastTerm = LastTermOf(Es(n))
  BY <1>0, <1>1, WholeFacts DEF Uncompacted, Whole, Es
<1>3. ASSUME NEW out, msgs' \subseteq msgs \cup out,
             \A x \in out : x.type \in {"PreVote", "PreVoteResponse", "RequestVoteResponse"}
      PROVE  NothingSent /\ Uncompacted'
  BY <1>1, <1>2, <1>3, NetworkOld, UncompactedStays DEF NothingSent
<1>a. ASSUME NEW m \in msgs, Discard(m) PROVE NothingSent /\ Uncompacted'
  <2> DEFINE out == {}
  <2>1. \A x \in out : x.type \in {"PreVote", "PreVoteResponse", "RequestVoteResponse"}
    OBVIOUS
  <2> HIDE DEF out
  <2>2. msgs' \subseteq msgs \cup out
    BY <1>a DEF Discard
  <2> QED BY <1>3, <2>1, <2>2
<1>b. ASSUME NEW r, r.type \in {"PreVoteResponse", "RequestVoteResponse"}, msgs' \subseteq msgs \cup {r}
      PROVE  NothingSent /\ Uncompacted'
  <2> DEFINE out == {r}
  <2>1. \A x \in out : x.type \in {"PreVote", "PreVoteResponse", "RequestVoteResponse"}
    BY <1>b
  <2> HIDE DEF out
  <2>2. msgs' \subseteq msgs \cup out
    BY <1>b DEF out
  <2> QED BY <1>3, <2>1, <2>2
<1>4. ASSUME NEW t \in Nat, t > currentTerm[n], BecomeFollower(n, t) PROVE StepsDown(n)
  BY <1>0, <1>4 DEF BecomeFollower, StepsDown
<1>5. ASSUME BecomeCandidate(n), msgs' \subseteq msgs \cup VoteRequests(n, "RequestVote", currentTerm[n] + 1)
      PROVE  Uncompacted' /\ Candidacy(n)
  <2> DEFINE out == VoteRequests(n, "RequestVote", currentTerm[n] + 1)
  <2>1. \A x \in out : /\ x.type = "RequestVote" /\ x.src = n /\ x.term = currentTerm[n] + 1
                       /\ x.lastLogIndex = Len(Es(n)) /\ x.lastLogTerm = LastTermOf(Es(n))
    BY <1>2 DEF VoteRequests
  <2> HIDE DEF out
  <2>2. msgs' \subseteq msgs \cup out
    BY <1>5 DEF out
  <2>3. OldAppends /\ OldAcks /\ Uncompacted'
    BY <1>1, <1>2, <2>1, <2>2, NetworkOld, UncompactedStays
  <2>4. \A m \in Ballots' : (\E k \in Ballots : SameBallot(m, k)) \/ m \in out
    BY <2>2 DEF Ballots, SameBallot
  <2>5. role'[n] = "Candidate" /\ currentTerm'[n] = currentTerm[n] + 1
    BY <1>0, <1>5 DEF BecomeCandidate
  <2> QED BY <1>1, <2>1, <2>3, <2>4, <2>5 DEF Candidacy
<1>6. CASE StartPreVote(n)
  <2>1. Send(VoteRequests(n, "PreVote", currentTerm[n] + 1))
    BY <1>6 DEF StartPreVote
  <2>2. \A x \in VoteRequests(n, "PreVote", currentTerm[n] + 1) : x.type = "PreVote"
    BY DEF VoteRequests
  <2>3. Steady(n)
    BY <1>6 DEF StartPreVote, Steady, leaderVars
  <2> QED BY <1>1, <1>3, <2>1, <2>2, <2>3, NetworkAdds DEF Still
<1>7. CASE StartElection(n)
  <2>1. BecomeCandidate(n) /\ Send(VoteRequests(n, "RequestVote", currentTerm[n] + 1))
    BY <1>7 DEF StartElection
  <2> QED BY <1>5, <2>1, NetworkAdds
<1>8. ASSUME NEW m \in msgs, HandlePreVote(n, m) PROVE Uncompacted' /\ Still(n)
  <2> DEFINE r(b) == [type |-> "PreVoteResponse", src |-> n, dst |-> m.src, term |-> currentTerm[n],
                      granted |-> /\ m.term >= currentTerm[n]
                                  /\ b
                                  /\ IsLogUpToDate(log[n], m.lastLogIndex, m.lastLogTerm)]
  <2>1. PICK b \in BOOLEAN : Reply(m, {r(b)})
    BY <1>8 DEF HandlePreVote
  <2>2. r(b).type = "PreVoteResponse"
    OBVIOUS
  <2> HIDE DEF r
  <2>3. msgs' \subseteq msgs \cup {r(b)}
    BY <2>1, NetworkReply
  <2>4. Steady(n)
    BY <1>8 DEF HandlePreVote, Steady, electionVars, leaderVars
  <2> QED BY <1>1, <1>b, <2>2, <2>3, <2>4 DEF Still
<1>9. ASSUME NEW m \in msgs, HandlePreVoteResponse(n, m) PROVE Uncompacted' /\ (Still(n) \/ Candidacy(n))
  <2>1. m.term \in Nat
    BY MessageKinds DEF TypeOK
  <2>2. CASE BecomeCandidate(n) /\ Exchange(m, VoteRequests(n, "RequestVote", currentTerm[n] + 1))
    BY <1>5, <2>2, NetworkExchange
  <2>3. CASE Discard(m) /\ m.term > currentTerm[n] /\ BecomeFollower(n, m.term)
    BY <1>1, <1>a, <1>4, <2>1, <2>3 DEF Still
  <2>4. CASE Discard(m) /\ UNCHANGED <<currentTerm, role, matchIndex>>
    BY <1>1, <1>a, <2>4 DEF Still, Steady
  <2> QED BY <1>9, <2>2, <2>3, <2>4 DEF HandlePreVoteResponse, electionVars, leaderVars
<1>10. ASSUME NEW m \in msgs, HandleRequestVote(n, m) PROVE Uncompacted' /\ Still(n)
  <2>1. PICK t, g : Reply(m, {[type |-> "RequestVoteResponse", src |-> n, dst |-> m.src,
                               term |-> t, granted |-> g]})
    BY <1>10 DEF HandleRequestVote
  <2> DEFINE r == [type |-> "RequestVoteResponse", src |-> n, dst |-> m.src, term |-> t, granted |-> g]
  <2>2. r.type = "RequestVoteResponse"
    OBVIOUS
  <2> HIDE DEF r
  <2>3. msgs' \subseteq msgs \cup {r}
    BY <2>1, NetworkReply DEF r
  <2>4. m.term \in Nat
    BY MessageKinds DEF TypeOK
  <2>5. Steady(n) \/ StepsDown(n)
    <3>1. CASE m.term > currentTerm[n]
      <4>1. role'[n] = "Follower" /\ currentTerm'[n] = m.term
        BY <1>0, <1>10, <3>1 DEF HandleRequestVote
      <4> QED BY <1>0, <2>4, <3>1, <4>1 DEF StepsDown
    <3>2. CASE ~ (m.term > currentTerm[n])
      BY <1>0, <1>10, <3>2 DEF HandleRequestVote, Steady, leaderVars
    <3> QED BY <3>1, <3>2
  <2> QED BY <1>1, <1>b, <2>2, <2>3, <2>5 DEF Still
<1> QED BY <1>6, <1>7, <1>8, <1>9, <1>10

\* An append of its own by a leader, old or new.
LEMMA GrowsStep ==
    ASSUME TypeOK, TypeOK', Uncompacted, NEW n \in Server, NEW c \in Command \cup {NoOp},
           log' = [log EXCEPT ![n] = AppendEntries(@, <<[term |-> currentTerm[n], cmd |-> c]>>)],
           msgs' \subseteq msgs, UNCHANGED <<snapshot, sendingSnapshot, installing, commitIndex>>,
           role'[n] = "Leader" /\ currentTerm'[n] = currentTerm[n],
           \/ role[n] = "Leader" /\ matchIndex'[n] = matchIndex[n]
           \/ role[n] = "Candidate" /\ \A p \in Server : matchIndex'[n][p] = 0
    PROVE  Uncompacted' /\ Grows(n)
<1> DEFINE e == [term |-> currentTerm[n], cmd |-> c]
<1>1. e \in LogEntry
  BY DEF TypeOK, ElectionTypeOK, LogEntry, Terms
<1> HIDE DEF e
<1>2. Whole(log[n]) /\ log[n] \in LogRecord
  BY DEF Uncompacted, TypeOK, LogTypeOK
<1>3. /\ Whole(AppendEntries(log[n], <<e>>))
      /\ AppendEntries(log[n], <<e>>).entries = Append(Es(n), e)
  BY <1>1, <1>2, WholeAppend DEF Es
<1>4. log' = [log EXCEPT ![n] = AppendEntries(log[n], <<e>>)]
  BY DEF e
<1>5. Es(n)' = Append(Es(n), e) /\ \A d \in Server : Whole(log'[d])
  BY <1>3, <1>4, WholeOthers
<1>6. NothingSent
  BY NetworkSame
<1>7. Uncompacted'
  <2> DEFINE out == {}
  <2>1. \A x \in out : x.type \notin {"InstallSnapshot", "InstallSnapshotResponse"}
    OBVIOUS
  <2> HIDE DEF out
  <2>2. msgs' \subseteq msgs \cup out
    OBVIOUS
  <2> QED BY <1>5, <2>1, <2>2, UncompactedStays
<1> QED BY <1>5, <1>6, <1>7 DEF Grows, e

\* A request is cut from the leader's log.
LEMMA SendsStep ==
    ASSUME TypeOK, TypeOK', Uncompacted, NEW n \in Server, NEW p \in Peers(n), SendAppendEntries(n, p)
    PROVE  Uncompacted' /\ Sends(n)
<1> DEFINE next == nextIndex[n][p]
<1>a. p \in Server /\ p # n /\ nextIndex \in [Server -> [Server -> Nat \ {0}]]
  BY DEF Peers, TypeOK, LeaderTypeOK
<1>b. /\ Whole(log[n]) /\ log[n] \in LogRecord /\ snapshot[n].index = 0 /\ currentTerm[n] \in Nat
  BY DEF Uncompacted, TypeOK, LogTypeOK, ElectionTypeOK, NoSnapshot
<1>0. /\ next \in Nat /\ next - 1 \in Nat /\ next >= 1
      /\ Es(n) \in Seq(LogEntry) /\ Len(Es(n)) \in Nat
  BY <1>a, <1>b, LogFacts DEF Es
<1> DEFINE last == LastIndex(log[n])
<1>1. last = Len(Es(n))
  BY <1>0, <1>b, WholeFacts DEF Es
<1>2. PICK to \in IF next > last THEN {last} ELSE next .. LesserOf(last, next + MaxBatch - 1) :
         Send({AppendEntriesRequest(n, p, to)})
  <2>1. ~ (next <= snapshot[n].index)
    BY <1>0, <1>b
  <2> QED BY <2>1 DEF SendAppendEntries
<1> DEFINE m == AppendEntriesRequest(n, p, to)
<1> DEFINE es == IF next > last THEN <<>> ELSE SubSeq(Es(n), next, to)
<1>3. m = [type |-> "AppendEntries", src |-> n, dst |-> p, orphan |-> FALSE,
           term |-> currentTerm[n], prevLogIndex |-> next - 1,
           prevLogTerm |-> OrZero(TermAt(log[n], next - 1)),
           entries |-> es, leaderCommit |-> commitIndex[n]]
  <2>1. next - log[n].snapIndex = next /\ to - log[n].snapIndex = to
    <3>1. to \in Int
      BY <1>0, <1>1, BoundAssumption DEF LesserOf
    <3> QED BY <1>0, <1>b, <3>1 DEF Whole
  <2> QED BY <2>1 DEF AppendEntriesRequest, Entries, Es
<1> HIDE DEF m
<1>4. /\ es # <<>> => next - 1 + Len(es) <= Len(Es(n))
      /\ \A k \in 1 .. Len(es) : es[k] = Es(n)[next - 1 + k]
  <2>1. CASE next > last
    BY <2>1
  <2>2. CASE ~ (next > last)
    <3>1. to \in Int /\ next <= to /\ to <= Len(Es(n))
      BY <1>0, <1>1, <1>2, <2>2, BoundAssumption DEF LesserOf
    <3>2. \A i \in next .. to : Es(n)[i] \in LogEntry
      BY <1>0, <3>1
    <3> HIDE DEF next, last
    <3>3. /\ Len(SubSeq(Es(n), next, to)) = to - next + 1
          /\ \A k \in 1 .. to - next + 1 : SubSeq(Es(n), next, to)[k] = Es(n)[next + k - 1]
      BY <1>0, <3>1, <3>2, SubSeqProperties
    <3>4. es = SubSeq(Es(n), next, to)
      BY <2>2
    <3> HIDE DEF es
    <3>5. next - 1 + (to - next + 1) = to
      BY <1>0, <3>1
    <3>6. ASSUME NEW k \in 1 .. Len(es) PROVE es[k] = Es(n)[next - 1 + k]
      <4>1. k \in 1 .. to - next + 1 /\ next + k - 1 = next - 1 + k
        BY <1>0, <3>1, <3>3, <3>4
      <4> QED BY <3>3, <3>4, <4>1
    <3> QED BY <3>1, <3>3, <3>4, <3>5, <3>6
  <2> QED BY <2>1, <2>2
<1> HIDE DEF es, last
<1>5. /\ next - 1 = 0 => OrZero(TermAt(log[n], next - 1)) = 0
      /\ next - 1 \in 1 .. Len(Es(n)) =>
            OrZero(TermAt(log[n], next - 1)) = OrZero(Es(n)[next - 1].term)
      /\ next - 1 > Len(Es(n)) => OrZero(TermAt(log[n], next - 1)) = 0
  <2> DEFINE i == next - 1
  <2>1. i \in Int
    BY <1>0
  <2> HIDE DEF i
  <2>2. /\ TermAt(log[n], 0) = 0
        /\ i \in 1 .. Len(Es(n)) => TermAt(log[n], i) = Es(n)[i].term
        /\ i > Len(Es(n)) => TermAt(log[n], i) = NoTerm
    BY <1>0, <1>b, <2>1, WholeFacts DEF Es
  <2>3. /\ i = 0 => OrZero(TermAt(log[n], i)) = 0
        /\ i \in 1 .. Len(Es(n)) => OrZero(TermAt(log[n], i)) = OrZero(Es(n)[i].term)
        /\ i > Len(Es(n)) => OrZero(TermAt(log[n], i)) = 0
    BY <2>2 DEF OrZero, NoTerm
  <2> QED BY <2>3 DEF i
<1> HIDE DEF next
<1>6. TakenFrom(m, n) /\ m.type = "AppendEntries"
  BY <1>0, <1>a, <1>b, <1>3, <1>4, <1>5 DEF TakenFrom
<1>7. /\ UNCHANGED <<log, commitIndex, snapshot, installing>>
      /\ sendingSnapshot' = sendingSnapshot
      /\ role[n] = "Leader" /\ Steady(n)
  BY <1>0, <1>b DEF SendAppendEntries, Steady, electionVars, leaderVars, logVars, applyVars, next
<1>8. msgs' \subseteq msgs \cup {m}
  BY <1>2, NetworkAdds DEF m
<1> DEFINE out == {m}
<1>9. \A x \in out : x.type = "AppendEntries"
  BY <1>6
<1> HIDE DEF out
<1>10. msgs' \subseteq msgs \cup out
  BY <1>8 DEF out
<1>11. OldAcks /\ OldBallots
  BY <1>9, <1>10, NetworkOld
<1>12. Uncompacted'
  BY <1>7, <1>9, <1>10, UncompactedStays DEF Uncompacted
<1>13. \A x \in Appends' : (\E k \in Appends : CopyOf(x, k)) \/ TakenFrom(x, n)
  BY <1>6, <1>8 DEF Appends, CopyOf
<1> QED BY <1>7, <1>11, <1>12, <1>13 DEF Sends

\* A vote that elects makes a log grow, other answers to candidates are still.
LEMMA VoteResponseKinds ==
    ASSUME TypeOK, TypeOK', Uncompacted, NEW n \in Server, NEW m \in msgs,
           HandleRequestVoteResponse(n, m)
    PROVE  Uncompacted' /\ (Still(n) \/ Grows(n))
<1>0. /\ log \in [Server -> LogRecord] /\ role \in [Server -> {"Follower", "Candidate", "Leader"}]
      /\ currentTerm \in [Server -> Nat] /\ matchIndex \in [Server -> [Server -> Nat]]
      /\ m.term \in Nat
  BY MessageKinds DEF TypeOK, ElectionTypeOK, LeaderTypeOK, LogTypeOK
<1>1. /\ msgs' \subseteq msgs
      /\ UNCHANGED <<snapshot, commitIndex, sendingSnapshot, installing>>
  BY DEF HandleRequestVoteResponse, applyVars, taskVars, Discard
<1>2. ASSUME UNCHANGED log PROVE NothingSent /\ Uncompacted'
  <2> DEFINE out == {}
  <2>1. \A x \in out : x.type \notin {"InstallSnapshot", "InstallSnapshotResponse"}
    OBVIOUS
  <2> HIDE DEF out
  <2>2. msgs' \subseteq msgs \cup out
    BY <1>1
  <2> QED BY <1>1, <1>2, <2>1, <2>2, UncompactedStays, NetworkSame DEF Uncompacted
<1>3. CASE m.term > currentTerm[n] /\ BecomeFollower(n, m.term) /\ UNCHANGED log
  <2>1. StepsDown(n)
    BY <1>0, <1>3 DEF BecomeFollower, StepsDown
  <2> QED BY <1>1, <1>2, <1>3, <2>1 DEF Still
<1>4. CASE UNCHANGED <<currentTerm, role, leaderVars, log>>
  BY <1>1, <1>2, <1>4 DEF Still, Steady, leaderVars
<1>5. CASE CountsVote(n, m) /\ UNCHANGED currentTerm /\ BecomeLeader(n)
  <2>1. /\ role'[n] = "Leader" /\ role[n] = "Candidate" /\ currentTerm'[n] = currentTerm[n]
        /\ \A p \in Server : matchIndex'[n][p] = 0
    BY <1>0, <1>5 DEF BecomeLeader, CountsVote
  <2>2. log' = [log EXCEPT ![n] = AppendEntries(@, <<[term |-> currentTerm[n], cmd |-> NoOp]>>)]
    BY <1>5 DEF BecomeLeader
  <2> QED BY <1>1, <2>1, <2>2, GrowsStep
<1> QED BY <1>3, <1>4, <1>5 DEF HandleRequestVoteResponse, electionVars

\* What a request about logs holds.
LEMMA AppendFacts ==
    ASSUME TypeOK, NEW m \in Appends
    PROVE  /\ m \in AppendRequest /\ m.src \in Server /\ m.dst \in Server /\ m.term \in Nat
           /\ m.prevLogIndex \in Nat /\ m.prevLogTerm \in Int /\ m.entries \in Seq(LogEntry)
           /\ Len(m.entries) \in Nat /\ m.leaderCommit \in Nat
<1>1. m \in AppendRequest
  BY MessageKinds DEF Appends, TypeOK
<1> QED BY <1>1 DEF AppendRequest, Terms

\* A follower answers AppendEntries: it takes the entries over or it is still.
LEMMA TakesStep ==
    ASSUME TypeOK, TypeOK', Uncompacted, NEW n \in Server, NEW m \in msgs, HandleAppendEntries(n, m)
    PROVE  Uncompacted' /\ (Still(n) \/ (m \in Appends /\ Takes(n, m)))
<1>0. /\ log \in [Server -> LogRecord] /\ role \in [Server -> {"Follower", "Candidate", "Leader"}]
      /\ currentTerm \in [Server -> Nat] /\ matchIndex \in [Server -> [Server -> Nat]]
      /\ commitIndex \in [Server -> Nat]
  BY DEF TypeOK, ElectionTypeOK, LeaderTypeOK, LogTypeOK, ApplyTypeOK
<1>a. m \in Appends /\ m.dst = n
  BY DEF HandleAppendEntries, Appends
<1>b. /\ m.term \in Nat /\ m.prevLogIndex \in Nat /\ m.prevLogTerm \in Int
      /\ m.entries \in Seq(LogEntry) /\ Len(m.entries) \in Nat /\ m.leaderCommit \in Nat
  BY <1>a, AppendFacts
<1>c. UNCHANGED <<snapshot, sendingSnapshot, installing>>
  BY DEF HandleAppendEntries, taskVars
<1> DEFINE last == m.prevLogIndex + Len(m.entries)
<1> DEFINE advances == m.leaderCommit > commitIndex[n]
<1> DEFINE newCommit == LesserOf(m.leaderCommit, last)
<1>1. ASSUME NEW t, NEW i, NEW c, UNCHANGED <<log, commitIndex>>,
             Reply(m, {AppendResponse(n, m, t, FALSE, i, c)})
      PROVE  NothingSent /\ Uncompacted'
  <2> DEFINE r == AppendResponse(n, m, t, FALSE, i, c)
  <2> DEFINE out == {r}
  <2>1. \A x \in out : x.type = "AppendEntriesResponse" /\ ~ x.success
    BY DEF AppendResponse
  <2> HIDE DEF r
  <2>2. msgs' \subseteq msgs \cup {r}
    BY <1>1, NetworkReply DEF r
  <2> HIDE DEF out
  <2>3. msgs' \subseteq msgs \cup out
    BY <2>2 DEF out
  <2>4. NothingSent
    BY <2>1, <2>3, NetworkOld DEF NothingSent
  <2> QED BY <1>1, <1>c, <2>1, <2>3, <2>4, UncompactedStays DEF Uncompacted
<1>2. CASE /\ m.term < currentTerm[n]
           /\ Reply(m, {AppendResponse(n, m, currentTerm[n], FALSE, 0, NoConflict)})
           /\ UNCHANGED <<electionVars, leaderVars, log, commitIndex>>
  <2>1. NothingSent /\ Uncompacted'
    BY <1>1, <1>2
  <2> QED BY <1>2, <2>1 DEF Still, Steady, electionVars, leaderVars
<1>3. ASSUME m.term >= currentTerm[n], BecomeFollower(n, m.term)
      PROVE  role'[n] = "Follower" /\ currentTerm'[n] = m.term
  BY <1>0, <1>b, <1>3 DEF BecomeFollower
<1>4. CASE /\ m.term >= currentTerm[n]
           /\ BecomeFollower(n, m.term)
           /\ Reply(m, {AppendResponse(n, m, m.term, FALSE, 0, ConflictInfo(log[n], m.prevLogIndex))})
           /\ UNCHANGED <<log, commitIndex>>
  <2>1. NothingSent /\ Uncompacted'
    BY <1>1, <1>4
  <2>2. StepsDown(n)
    BY <1>3, <1>4 DEF StepsDown
  <2> QED BY <1>4, <2>1, <2>2 DEF Still
<1>5. CASE /\ m.term >= currentTerm[n]
           /\ BecomeFollower(n, m.term)
           /\ MatchesPrevLog(log[n], m.prevLogIndex, m.prevLogTerm)
           /\ log' = [log EXCEPT ![n] = AppendEntriesFrom(@, m.prevLogIndex, m.entries)]
           /\ commitIndex' = [commitIndex EXCEPT ![n] = IF advances THEN SetCommitIndex(@, newCommit) ELSE @]
           /\ Reply(m, IF advances /\ newCommit < commitIndex[n] THEN {}
                       ELSE {AppendResponse(n, m, m.term, TRUE, last, NoConflict)})
  <2> DEFINE r == AppendResponse(n, m, m.term, TRUE, last, NoConflict)
  <2>1. /\ r.type = "AppendEntriesResponse" /\ r.src = n /\ r.dst = m.src /\ r.term = m.term
        /\ r.matchIndex = last
    BY DEF AppendResponse
  <2> HIDE DEF r
  <2>2. msgs' \subseteq msgs \cup {r}
    <3>1. Reply(m, {}) \/ Reply(m, {r})
      BY <1>5 DEF r
    <3>2. CASE Reply(m, {})
      <4>1. Exchange(m, {})
        BY <3>2 DEF Reply
      <4> QED BY <4>1 DEF Exchange
    <3> QED BY <3>1, <3>2, NetworkReply
  <2> DEFINE new == AppendEntriesFrom(log[n], m.prevLogIndex, m.entries)
  <2>3. log[n] \in LogRecord /\ Whole(log[n])
    BY <1>0 DEF Uncompacted
  <2>4. PrevMatches(Es(n), m.prevLogIndex, m.prevLogTerm) /\ m.prevLogIndex \in 0 .. Len(Es(n))
    BY <1>b, <1>5, <2>3, WholeMatches DEF Es
  <2>5. /\ Whole(new) /\ Merged(Es(n), new.entries, m.prevLogIndex, m.entries)
        /\ last <= Len(new.entries)
    BY <1>b, <2>3, <2>4, AppendFromMerges DEF Es
  <2>6. log' = [log EXCEPT ![n] = new]
    BY <1>5
  <2> HIDE DEF new
  <2>7. Es(n)' = new.entries /\ \A c \in Server : Whole(log'[c])
    BY <2>5, <2>6, WholeOthers
  <2> DEFINE out == {r}
  <2>8. \A x \in out : x.type = "AppendEntriesResponse"
    BY <2>1
  <2> HIDE DEF out
  <2>9. msgs' \subseteq msgs \cup out
    BY <2>2 DEF out
  <2>10. OldAppends /\ OldBallots /\ Uncompacted'
    BY <1>c, <2>7, <2>8, <2>9, NetworkOld, UncompactedStays
  <2>11. \A x \in Acks' : x \in Acks \/ x = r
    BY <2>2 DEF Acks
  <2>12. commitIndex'[n] \in {commitIndex[n], newCommit}
    BY <1>0, <1>5 DEF SetCommitIndex
  <2>13. newCommit <= m.leaderCommit /\ newCommit <= last
    BY <1>b DEF LesserOf
  <2> HIDE DEF newCommit
  <2>14. Takes(n, m)
    BY <1>3, <1>5, <1>a, <2>1, <2>4, <2>5, <2>7, <2>10, <2>11, <2>12, <2>13 DEF Takes
  <2> QED BY <1>a, <2>10, <2>14
<1> QED BY <1>2, <1>4, <1>5 DEF HandleAppendEntries

\* A crash takes the start of the entries over, or nothing.
LEMMA CrashKinds ==
    ASSUME TypeOK, TypeOK', Uncompacted, NEW n \in Server,
           Restart(n) \/ \E m \in msgs : CrashAfterTruncate(n, m)
    PROVE  Uncompacted' /\ (Still(n) \/ \E m \in Appends : Takes(n, m))
<1>0. /\ log \in [Server -> LogRecord] /\ role \in [Server -> {"Follower", "Candidate", "Leader"}]
      /\ currentTerm \in [Server -> Nat] /\ commitIndex \in [Server -> Nat]
      /\ sendingSnapshot \in [Server -> SUBSET Server]
      /\ installing \in [Server -> InstallRequest \cup {Nil}]
      /\ log[n] \in LogRecord /\ Whole(log[n]) /\ snapshot[n].index = 0
  BY DEF TypeOK, ElectionTypeOK, LogTypeOK, ApplyTypeOK, TaskTypeOK, Uncompacted, NoSnapshot
<1>1. ASSUME NEW l, Reboot(n, l)
      PROVE  /\ role'[n] = "Follower" /\ commitIndex'[n] = 0
             /\ log' = [log EXCEPT ![n] = Reload(l)]
             /\ \A c \in Server : sendingSnapshot'[c] = {} /\ installing'[c] = Nil
  BY <1>0, <1>1 DEF Reboot, Uncompacted
<1>2. ASSUME NEW ms \in SUBSET msgs, msgs' = Orphaned(n, ms), UNCHANGED snapshot,
             \A c \in Server : Whole(log'[c]),
             \A c \in Server : sendingSnapshot'[c] = {} /\ installing'[c] = Nil
      PROVE  NothingSent /\ Uncompacted'
  BY <1>2, OrphanedOld DEF Uncompacted
<1>3. CASE Restart(n)
  <2>1. Reboot(n, log[n]) /\ msgs' = Orphaned(n, msgs) /\ UNCHANGED <<currentTerm, snapshot>>
    BY <1>3 DEF Restart
  <2>2. log' = log
    BY <1>0, <1>1, <2>1, WholeReload
  <2>3. \A c \in Server : Whole(log'[c])
    BY <2>2 DEF Uncompacted
  <2>4. NothingSent /\ Uncompacted'
    BY <1>1, <1>2, <2>1, <2>3
  <2>5. StepsDown(n)
    BY <1>0, <1>1, <2>1 DEF StepsDown
  <2> QED BY <1>1, <2>1, <2>2, <2>4, <2>5 DEF Still
<1>4. ASSUME NEW m \in msgs, CrashAfterTruncate(n, m) PROVE Uncompacted' /\ m \in Appends /\ Takes(n, m)
  <2> DEFINE k == TruncateConflict(log[n], m.prevLogIndex, m.entries)
  <2>1. /\ m \in Appends /\ m.dst = n /\ m.term >= currentTerm[n]
        /\ MatchesPrevLog(log[n], m.prevLogIndex, m.prevLogTerm)
        /\ currentTerm' = [currentTerm EXCEPT ![n] = m.term]
        /\ Reboot(n, k) /\ msgs' = Orphaned(n, msgs \ {m}) /\ UNCHANGED snapshot
    BY <1>4 DEF CrashAfterTruncate, Appends
  <2>2. /\ m.term \in Nat /\ m.prevLogIndex \in Nat /\ m.prevLogTerm \in Int
        /\ m.entries \in Seq(LogEntry)
    BY <2>1, AppendFacts
  <2>3. PrevMatches(Es(n), m.prevLogIndex, m.prevLogTerm) /\ m.prevLogIndex \in 0 .. Len(Es(n))
    BY <1>0, <2>1, <2>2, WholeMatches DEF Es
  <2>4. Whole(k) /\ Merged(Es(n), k.entries, m.prevLogIndex, m.entries) /\ k \in LogRecord
    BY <1>0, <2>2, <2>3, TruncateMerges, TruncateConflictType DEF Es
  <2> HIDE DEF k
  <2>5. log' = [log EXCEPT ![n] = k]
    BY <1>1, <2>1, <2>4, WholeReload
  <2>6. Es(n)' = k.entries /\ \A c \in Server : Whole(log'[c])
    BY <2>4, <2>5, WholeOthers
  <2>7. msgs \ {m} \in SUBSET msgs
    OBVIOUS
  <2>8. NothingSent /\ Uncompacted'
    BY <1>1, <1>2, <2>1, <2>6, <2>7
  <2>9. currentTerm'[n] = m.term /\ currentTerm[n] <= m.term
    BY <1>0, <2>1, <2>2
  <2> QED BY <1>1, <2>1, <2>3, <2>4, <2>6, <2>8, <2>9 DEF Takes, NothingSent, OldAcks
<1> QED BY <1>3, <1>4

\* An answer to AppendEntries raises matchIndex and commitIndex, or is still.
LEMMA ConfirmsStep ==
    ASSUME TypeOK, TypeOK', Uncompacted, NEW n \in Server, NEW m \in msgs,
           HandleAppendEntriesResponse(n, m)
    PROVE  Uncompacted' /\ (Still(n) \/ (m \in Acks /\ Confirms(n, m)))
<1>0. /\ role \in [Server -> {"Follower", "Candidate", "Leader"}]
      /\ currentTerm \in [Server -> Nat] /\ matchIndex \in [Server -> [Server -> Nat]]
      /\ commitIndex \in [Server -> Nat] /\ m.term \in Nat /\ m.src \in Server
  BY MessageKinds DEF TypeOK, ElectionTypeOK, LeaderTypeOK, ApplyTypeOK
<1>1. /\ msgs' \subseteq msgs /\ m.dst = n
      /\ UNCHANGED <<log, snapshot, sendingSnapshot, installing>>
  BY DEF HandleAppendEntriesResponse, logVars, taskVars, Discard
<1>2. NothingSent /\ Uncompacted'
  <2> DEFINE out == {}
  <2>1. \A x \in out : x.type \notin {"InstallSnapshot", "InstallSnapshotResponse"}
    OBVIOUS
  <2> HIDE DEF out
  <2>2. msgs' \subseteq msgs \cup out
    BY <1>1
  <2> QED BY <1>1, <2>1, <2>2, UncompactedStays, NetworkSame DEF Uncompacted
<1>3. CASE m.term > currentTerm[n] /\ BecomeFollower(n, m.term) /\ UNCHANGED commitIndex
  <2>1. StepsDown(n)
    BY <1>0, <1>3 DEF BecomeFollower, StepsDown
  <2> QED BY <1>1, <1>2, <1>3, <2>1 DEF Still
<1>4. CASE UNCHANGED <<currentTerm, role, matchIndex, commitIndex>>
  BY <1>1, <1>2, <1>4 DEF Still, Steady
<1> DEFINE ahead == m.matchIndex > matchIndex[n][m.src]
<1> DEFINE match == [matchIndex[n] EXCEPT ![m.src] = IF ahead THEN m.matchIndex ELSE @]
<1> DEFINE newCommit == CalculateCommitIndex(log[n], currentTerm[n], Peers(n), match)
<1>5. CASE /\ role[n] = "Leader" /\ m.term = currentTerm[n] /\ m.success
           /\ matchIndex' = [matchIndex EXCEPT ![n] = match]
           /\ commitIndex' = [commitIndex EXCEPT ![n] = IF newCommit > @ THEN newCommit ELSE @]
           /\ UNCHANGED electionVars
  <2>1. \A p \in Server : \/ match[p] = matchIndex[n][p]
                          \/ p = m.src /\ match[p] = m.matchIndex
    BY <1>0
  <2> HIDE DEF match
  <2>2. matchIndex'[n] = match
    BY <1>0, <1>5
  <2>3. newCommit = CalculateCommitIndex(log[n], currentTerm[n], Peers(n), matchIndex'[n])
    BY <2>2
  <2> HIDE DEF newCommit
  <2>4. commitIndex'[n] = commitIndex[n] \/ (commitIndex'[n] = newCommit /\ newCommit > commitIndex[n])
    BY <1>0, <1>5
  <2>5. commitIndex'[n] = commitIndex[n] \/ (commitIndex'[n] = newCommit /\ commitIndex'[n] > 0)
    <3>1. commitIndex[n] \in Nat /\ commitIndex'[n] \in Nat
      BY DEF TypeOK, ApplyTypeOK
    <3> QED BY <2>4, <3>1
  <2>6. m \in Acks
    BY <1>5 DEF HandleAppendEntriesResponse, Acks
  <2> QED BY <1>1, <1>2, <1>5, <2>1, <2>2, <2>3, <2>5, <2>6 DEF Confirms, electionVars
<1> QED BY <1>3, <1>4, <1>5 DEF HandleAppendEntriesResponse, electionVars, leaderVars

\* Without snapshots, every step is of one of these kinds.
LEMMA SafetyKinds ==
    ASSUME TypeOK, TypeOK', Uncompacted, NoSnapshots, NEW n \in Server, Step(n)
    PROVE  /\ Uncompacted'
           /\ \/ Still(n) \/ Candidacy(n) \/ Grows(n) \/ Sends(n)
              \/ \E m \in Appends : Takes(n, m)
              \/ \E m \in Acks : Confirms(n, m)
<1>1. ASSUME NEW c \in Command, SubmitCommand(n, c) PROVE Uncompacted' /\ Grows(n)
  <2>1. /\ c \in Command \cup {NoOp}
        /\ log' = [log EXCEPT ![n] = AppendEntries(@, <<[term |-> currentTerm[n], cmd |-> c]>>)]
        /\ msgs' \subseteq msgs /\ UNCHANGED <<snapshot, sendingSnapshot, installing, commitIndex>>
        /\ role'[n] = "Leader" /\ currentTerm'[n] = currentTerm[n]
        /\ role[n] = "Leader" /\ matchIndex'[n] = matchIndex[n]
    BY <1>1 DEF SubmitCommand, electionVars, leaderVars, applyVars, taskVars
  <2> QED BY <2>1, GrowsStep
<1>2. CASE ApplyNext(n)
  <2>1. UNCHANGED <<role, currentTerm, matchIndex, log, snapshot, commitIndex, sendingSnapshot,
                    installing, msgs>>
    BY <1>2 DEF ApplyNext, electionVars, leaderVars, logVars
  <2>2. NothingSent
    BY <2>1, NetworkSame
  <2>3. Uncompacted'
    BY <2>1 DEF Uncompacted
  <2> QED BY <2>1, <2>2, <2>3 DEF Still, Steady
<1>3. ~ SaveSnapshot(n) /\ ~ CompactLog(n)
  BY DEF NoSnapshots, SaveSnapshot, CompactLog
<1>4. /\ ~ InstallSnapshot(n) /\ \A p \in Peers(n) : ~ SendSnapshot(n, p)
      /\ \A m \in msgs : ~ ReceiveSnapshot(n, m) /\ ~ HandleInstallSnapshotResponse(n, m)
  BY DEF Uncompacted, InstallSnapshot, SendSnapshot, ReceiveSnapshot, HandleInstallSnapshotResponse,
         Unlocked
<1> QED BY <1>1, <1>2, <1>3, <1>4, ElectionKinds, SendsStep, VoteResponseKinds, TakesStep, CrashKinds,
           ConfirmsStep DEF Step, Receive

-----------------------------------------------------------------------------
(* The same, seen from any node and any message. *)

Kinds(n) ==
    \/ Still(n) \/ Candidacy(n) \/ Grows(n) \/ Sends(n)
    \/ \E m \in Appends : Takes(n, m)
    \/ \E m \in Acks : Confirms(n, m)

\* How roles and terms change.
LEMMA RoleFacts ==
    ASSUME TypeOK, NEW n \in Server, Others(n), Kinds(n), NEW c \in Server
    PROVE  /\ currentTerm'[c] >= currentTerm[c]
           /\ role'[c] = "Candidate" =>
                 \/ role[c] = "Candidate" /\ currentTerm'[c] = currentTerm[c]
                 \/ c = n /\ Candidacy(n)
           /\ role'[c] = "Leader" =>
                 \/ role[c] = "Leader" /\ currentTerm'[c] = currentTerm[c]
                 \/ /\ c = n /\ Grows(n) /\ role[c] = "Candidate" /\ currentTerm'[c] = currentTerm[c]
                    /\ \A p \in Server : matchIndex'[c][p] = 0
<1>0. currentTerm[c] \in Nat
  BY DEF TypeOK, ElectionTypeOK
<1>1. CASE c # n
  BY <1>0, <1>1 DEF Others
<1>2. CASE c = n /\ (Still(n) \/ Sends(n))
  <2>1. \/ role'[n] = role[n] /\ currentTerm'[n] = currentTerm[n]
        \/ role'[n] = "Follower" /\ currentTerm'[n] >= currentTerm[n]
    BY <1>2 DEF Still, Sends, Steady, StepsDown
  <2> QED BY <1>0, <1>2, <2>1
<1>3. CASE c = n /\ Candidacy(n)
  BY <1>0, <1>3 DEF Candidacy
<1>4. CASE c = n /\ Grows(n)
  <2>1. /\ role'[n] = "Leader" /\ currentTerm'[n] = currentTerm[n]
        /\ \/ role[n] = "Leader"
           \/ role[n] = "Candidate" /\ \A p \in Server : matchIndex'[n][p] = 0
    BY <1>4 DEF Grows
  <2> QED BY <1>0, <1>4, <2>1
<1>5. CASE c = n /\ \E m \in Appends : Takes(n, m)
  BY <1>0, <1>5, AppendFacts DEF Takes
<1>6. CASE c = n /\ \E m \in Acks : Confirms(n, m)
  BY <1>0, <1>6 DEF Confirms
<1> QED BY <1>1, <1>2, <1>3, <1>4, <1>5, <1>6 DEF Kinds

\* How logs change.
LEMMA LogChange ==
    ASSUME NEW n \in Server, Others(n), Kinds(n), NEW c \in Server
    PROVE  \/ Es(c)' = Es(c)
           \/ c = n /\ Grows(n)
           \/ c = n /\ \E m \in Appends : Takes(n, m)
BY DEF Others, Kinds, Still, Candidacy, Sends, Confirms, Es

\* Where requests and answers come from.
LEMMA MessageChange ==
    ASSUME NEW n \in Server, Kinds(n)
    PROVE  /\ \A m \in Appends' : \/ \E k \in Appends : CopyOf(m, k)
                                  \/ Sends(n) /\ TakenFrom(m, n)
           /\ \A r \in Acks' :
                 \/ r \in Acks
                 \/ \E m \in Appends :
                       /\ Takes(n, m)
                       /\ r.src = n /\ r.dst = m.src /\ r.term = m.term
                       /\ r.matchIndex = m.prevLogIndex + Len(m.entries)
                       /\ r.matchIndex <= Len(Es(n)')
           /\ \A b \in Ballots' :
                 \/ \E k \in Ballots : SameBallot(b, k)
                 \/ /\ Candidacy(n)
                    /\ b.src = n /\ b.term = currentTerm[n] + 1
                    /\ b.lastLogIndex = Len(Es(n)) /\ b.lastLogTerm = LastTermOf(Es(n))
<1>1. CASE Still(n) \/ Grows(n) \/ \E m \in Acks : Confirms(n, m)
  BY <1>1 DEF Still, Grows, Confirms, NothingSent, OldAppends, OldAcks, OldBallots
<1>2. CASE Candidacy(n)
  BY <1>2 DEF Candidacy, OldAppends, OldAcks
<1>3. CASE Sends(n)
  BY <1>3 DEF Sends, OldAcks, OldBallots
<1>4. ASSUME NEW m \in Appends, Takes(n, m)
      PROVE  /\ OldAppends /\ OldBallots
             /\ \A r \in Acks' :
                 \/ r \in Acks
                 \/ /\ r.src = n /\ r.dst = m.src /\ r.term = m.term
                    /\ r.matchIndex = m.prevLogIndex + Len(m.entries)
                    /\ r.matchIndex <= Len(Es(n)')
  BY <1>4 DEF Takes
<1>5. CASE \E m \in Appends : Takes(n, m)
  BY <1>4, <1>5 DEF OldAppends, OldBallots
<1> QED BY <1>1, <1>2, <1>3, <1>5 DEF Kinds

\* Where votes come from.
LEMMA NewVotes ==
    ASSUME TypeOK, LeaderHasQuorum, NEW n \in Server, Step(n)
    PROVE  /\ VoteKept
           /\ \A g \in VotesGiven' :
                 \/ g \in VotesGiven
                 \/ /\ JustCast(g)
                    /\ g.voter = n
                    /\ \/ g.candidate = n
                       \/ \E m \in Ballots : Answers(g, n, m) /\ UNCHANGED log
<1>1. VoteKept
  BY VoteKeptNext DEF Next
<1>2. ASSUME NEW g \in VotesGiven', g \notin VotesGiven
      PROVE  /\ JustCast(g)
             /\ g.voter = n
             /\ \/ g.candidate = n
                \/ \E m \in Ballots : Answers(g, n, m) /\ UNCHANGED log
  <2>1. CASE Quiet
    BY <1>2, <2>1, QuietVotes DEF Quiet
  <2>2. CASE BecomeCandidate(n) /\ NoNewGrant
    BY <1>2, <2>2, CandidacyStep
  <2>3. ASSUME NEW m \in msgs, HandleRequestVote(n, m)
        PROVE  /\ JustCast(g)
               /\ g.voter = n
               /\ m \in Ballots /\ Answers(g, n, m) /\ UNCHANGED log
    <3>1. JustCast(g) /\ Answers(g, n, m)
      BY <1>2, <2>3, VoteRequestStep
    <3>2. UNCHANGED log
      BY <2>3 DEF HandleRequestVote, logVars
    <3> QED BY <3>1, <3>2 DEF Answers, Ballots
  <2>4. ASSUME NEW m \in msgs, HandleRequestVoteResponse(n, m), CountsVote(n, m),
               ~ (m.term > currentTerm[n])
        PROVE  FALSE
    BY <1>2, <2>4, CountStep
  <2> QED BY <2>1, <2>2, <2>3, <2>4, StepKinds
<1> QED BY <1>1, <1>2

-----------------------------------------------------------------------------
(* Links: an entry, its index and the term of the entry before it. *)

LinkAt(n, i) == [index |-> i, entry |-> Es(n)[i], prev |-> IF i = 1 THEN 0 ELSE Es(n)[i - 1].term]
LinkIn(m, k) == [index |-> m.prevLogIndex + k, entry |-> m.entries[k],
                 prev |-> IF k = 1 THEN m.prevLogTerm ELSE m.entries[k - 1].term]

LogLinks(n) == {LinkAt(n, i) : i \in 1 .. Len(Es(n))}
SentLinks(m) == {LinkIn(m, k) : k \in 1 .. Len(m.entries)}
HeldLinks == UNION {LogLinks(n) : n \in Server}
FlyingLinks == UNION {SentLinks(m) : m \in Appends}
Links == HeldLinks \cup FlyingLinks

\* A request some log may match.  sendAppendEntries also sends prevLogTerm 0 for
\* a prevLogIndex its log does not reach: no log matches that one.
Matchable(m) == (m.prevLogIndex = 0) = (m.prevLogTerm = 0)

Shape ==
    /\ \A n \in Server : role[n] # "Follower" => currentTerm[n] >= 1
    /\ \A n \in Server : \A i \in 1 .. Len(Es(n)) : Es(n)[i].term <= currentTerm[n]
    /\ \A m \in Appends : \A k \in 1 .. Len(m.entries) : m.entries[k].term <= m.term
    /\ \A x \in Links : 1 <= x.entry.term /\ 0 <= x.prev /\ x.prev <= x.entry.term
    /\ \A m \in Appends : m.entries # <<>> => Matchable(m)

LinksAgree ==
    \A x, y \in Links : x.index = y.index /\ x.entry.term = y.entry.term => x = y

\* How to tell and to use a link.
LEMMA LinkFacts ==
    /\ \A n \in Server : \A i \in 1 .. Len(Es(n)) : LinkAt(n, i) \in LogLinks(n) /\ LinkAt(n, i) \in Links
    /\ \A m \in Appends : \A k \in 1 .. Len(m.entries) : LinkIn(m, k) \in Links
    /\ \A n, i : /\ LinkAt(n, i).index = i /\ LinkAt(n, i).entry = Es(n)[i]
                 /\ LinkAt(n, i).prev = IF i = 1 THEN 0 ELSE Es(n)[i - 1].term
    /\ \A m, k : /\ LinkIn(m, k).index = m.prevLogIndex + k /\ LinkIn(m, k).entry = m.entries[k]
                 /\ LinkIn(m, k).prev = IF k = 1 THEN m.prevLogTerm ELSE m.entries[k - 1].term
    /\ \A x \in Links : \/ \E n \in Server : \E i \in 1 .. Len(Es(n)) : x = LinkAt(n, i)
                        \/ \E m \in Appends : \E k \in 1 .. Len(m.entries) : x = LinkIn(m, k)
<1>1. ASSUME NEW n \in Server, NEW i \in 1 .. Len(Es(n))
      PROVE  LinkAt(n, i) \in LogLinks(n) /\ LinkAt(n, i) \in Links
  <2>1. LinkAt(n, i) \in LogLinks(n)
    BY DEF LogLinks
  <2>2. LinkAt(n, i) \in HeldLinks
    BY <2>1 DEF HeldLinks
  <2> QED BY <2>1, <2>2 DEF Links
<1>2. ASSUME NEW m \in Appends, NEW k \in 1 .. Len(m.entries)
      PROVE  LinkIn(m, k) \in Links
  <2>1. LinkIn(m, k) \in SentLinks(m)
    BY DEF SentLinks
  <2>2. LinkIn(m, k) \in FlyingLinks
    BY <2>1 DEF FlyingLinks
  <2> QED BY <2>1, <2>2 DEF Links
<1>3. \A n, i : /\ LinkAt(n, i).index = i /\ LinkAt(n, i).entry = Es(n)[i]
               /\ LinkAt(n, i).prev = IF i = 1 THEN 0 ELSE Es(n)[i - 1].term
  BY DEF LinkAt
<1>4. \A m, k : /\ LinkIn(m, k).index = m.prevLogIndex + k /\ LinkIn(m, k).entry = m.entries[k]
               /\ LinkIn(m, k).prev = IF k = 1 THEN m.prevLogTerm ELSE m.entries[k - 1].term
  BY DEF LinkIn
<1>5. ASSUME NEW x \in Links
      PROVE  \/ \E n \in Server : \E i \in 1 .. Len(Es(n)) : x = LinkAt(n, i)
             \/ \E m \in Appends : \E k \in 1 .. Len(m.entries) : x = LinkIn(m, k)
  <2>1. CASE \E n \in Server : x \in LogLinks(n)
    BY <2>1 DEF LogLinks
  <2>2. CASE \E m \in Appends : x \in SentLinks(m)
    BY <2>2 DEF SentLinks
  <2>3. x \in HeldLinks \/ x \in FlyingLinks
    BY DEF Links
  <2>4. x \in HeldLinks => \E n \in Server : x \in LogLinks(n)
    BY DEF HeldLinks
  <2>5. x \in FlyingLinks => \E m \in Appends : x \in SentLinks(m)
    BY DEF FlyingLinks
  <2> QED BY <2>1, <2>2, <2>3, <2>4, <2>5
<1> QED BY <1>1, <1>2, <1>3, <1>4, <1>5

\* The same of a link after a step.
LEMMA LinksAfter ==
    ASSUME NEW x \in Links'
    PROVE  \/ \E c \in Server : \E i \in 1 .. Len(Es(c)') :
                x = [index |-> i, entry |-> Es(c)'[i], prev |-> IF i = 1 THEN 0 ELSE Es(c)'[i - 1].term]
           \/ \E m \in Appends' : \E k \in 1 .. Len(m.entries) : x = LinkIn(m, k)
<1>1. x \in HeldLinks' \/ x \in FlyingLinks'
  BY DEF Links
<1>2. CASE x \in HeldLinks'
  <2>1. PICK c \in Server : x \in LogLinks(c)'
    BY <1>2 DEF HeldLinks
  <2>2. PICK i \in 1 .. Len(Es(c)') : x = LinkAt(c, i)'
    BY <2>1 DEF LogLinks
  <2> QED BY <2>2 DEF LinkAt
<1>3. CASE x \in FlyingLinks'
  <2>1. PICK m \in Appends' : x \in SentLinks(m)
    BY <1>3 DEF FlyingLinks
  <2> QED BY <2>1 DEF SentLinks
<1> QED BY <1>1, <1>2, <1>3

\* A link that a leader's new entry brings.
NewLink(x, n) ==
    /\ Grows(n)
    /\ x.index = Len(Es(n)) + 1 /\ x.entry.term = currentTerm[n] /\ x.prev = LastTermOf(Es(n))

\* A log taken over from a request has the links of the old log and of the request.
LEMMA MergedLinks ==
    ASSUME TypeOK, TypeOK', NEW n \in Server, NEW m \in Appends, Takes(n, m),
           NEW i \in 1 .. Len(Es(n)'), NEW x,
           x = [index |-> i, entry |-> Es(n)'[i], prev |-> IF i = 1 THEN 0 ELSE Es(n)'[i - 1].term]
    PROVE  \/ i \in 1 .. Len(Es(n)) /\ x = LinkAt(n, i)
           \/ i - m.prevLogIndex \in 1 .. Len(m.entries) /\ x = LinkIn(m, i - m.prevLogIndex)
<1> DEFINE old == Es(n)
<1> DEFINE new == Es(n)'
<1> DEFINE prev == m.prevLogIndex
<1> DEFINE es == m.entries
<1>1. /\ Len(old) \in Nat /\ Len(new) \in Nat /\ prev \in Nat /\ Len(es) \in Nat
  BY AppendFacts DEF TypeOK, LogTypeOK, LogRecord, Es
<1>2. Merged(old, new, prev, es) /\ PrevMatches(old, prev, m.prevLogTerm)
  BY DEF Takes
<1> HIDE DEF old, new, prev, es
<1>3. PICK cut \in prev .. Len(old) :
        /\ cut <= Len(new)
        /\ \A j \in 1 .. cut : new[j] = old[j]
        /\ \A j \in cut + 1 .. Len(new) : j <= prev + Len(es) /\ new[j] = es[j - prev]
        /\ \A j \in prev + 1 .. cut : j <= prev + Len(es) => old[j].term = es[j - prev].term
  BY <1>2 DEF Merged
<1>4. x = [index |-> i, entry |-> new[i], prev |-> IF i = 1 THEN 0 ELSE new[i - 1].term] /\ i \in 1 .. Len(new)
  BY DEF new
<1>5. CASE i <= cut
  <2>1. i \in 1 .. cut /\ (i # 1 => i - 1 \in 1 .. cut) /\ i \in 1 .. Len(old)
    BY <1>1, <1>3, <1>5
  <2>2. new[i] = old[i] /\ (i # 1 => new[i - 1] = old[i - 1])
    BY <1>3, <2>1
  <2>3. x = [index |-> i, entry |-> old[i], prev |-> IF i = 1 THEN 0 ELSE old[i - 1].term]
    BY <1>4, <2>2
  <2> QED BY <2>1, <2>3 DEF LinkAt, old
<1>6. CASE ~ (i <= cut)
  <2> DEFINE k == i - prev
  <2>1. i \in cut + 1 .. Len(new)
    BY <1>1, <1>3, <1>4, <1>6
  <2>2. k \in 1 .. Len(es) /\ prev + k = i /\ new[i] = es[k] /\ i <= prev + Len(es)
    BY <1>1, <1>3, <2>1
  <2>3. CASE i - 1 > cut
    <3>1. i - 1 \in cut + 1 .. Len(new) /\ k # 1 /\ i # 1 /\ (i - 1) - prev = k - 1
      BY <1>1, <1>3, <2>1, <2>3
    <3>2. new[i - 1] = es[k - 1]
      BY <1>3, <3>1
    <3>3. x = [index |-> prev + k, entry |-> es[k],
               prev |-> IF k = 1 THEN m.prevLogTerm ELSE es[k - 1].term]
      BY <1>4, <2>2, <3>1, <3>2
    <3> QED BY <2>2, <3>3 DEF LinkIn, es, prev
  <2>4. CASE i - 1 = cut /\ cut > prev
    <3>1. cut \in 1 .. cut /\ cut \in prev + 1 .. cut /\ cut <= prev + Len(es) /\ cut - prev = k - 1
          /\ k # 1 /\ i # 1
      BY <1>1, <1>3, <2>1, <2>2, <2>4
    <3>2. new[i - 1] = old[cut] /\ old[cut].term = es[k - 1].term
      BY <1>3, <2>4, <3>1
    <3>3. x = [index |-> prev + k, entry |-> es[k],
               prev |-> IF k = 1 THEN m.prevLogTerm ELSE es[k - 1].term]
      BY <1>4, <2>2, <3>1, <3>2
    <3> QED BY <2>2, <3>3 DEF LinkIn, es, prev
  <2>5. CASE i - 1 = cut /\ cut = prev
    <3>1. k = 1 /\ i - 1 = prev
      BY <1>1, <1>3, <2>1, <2>5
    <3>2. (IF i = 1 THEN 0 ELSE new[i - 1].term) = m.prevLogTerm
      <4>1. CASE prev = 0
        BY <1>1, <1>2, <3>1, <4>1 DEF PrevMatches
      <4>2. CASE prev # 0
        <5>1. old[prev].term = m.prevLogTerm /\ prev \in 1 .. cut /\ i # 1
          BY <1>1, <1>2, <2>5, <3>1, <4>2 DEF PrevMatches
        <5> QED BY <1>3, <3>1, <5>1
      <4> QED BY <4>1, <4>2
    <3>3. x = [index |-> prev + k, entry |-> es[k],
               prev |-> IF k = 1 THEN m.prevLogTerm ELSE es[k - 1].term]
      BY <1>4, <2>2, <3>1, <3>2
    <3> QED BY <2>2, <3>3 DEF LinkIn, es, prev
  <2>6. i - 1 > cut \/ i - 1 = cut
    BY <1>1, <1>3, <1>6
  <2>7. cut > prev \/ cut = prev
    BY <1>1, <1>3
  <2> QED BY <2>3, <2>4, <2>5, <2>6, <2>7
<1> QED BY <1>5, <1>6

\* A step brings no link, other than that of a leader's own new entry.
LEMMA NewLinks ==
    ASSUME TypeOK, TypeOK', Shape, NEW n \in Server, Others(n), Kinds(n), NEW x \in Links'
    PROVE  x \in Links \/ NewLink(x, n)
<1>1. ASSUME NEW c \in Server, NEW i \in 1 .. Len(Es(c)'),
             x = [index |-> i, entry |-> Es(c)'[i], prev |-> IF i = 1 THEN 0 ELSE Es(c)'[i - 1].term]
      PROVE  x \in Links \/ NewLink(x, n)
  <2>1. CASE Es(c)' = Es(c)
    <3>1. x = LinkAt(c, i) /\ i \in 1 .. Len(Es(c))
      BY <1>1, <2>1 DEF LinkAt
    <3> QED BY <3>1, LinkFacts
  <2>2. ASSUME c = n, NEW m \in Appends, Takes(n, m) PROVE x \in Links
    BY <1>1, <2>2, MergedLinks, LinkFacts
  <2>3. CASE c = n /\ Grows(n)
    <3>1. PICK e : Es(n)' = Append(Es(n), e) /\ e.term = currentTerm[n]
      BY <2>3 DEF Grows
    <3>2. Es(n) \in Seq(LogEntry) /\ Len(Es(n)) \in Nat
      BY LogFacts DEF TypeOK, LogTypeOK, Es
    <3> DEFINE es == Es(n)
    <3> DEFINE new == Es(n)'
    <3>3. Len(new) = Len(es) + 1 /\ new[Len(es) + 1] = e /\ \A j \in 1 .. Len(es) : new[j] = es[j]
      BY <3>1, <3>2
    <3>4. x = [index |-> i, entry |-> new[i], prev |-> IF i = 1 THEN 0 ELSE new[i - 1].term]
          /\ i \in 1 .. Len(new)
      BY <1>1, <2>3
    <3> HIDE DEF new
    <3>5. CASE i = Len(es) + 1
      <4>1. (IF i = 1 THEN 0 ELSE new[i - 1].term) = LastTermOf(es)
        <5>1. CASE i = 1
          <6>1. es = <<>>
            BY <3>2, <3>5, <5>1, EmptySeq
          <6> QED BY <5>1, <6>1 DEF LastTermOf
        <5>2. CASE i # 1
          <6>1. Len(es) \in 1 .. Len(es) /\ i - 1 = Len(es) /\ es # <<>>
            BY <3>2, <3>5, <5>2
          <6> QED BY <3>3, <5>2, <6>1 DEF LastTermOf
        <5> QED BY <5>1, <5>2
      <4> QED BY <2>3, <3>1, <3>3, <3>4, <3>5, <4>1 DEF NewLink
    <3>6. CASE i # Len(es) + 1
      <4>1. i \in 1 .. Len(es) /\ (i # 1 => i - 1 \in 1 .. Len(es))
        BY <3>2, <3>3, <3>4, <3>6
      <4>2. x = LinkAt(n, i)
        BY <3>3, <3>4, <4>1 DEF LinkAt
      <4> QED BY <4>1, <4>2, LinkFacts
    <3> QED BY <3>5, <3>6
  <2> QED BY <2>1, <2>2, <2>3, LogChange
<1>2. ASSUME NEW m \in Appends', NEW k \in 1 .. Len(m.entries), x = LinkIn(m, k)
      PROVE  x \in Links
  <2>1. ASSUME NEW o \in Appends, CopyOf(m, o) PROVE x \in Links
    <3>1. x = LinkIn(o, k) /\ k \in 1 .. Len(o.entries)
      BY <1>2, <2>1 DEF LinkIn, CopyOf
    <3> QED BY <3>1, LinkFacts
  <2>2. CASE TakenFrom(m, n)
    <3>0. m.prevLogIndex \in Nat /\ Len(m.entries) \in Nat /\ Len(Es(n)) \in Nat
      <4>1. m \in Message' /\ m.type = "AppendEntries"
        BY DEF TypeOK, Appends
      <4>2. m \in AppendRequest
        BY <4>1, MessageKinds DEF Message, VoteRequest, VoteResponse, AppendRequest, AppendReply,
              InstallRequest, InstallReply
      <4> QED BY <4>2, LogFacts DEF AppendRequest, TypeOK, LogTypeOK, Es
    <3> DEFINE i == m.prevLogIndex + k
    <3>1. i \in 1 .. Len(Es(n)) /\ m.entries[k] = Es(n)[i] /\ m.entries # <<>>
      <4>1. m.entries # <<>> /\ m.entries[k] = Es(n)[i]
        BY <2>2 DEF TakenFrom
      <4>2. m.prevLogIndex + Len(m.entries) <= Len(Es(n))
        BY <2>2, <4>1 DEF TakenFrom
      <4>3. i \in 1 .. Len(Es(n))
        BY <3>0, <4>2
      <4> QED BY <4>1, <4>3
    <3>2. CASE k = 1 /\ m.prevLogIndex = 0
      BY <1>2, <2>2, <3>1, <3>2, LinkFacts DEF LinkIn, LinkAt, TakenFrom
    <3>3. CASE k = 1 /\ m.prevLogIndex # 0
      <4>1. m.prevLogIndex \in 1 .. Len(Es(n)) /\ i # 1 /\ i - 1 = m.prevLogIndex
        BY <3>0, <3>1, <3>3
      <4>2. Es(n)[m.prevLogIndex].term >= 1
        <5>1. LinkAt(n, m.prevLogIndex) \in Links /\ LinkAt(n, m.prevLogIndex).entry = Es(n)[m.prevLogIndex]
          BY <4>1, LinkFacts
        <5> QED BY <5>1 DEF Shape
      <4>3. m.prevLogTerm = Es(n)[i - 1].term
        BY <2>2, <4>1, <4>2 DEF TakenFrom, OrZero, NoTerm
      <4>4. x = LinkAt(n, i)
        BY <1>2, <3>1, <3>3, <4>1, <4>3 DEF LinkIn, LinkAt
      <4> QED BY <3>1, <4>4, LinkFacts
    <3>4. CASE k # 1
      <4>1. k - 1 \in 1 .. Len(m.entries) /\ i # 1 /\ i - 1 = m.prevLogIndex + (k - 1)
        BY <3>0, <3>4
      <4>2. m.entries[k - 1] = Es(n)[i - 1]
        BY <2>2, <4>1 DEF TakenFrom
      <4>3. x = LinkAt(n, i)
        BY <1>2, <3>1, <3>4, <4>1, <4>2 DEF LinkIn, LinkAt
      <4> QED BY <3>1, <4>3, LinkFacts
    <3> QED BY <3>2, <3>3, <3>4
  <2> QED BY <2>1, <2>2, MessageChange
<1> QED BY <1>1, <1>2, LinksAfter

\* What a request holds after a step.
LEMMA AppendFactsAfter ==
    ASSUME TypeOK', NEW m \in Appends'
    PROVE  /\ m.src \in Server /\ m.dst \in Server /\ m.term \in Nat
           /\ m.prevLogIndex \in Nat /\ m.prevLogTerm \in Int /\ m.entries \in Seq(LogEntry)
           /\ Len(m.entries) \in Nat /\ m.leaderCommit \in Nat
<1>1. m \in Message' /\ m.type = "AppendEntries"
  BY DEF TypeOK, Appends
<1>2. m \in AppendRequest
  BY <1>1, MessageKinds DEF Message, VoteRequest, VoteResponse, AppendRequest, AppendReply,
        InstallRequest, InstallReply
<1> QED BY <1>2 DEF AppendRequest, Terms

\* A log is a sequence of entries with terms.
LEMMA EntryFacts ==
    ASSUME TypeOK, NEW n \in Server
    PROVE  /\ Es(n) \in Seq(LogEntry) /\ Len(Es(n)) \in Nat
           /\ \A i \in 1 .. Len(Es(n)) : Es(n)[i] \in LogEntry /\ Es(n)[i].term \in Int
           /\ currentTerm[n] \in Nat /\ role[n] \in {"Follower", "Candidate", "Leader"}
<1>1. Es(n) \in Seq(LogEntry) /\ Len(Es(n)) \in Nat
  BY LogFacts DEF TypeOK, LogTypeOK, Es
<1>2. \A i \in 1 .. Len(Es(n)) : Es(n)[i] \in LogEntry
  BY <1>1
<1> QED BY <1>1, <1>2 DEF LogEntry, Terms, TypeOK, ElectionTypeOK

\* A request of a candidate says what its log ends with.
RequestInv ==
    \A b \in Ballots : role[b.src] = "Candidate" /\ currentTerm[b.src] = b.term =>
        b.lastLogIndex = Len(Es(b.src)) /\ b.lastLogTerm = LastTermOf(Es(b.src))

CandidateInv ==
    \A n \in Server : role[n] = "Candidate" =>
        \A i \in 1 .. Len(Es(n)) : Es(n)[i].term < currentTerm[n]

\* Nobody asks for, or gets, votes for a term it has not reached.
RequestTerms ==
    /\ \A b \in Ballots : b.src \in Server /\ b.term \in Nat /\ b.term <= currentTerm[b.src]
    /\ \A g \in VotesGiven : g.term <= currentTerm[g.candidate]

\* Terms stay in order, in logs and in requests.
LEMMA ShapeStep ==
    ASSUME TypeOK, TypeOK', Shape, NEW n \in Server, Others(n), Kinds(n)
    PROVE  Shape'
<1>1. ASSUME NEW c \in Server, role'[c] # "Follower" PROVE currentTerm'[c] >= 1
  <2>1. /\ currentTerm[c] \in Nat
        /\ role[c] # "Follower" => currentTerm[c] >= 1
        /\ Candidacy(n) => currentTerm'[n] = currentTerm[n] + 1
    BY EntryFacts DEF Shape, Candidacy
  <2>2. role'[c] = "Candidate" \/ role'[c] = "Leader"
    BY <1>1 DEF TypeOK, ElectionTypeOK
  <2>3. \/ role[c] # "Follower" /\ currentTerm'[c] = currentTerm[c]
        \/ c = n /\ Candidacy(n)
    BY <2>2, RoleFacts
  <2> QED BY <2>1, <2>3
<1>2. ASSUME NEW c \in Server, NEW i \in 1 .. Len(Es(c)') PROVE Es(c)'[i].term <= currentTerm'[c]
  <2>0. currentTerm'[c] >= currentTerm[c] /\ currentTerm[c] \in Nat /\ currentTerm'[c] \in Nat
    BY RoleFacts DEF TypeOK, ElectionTypeOK
  <2>1. CASE Es(c)' = Es(c)
    <3>1. Es(c)[i].term <= currentTerm[c] /\ Es(c)[i].term \in Int
      BY <2>1, EntryFacts DEF Shape
    <3> QED BY <2>0, <2>1, <3>1
  <2>2. CASE c = n /\ Grows(n)
    <3>1. PICK e : Es(n)' = Append(Es(n), e) /\ e.term = currentTerm[n]
      BY <2>2 DEF Grows
    <3>2. i \in 1 .. Len(Es(n)) \/ Es(n)'[i] = e
      BY <2>2, <3>1, EntryFacts
    <3>3. i \in 1 .. Len(Es(n)) => Es(n)'[i] = Es(n)[i]
      BY <3>1, EntryFacts
    <3>4. i \in 1 .. Len(Es(n)) => Es(n)[i].term <= currentTerm[c] /\ Es(n)[i].term \in Int
      BY <2>2, EntryFacts DEF Shape
    <3> QED BY <2>0, <2>2, <3>1, <3>2, <3>3, <3>4
  <2>3. ASSUME c = n, NEW m \in Appends, Takes(n, m) PROVE Es(c)'[i].term <= currentTerm'[c]
    <3>1. currentTerm'[n] = m.term
      BY <2>3 DEF Takes
    <3> DEFINE x == [index |-> i, entry |-> Es(n)'[i], prev |-> IF i = 1 THEN 0 ELSE Es(n)'[i - 1].term]
    <3>2. \/ i \in 1 .. Len(Es(n)) /\ x = LinkAt(n, i)
          \/ i - m.prevLogIndex \in 1 .. Len(m.entries) /\ x = LinkIn(m, i - m.prevLogIndex)
      BY <2>3, MergedLinks
    <3>3. \/ i \in 1 .. Len(Es(n)) /\ Es(n)'[i] = Es(n)[i]
          \/ /\ i - m.prevLogIndex \in 1 .. Len(m.entries)
             /\ Es(n)'[i] = m.entries[i - m.prevLogIndex]
      BY <3>2, LinkFacts
    <3>4. \A k \in 1 .. Len(m.entries) : m.entries[k].term <= m.term
      BY DEF Shape
    <3>5. \A k \in 1 .. Len(Es(n)) : Es(n)[k].term <= currentTerm[n] /\ Es(n)[k].term \in Int
      BY EntryFacts DEF Shape
    <3> QED BY <2>0, <2>3, <3>1, <3>3, <3>4, <3>5
  <2> QED BY <2>1, <2>2, <2>3, LogChange
<1>3. ASSUME NEW m \in Appends', NEW k \in 1 .. Len(m.entries) PROVE m.entries[k].term <= m.term
  <2>1. CASE \E o \in Appends : CopyOf(m, o)
    BY <2>1 DEF Shape, CopyOf
  <2>2. CASE TakenFrom(m, n)
    <3>1. m.prevLogIndex + k \in 1 .. Len(Es(n))
      <4>1. m.entries # <<>> /\ m.prevLogIndex + Len(m.entries) <= Len(Es(n))
        BY <2>2, AppendFactsAfter DEF TakenFrom
      <4> QED BY <4>1, AppendFactsAfter, EntryFacts
    <3> QED BY <2>2, <3>1 DEF TakenFrom, Shape
  <2> QED BY <2>1, <2>2, MessageChange
<1>4. ASSUME NEW x \in Links' PROVE 1 <= x.entry.term /\ 0 <= x.prev /\ x.prev <= x.entry.term
  <2>1. CASE x \in Links
    BY <2>1 DEF Shape
  <2>2. CASE NewLink(x, n)
    <3>1. x.entry.term = currentTerm[n] /\ x.prev = LastTermOf(Es(n)) /\ Grows(n)
      BY <2>2 DEF NewLink
    <3>2. currentTerm[n] >= 1
      BY <3>1 DEF Grows, Shape
    <3>3. CASE Es(n) = <<>>
      BY <3>1, <3>2, <3>3, EntryFacts DEF LastTermOf
    <3>4. CASE Es(n) # <<>>
      <4>1. Len(Es(n)) \in 1 .. Len(Es(n))
        BY <3>4, EntryFacts
      <4>2. LinkAt(n, Len(Es(n))) \in Links /\ LinkAt(n, Len(Es(n))).entry = Es(n)[Len(Es(n))]
        BY <4>1, LinkFacts
      <4>3. x.prev = Es(n)[Len(Es(n))].term
        BY <3>1, <3>4 DEF LastTermOf
      <4>4. 1 <= Es(n)[Len(Es(n))].term /\ Es(n)[Len(Es(n))].term <= currentTerm[n]
        BY <4>1, <4>2 DEF Shape
      <4> QED BY <3>1, <3>2, <4>1, <4>3, <4>4, EntryFacts
    <3> QED BY <3>3, <3>4
  <2> QED BY <2>1, <2>2, NewLinks
<1>5. ASSUME NEW m \in Appends', m.entries # <<>> PROVE Matchable(m)
  <2>1. CASE \E o \in Appends : CopyOf(m, o)
    BY <1>5, <2>1 DEF Shape, CopyOf, Matchable
  <2>2. CASE TakenFrom(m, n)
    <3>1. Len(m.entries) >= 1
      BY <1>5, AppendFactsAfter
    <3>2. m.prevLogIndex + Len(m.entries) <= Len(Es(n))
      BY <1>5, <2>2 DEF TakenFrom
    <3>3. m.prevLogIndex # 0 => m.prevLogIndex \in 1 .. Len(Es(n))
      BY <3>1, <3>2, AppendFactsAfter, EntryFacts
    <3>4. m.prevLogIndex # 0 => Es(n)[m.prevLogIndex].term >= 1
      <4>1. m.prevLogIndex # 0 => LinkAt(n, m.prevLogIndex) \in Links
                               /\ LinkAt(n, m.prevLogIndex).entry = Es(n)[m.prevLogIndex]
        BY <3>3, LinkFacts
      <4> QED BY <4>1 DEF Shape
    <3> QED BY <2>2, <3>3, <3>4, EntryFacts DEF TakenFrom, Matchable, OrZero, NoTerm
  <2> QED BY <2>1, <2>2, MessageChange
<1> QED BY <1>1, <1>2, <1>3, <1>4, <1>5 DEF Shape

\* What candidates and their requests say stays true.
LEMMA CandidateStep ==
    ASSUME TypeOK, TypeOK', Shape, RequestTerms, RequestInv, CandidateInv,
           NEW n \in Server, Others(n), Kinds(n)
    PROVE  CandidateInv' /\ RequestInv'
<1>1. ASSUME NEW c \in Server, role'[c] = "Candidate" PROVE Es(c)' = Es(c)
  BY <1>1, LogChange DEF Grows, Takes
<1>2. CandidateInv'
  <2> SUFFICES ASSUME NEW c \in Server, role'[c] = "Candidate", NEW i \in 1 .. Len(Es(c)')
               PROVE  Es(c)'[i].term < currentTerm'[c]
    BY DEF CandidateInv
  <2>1. Es(c)' = Es(c) /\ Es(c)[i].term <= currentTerm[c] /\ Es(c)[i].term \in Int
        /\ currentTerm[c] \in Nat
    BY <1>1, EntryFacts DEF Shape
  <2>2. CASE role[c] = "Candidate" /\ currentTerm'[c] = currentTerm[c]
    BY <2>1, <2>2 DEF CandidateInv
  <2>3. CASE c = n /\ Candidacy(n)
    BY <2>1, <2>3 DEF Candidacy
  <2> QED BY <2>2, <2>3, RoleFacts
<1>3. RequestInv'
  <2> SUFFICES ASSUME NEW b \in Ballots', role'[b.src] = "Candidate", currentTerm'[b.src] = b.term
               PROVE  b.lastLogIndex = Len(Es(b.src)') /\ b.lastLogTerm = LastTermOf(Es(b.src)')
    BY DEF RequestInv
  <2>1. ASSUME NEW k \in Ballots, SameBallot(b, k)
        PROVE  b.lastLogIndex = Len(Es(b.src)') /\ b.lastLogTerm = LastTermOf(Es(b.src)')
    <3>1. b.src \in Server /\ b.term \in Nat /\ b.term <= currentTerm[b.src] /\ b.src = k.src
      BY <2>1 DEF RequestTerms, SameBallot
    <3>2. ~ (b.src = n /\ Candidacy(n))
      BY <3>1, EntryFacts DEF Candidacy
    <3>3. role[b.src] = "Candidate" /\ currentTerm[b.src] = b.term
      BY <3>1, <3>2, RoleFacts
    <3>4. k.lastLogIndex = Len(Es(b.src)) /\ k.lastLogTerm = LastTermOf(Es(b.src))
      BY <2>1, <3>1, <3>3 DEF RequestInv, SameBallot
    <3> QED BY <1>1, <2>1, <3>1, <3>4 DEF SameBallot
  <2>2. CASE /\ b.src = n
             /\ b.lastLogIndex = Len(Es(n)) /\ b.lastLogTerm = LastTermOf(Es(n))
    BY <1>1, <2>2
  <2> QED BY <2>1, <2>2, MessageChange
<1> QED BY <1>2, <1>3

\* Requests and votes stay within the terms of the candidates they are for.
LEMMA RequestTermsStep ==
    ASSUME TypeOK, TypeOK', RequestTerms, LeaderHasQuorum,
           NEW n \in Server, Step(n), Others(n), Kinds(n)
    PROVE  RequestTerms'
<1>0. \A c \in Server : currentTerm[c] \in Nat /\ currentTerm'[c] \in Nat /\ currentTerm'[c] >= currentTerm[c]
  BY RoleFacts DEF TypeOK, ElectionTypeOK
<1>1. ASSUME NEW b \in Ballots'
      PROVE  b.src \in Server /\ b.term \in Nat /\ b.term <= currentTerm'[b.src]
  <2>1. CASE \E k \in Ballots : SameBallot(b, k)
    <3>1. b.src \in Server /\ b.term \in Nat /\ b.term <= currentTerm[b.src]
      BY <2>1 DEF RequestTerms, SameBallot
    <3> QED BY <1>0, <3>1
  <2>2. CASE Candidacy(n) /\ b.src = n /\ b.term = currentTerm[n] + 1
    BY <1>0, <2>2 DEF Candidacy
  <2> QED BY <2>1, <2>2, MessageChange
<1>2. ASSUME NEW g \in VotesGiven' PROVE g.term <= currentTerm'[g.candidate]
  <2>1. CASE g \in VotesGiven
    <3>1. g.term <= currentTerm[g.candidate] /\ g.candidate \in Server /\ g.term \in Nat
      BY <2>1, VotesGivenType DEF RequestTerms
    <3> QED BY <1>0, <3>1
  <2>2. CASE JustCast(g) /\ g.voter = n /\ g.candidate = n
    BY <1>0, <2>2 DEF JustCast
  <2>3. CASE \E m \in Ballots : Answers(g, n, m)
    <3>1. PICK m \in Ballots : g.candidate = m.src /\ g.term = m.term
      BY <2>3 DEF Answers
    <3>2. m.src \in Server /\ m.term \in Nat /\ m.term <= currentTerm[m.src]
      BY DEF RequestTerms
    <3> QED BY <1>0, <3>1, <3>2
  <2> QED BY <2>1, <2>2, <2>3, NewVotes
<1> QED BY <1>1, <1>2 DEF RequestTerms

-----------------------------------------------------------------------------
(* The leader of a term. *)

\* Enough nodes have voted for ld in T, or gone past T, that no other node can
\* ever lead T, and ld is no candidate of T: it has led it.
Led(T, ld) ==
    /\ currentTerm[ld] >= T
    /\ ~ (role[ld] = "Candidate" /\ currentTerm[ld] = T)
    /\ \E V \in Quorums : \A v \in V :
         /\ currentTerm[v] >= T
         /\ currentTerm[v] = T => votedFor[v] = ld
         /\ \A g \in VotesGiven : g.voter = v /\ g.term = T => g.candidate = ld

\* A leader's own term is led by itself.
LEMMA LeaderLeads ==
    ASSUME TypeOK, ElectionInv, NEW l \in Server, role[l] = "Leader"
    PROVE  Led(currentTerm[l], l)
<1> DEFINE T == currentTerm[l]
<1>1. T \in Nat /\ votesReceived[l] \in SUBSET Server /\ votesReceived[l] \in Quorums
  BY DEF TypeOK, ElectionTypeOK, ElectionInv, LeaderHasQuorum, Quorums
<1>2. ASSUME NEW v \in votesReceived[l]
      PROVE  /\ currentTerm[v] >= T
             /\ currentTerm[v] = T => votedFor[v] = l
             /\ \A g \in VotesGiven : g.voter = v /\ g.term = T => g.candidate = l
  <2> DEFINE h == [voter |-> v, candidate |-> l, term |-> T]
  <2>1. h \in VotesGiven
    BY VotesGivenIntro
  <2>2. h.voter = v /\ h.candidate = l /\ h.term = T
    OBVIOUS
  <2> HIDE DEF h
  <2>3. v \in Server /\ currentTerm[v] \in Nat
    BY <1>1 DEF TypeOK, ElectionTypeOK
  <2>4. currentTerm[v] > T \/ (currentTerm[v] = T /\ votedFor[v] = l)
    BY <2>1, <2>2 DEF ElectionInv, VotesAreCast
  <2>5. \A g \in VotesGiven : g.voter = v /\ g.term = T => g.candidate = l
    BY <2>1, <2>2 DEF ElectionInv, OneVotePerTerm
  <2> QED BY <1>1, <2>3, <2>4, <2>5
<1> QED BY <1>1, <1>2 DEF Led

\* Whoever leads a term has led it.
LEMMA LeaderIsLed ==
    ASSUME TypeOK, ElectionInv, NEW l \in Server, role[l] = "Leader",
           NEW ld \in Server, Led(currentTerm[l], ld)
    PROVE  l = ld
<1> DEFINE T == currentTerm[l]
<1>1. votesReceived[l] \in Quorums
  BY DEF TypeOK, ElectionTypeOK, ElectionInv, LeaderHasQuorum, Quorums
<1>2. PICK V \in Quorums : \A v \in V : \A g \in VotesGiven : g.voter = v /\ g.term = T => g.candidate = ld
  BY DEF Led
<1>3. PICK v \in Server : v \in V /\ v \in votesReceived[l]
  BY <1>1, <1>2, QuorumsShare
<1> DEFINE h == [voter |-> v, candidate |-> l, term |-> T]
<1>4. h \in VotesGiven
  BY <1>3, VotesGivenIntro
<1>5. h.voter = v /\ h.candidate = l /\ h.term = T
  OBVIOUS
<1> HIDE DEF h
<1> QED BY <1>2, <1>3, <1>4, <1>5

\* Both, of every leader, before and after a step.
LeadersLead ==
    \A l \in Server : role[l] = "Leader" =>
        /\ Led(currentTerm[l], l)
        /\ \A ld \in Server : Led(currentTerm[l], ld) => ld = l

\* Every leader has led its term, and nobody else has.
LEMMA LeaderTerms == TypeOK /\ ElectionInv => LeadersLead
BY LeaderLeads, LeaderIsLed DEF LeadersLead

\* Also after a step.
LEMMA LeaderTermsAfter == TypeOK' /\ ElectionInv' => LeadersLead'
BY LeaderTerms, PTL

\* Nobody else leads the term of a leader after a step.
LEMMA QuorumsMeetAfter == TypeOK' /\ ElectionInv' => ElectionSafety'
BY QuorumsMeet, PTL

\* A term led stays led by the same node.
LEMMA LedStep ==
    ASSUME TypeOK, TypeOK', ElectionInv, NEW n \in Server, Step(n), Others(n), Kinds(n),
           NEW T \in Nat, NEW ld \in Server, Led(T, ld)
    PROVE  Led(T, ld)'
<1>1. PICK V \in Quorums : \A v \in V :
         /\ currentTerm[v] >= T
         /\ currentTerm[v] = T => votedFor[v] = ld
         /\ \A g \in VotesGiven : g.voter = v /\ g.term = T => g.candidate = ld
  BY DEF Led
<1>2. \A c \in Server : currentTerm[c] \in Nat /\ currentTerm'[c] \in Nat /\ currentTerm'[c] >= currentTerm[c]
  BY RoleFacts DEF TypeOK, ElectionTypeOK
<1>3. VoteKept /\ \A g \in VotesGiven' : g \in VotesGiven \/ JustCast(g)
  BY NewVotes DEF ElectionInv
<1>4. currentTerm'[ld] >= T
  BY <1>2 DEF Led
<1>5. ~ (role'[ld] = "Candidate" /\ currentTerm'[ld] = T)
  <2> SUFFICES ASSUME role'[ld] = "Candidate", currentTerm'[ld] = T PROVE FALSE
    OBVIOUS
  <2>1. CASE role[ld] = "Candidate" /\ currentTerm'[ld] = currentTerm[ld]
    BY <2>1 DEF Led
  <2>2. CASE ld = n /\ Candidacy(n)
    BY <1>2, <2>2 DEF Led, Candidacy
  <2> QED BY <2>1, <2>2, RoleFacts
<1>6. ASSUME NEW v \in V
      PROVE  /\ currentTerm'[v] >= T
             /\ currentTerm'[v] = T => votedFor'[v] = ld
             /\ \A g \in VotesGiven' : g.voter = v /\ g.term = T => g.candidate = ld
  <2>0. v \in Server /\ ld # Nil
    BY ServerAssumption DEF Quorums
  <2>1. currentTerm'[v] >= T
    BY <1>1, <1>2, <2>0
  <2>2. ASSUME currentTerm'[v] = T PROVE votedFor'[v] = ld
    <3>1. currentTerm[v] = T
      BY <1>1, <1>2, <2>0, <2>2
    <3>2. votedFor[v] = ld
      BY <1>1, <3>1
    <3> QED BY <1>3, <2>0, <2>2, <3>1, <3>2 DEF VoteKept
  <2>3. ASSUME NEW g \in VotesGiven', g.voter = v, g.term = T PROVE g.candidate = ld
    <3>1. CASE g \in VotesGiven
      BY <1>1, <2>3, <3>1
    <3>2. CASE JustCast(g)
      BY <2>2, <2>3, <3>2 DEF JustCast
    <3> QED BY <1>3, <3>1, <3>2
  <2> QED BY <2>1, <2>2, <2>3
<1>7. V \in Quorums'
  BY DEF Quorums, QuorumSize
<1> QED BY <1>4, <1>5, <1>6, <1>7 DEF Led

\* Entries, requests and answers stem from a leader of their term.
LedInv ==
    /\ \A x \in Links : \E ld \in Server : Led(x.entry.term, ld)
    /\ \A m \in Appends : Led(m.term, m.src)
    /\ \A r \in Acks : Led(r.term, r.dst)

\* Answers, like requests, are typed.
LEMMA AckFacts ==
    ASSUME TypeOK, NEW r \in Acks
    PROVE  r.src \in Server /\ r.dst \in Server /\ r.term \in Nat /\ r.matchIndex \in Nat
<1>1. r \in AppendReply
  BY MessageKinds DEF Acks, TypeOK
<1> QED BY <1>1 DEF AppendReply

\* And so is a link.
LEMMA LinkTypes ==
    ASSUME TypeOK, NEW x \in Links
    PROVE  x.index \in Nat /\ x.index >= 1 /\ x.entry \in LogEntry /\ x.entry.term \in Int /\ x.prev \in Int
<1>1. ASSUME NEW c \in Server, NEW i \in 1 .. Len(Es(c)), x = LinkAt(c, i)
      PROVE  x.index \in Nat /\ x.index >= 1 /\ x.entry \in LogEntry /\ x.prev \in Int
  <2>1. i \in Nat /\ i >= 1 /\ (i # 1 => i - 1 \in 1 .. Len(Es(c)))
    BY EntryFacts
  <2> QED BY <1>1, <2>1, EntryFacts, LinkFacts
<1>2. ASSUME NEW m \in Appends, NEW k \in 1 .. Len(m.entries), x = LinkIn(m, k)
      PROVE  x.index \in Nat /\ x.index >= 1 /\ x.entry \in LogEntry /\ x.prev \in Int
  <2>1. m.prevLogIndex \in Nat /\ m.prevLogTerm \in Int /\ m.entries \in Seq(LogEntry)
        /\ Len(m.entries) \in Nat
    BY AppendFacts
  <2>2. m.prevLogIndex + k \in Nat /\ m.prevLogIndex + k >= 1 /\ (k # 1 => k - 1 \in 1 .. Len(m.entries))
    BY <2>1
  <2>3. m.entries[k] \in LogEntry /\ (k # 1 => m.entries[k - 1] \in LogEntry)
    BY <2>1, <2>2
  <2>4. x.index = m.prevLogIndex + k /\ x.entry = m.entries[k]
        /\ x.prev = IF k = 1 THEN m.prevLogTerm ELSE m.entries[k - 1].term
    BY <1>2, LinkFacts
  <2>5. k # 1 => m.entries[k - 1].term \in Int
    BY <2>3 DEF LogEntry, Terms
  <2> QED BY <2>1, <2>2, <2>3, <2>4, <2>5
<1>3. x.index \in Nat /\ x.index >= 1 /\ x.entry \in LogEntry /\ x.prev \in Int
  BY <1>1, <1>2, LinkFacts
<1> QED BY <1>3 DEF LogEntry, Terms

\* What a step adds stems from the leader of its term.
LEMMA LedInvStep ==
    ASSUME TypeOK, TypeOK', ElectionInv, ElectionInv', Shape, LedInv,
           NEW n \in Server, Step(n), Others(n), Kinds(n)
    PROVE  LedInv'
<1>0. LeadersLead /\ LeadersLead'
  BY LeaderTerms, LeaderTermsAfter
<1>1. ASSUME NEW x \in Links' PROVE \E ld \in Server : Led(x.entry.term, ld)'
  <2>1. CASE x \in Links
    <3>1. PICK ld \in Server : Led(x.entry.term, ld)
      BY <2>1 DEF LedInv
    <3>2. x.entry.term \in Nat
      BY <2>1, LinkTypes DEF Shape
    <3>3. Led(x.entry.term, ld)'
      BY <3>1, <3>2, LedStep
    <3> QED BY <3>3
  <2>2. CASE NewLink(x, n)
    <3>1. role'[n] = "Leader" /\ x.entry.term = currentTerm'[n]
      BY <2>2 DEF NewLink, Grows
    <3>2. Led(currentTerm[n], n)'
      BY <1>0, <3>1 DEF LeadersLead
    <3>3. Led(x.entry.term, n)'
      BY <3>1, <3>2 DEF Led
    <3> QED BY <3>3
  <2> QED BY <2>1, <2>2, NewLinks
<1>2. ASSUME NEW m \in Appends' PROVE Led(m.term, m.src)'
  <2>1. ASSUME NEW o \in Appends, CopyOf(m, o) PROVE Led(m.term, m.src)'
    <3>1. Led(o.term, o.src) /\ o.term \in Nat /\ o.src \in Server
      BY AppendFacts DEF LedInv
    <3>2. Led(o.term, o.src)'
      BY <3>1, LedStep
    <3> QED BY <2>1, <3>2 DEF Led, CopyOf
  <2>2. CASE Sends(n) /\ TakenFrom(m, n)
    <3>1. /\ role[n] = "Leader" /\ m.term = currentTerm[n] /\ m.src = n
          /\ role'[n] = "Leader" /\ currentTerm'[n] = currentTerm[n]
      BY <2>2 DEF Sends, Steady, TakenFrom
    <3>2. Led(currentTerm[n], n)'
      BY <1>0, <3>1 DEF LeadersLead
    <3> QED BY <3>1, <3>2 DEF Led
  <2> QED BY <2>1, <2>2, MessageChange
<1>3. ASSUME NEW r \in Acks' PROVE Led(r.term, r.dst)'
  <2>1. ASSUME r \in Acks PROVE Led(r.term, r.dst)'
    <3>1. Led(r.term, r.dst) /\ r.term \in Nat /\ r.dst \in Server
      BY <2>1, AckFacts DEF LedInv
    <3> QED BY <3>1, LedStep
  <2>2. ASSUME NEW m \in Appends, r.dst = m.src, r.term = m.term PROVE Led(r.term, r.dst)'
    <3>1. Led(m.term, m.src) /\ m.term \in Nat /\ m.src \in Server
      BY AppendFacts DEF LedInv
    <3>2. Led(m.term, m.src)'
      BY <3>1, LedStep
    <3> QED BY <2>2, <3>2 DEF Led
  <2> QED BY <2>1, <2>2, MessageChange
<1> QED BY <1>1, <1>2, <1>3 DEF LedInv

-----------------------------------------------------------------------------
(* A leader holds all entries of its term. *)

\* m is cut from the log es.
CutFrom(m, es) ==
    /\ m.prevLogIndex + Len(m.entries) <= Len(es)
    /\ m.prevLogIndex > 0 => es[m.prevLogIndex].term = m.prevLogTerm
    /\ \A k \in 1 .. Len(m.entries) : es[m.prevLogIndex + k] = m.entries[k]

LeaderHasAll ==
    /\ \A l \in Server : role[l] = "Leader" =>
          \A x \in Links : x.entry.term = currentTerm[l] => x \in LogLinks(l)
    /\ \A m \in Appends : role[m.src] = "Leader" /\ currentTerm[m.src] = m.term /\ Matchable(m) =>
          CutFrom(m, Es(m.src))

\* A node that leads after a step had the same log before, or its beginning.
LEMMA LeaderLog ==
    ASSUME TypeOK, NEW n \in Server, Others(n), Kinds(n), NEW c \in Server, role'[c] = "Leader"
    PROVE  /\ Len(Es(c)) <= Len(Es(c)') /\ Len(Es(c)') \in Nat
           /\ \A i \in 1 .. Len(Es(c)) : i \in 1 .. Len(Es(c)') /\ Es(c)'[i] = Es(c)[i]
           /\ LogLinks(c) \subseteq LogLinks(c)'
<1>0. Es(c) \in Seq(LogEntry) /\ Len(Es(c)) \in Nat
  BY EntryFacts
<1>1. Es(c)' = Es(c) \/ \E e : Es(c)' = Append(Es(c), e)
  <2>1. ASSUME NEW m \in Appends, Takes(n, m) PROVE c # n
    BY <2>1 DEF Takes
  <2>2. CASE c = n /\ Grows(n)
    BY <2>2 DEF Grows
  <2> QED BY <2>1, <2>2, LogChange
<1>2. /\ Len(Es(c)) <= Len(Es(c)') /\ Len(Es(c)') \in Nat
      /\ \A i \in 1 .. Len(Es(c)) : Es(c)'[i] = Es(c)[i]
  BY <1>0, <1>1
<1>3. \A i \in 1 .. Len(Es(c)) : i \in 1 .. Len(Es(c)')
  BY <1>0, <1>2
<1>4. ASSUME NEW x \in LogLinks(c) PROVE x \in LogLinks(c)'
  <2>1. PICK i \in 1 .. Len(Es(c)) : x = LinkAt(c, i)
    BY DEF LogLinks
  <2>2. i # 1 => i - 1 \in 1 .. Len(Es(c))
    BY <1>0
  <2>3. x = LinkAt(c, i)'
    BY <1>2, <2>1, <2>2 DEF LinkAt
  <2> QED BY <1>3, <2>3 DEF LogLinks
<1> QED BY <1>2, <1>3, <1>4

\* Entries of the term in which a node appends one of its own are all its own.
LEMMA GrowsOwn ==
    ASSUME TypeOK, TypeOK', ElectionInv, ElectionInv', LedInv, LeaderHasAll, Shape,
           NEW n \in Server, Step(n), Others(n), Kinds(n), Grows(n),
           NEW y \in Links, y.entry.term = currentTerm[n]
    PROVE  y \in LogLinks(n)
<1>1. CASE role[n] = "Leader"
  BY <1>1 DEF LeaderHasAll
<1>2. CASE role[n] = "Candidate"
  <2>1. PICK ld \in Server : Led(currentTerm[n], ld)
    BY DEF LedInv
  <2>2. currentTerm[n] \in Nat
    BY EntryFacts
  <2>3. Led(currentTerm[n], ld)'
    <3>1. PICK T \in Nat : T = currentTerm[n]
      BY <2>2
    <3>2. Led(T, ld)'
      BY <2>1, <3>1, LedStep
    <3>3. currentTerm'[n] = T
      BY <3>1 DEF Grows
    <3> QED BY <3>2, <3>3 DEF Led
  <2>4. role'[n] = "Leader" /\ LeadersLead'
    BY LeaderTermsAfter DEF Grows
  <2>5. ld = n
    BY <2>3, <2>4 DEF LeadersLead
  <2> QED BY <1>2, <2>1, <2>5 DEF Led
<1> QED BY <1>1, <1>2 DEF Grows

\* A leader's own entry goes past all links of its term.
LEMMA LinksAgreeStep ==
    ASSUME TypeOK, TypeOK', ElectionInv, ElectionInv', LedInv, LeaderHasAll, Shape, LinksAgree,
           NEW n \in Server, Step(n), Others(n), Kinds(n)
    PROVE  LinksAgree'
<1>1. ASSUME NEW x \in Links', NEW y \in Links, NewLink(x, n),
             x.index = y.index, x.entry.term = y.entry.term
      PROVE  FALSE
  <2>1. Grows(n) /\ y.entry.term = currentTerm[n] /\ x.index = Len(Es(n)) + 1
    BY <1>1 DEF NewLink
  <2>2. PICK i \in 1 .. Len(Es(n)) : y = LinkAt(n, i)
    BY <2>1, GrowsOwn DEF LogLinks
  <2>3. y.index = i
    BY <2>2, LinkFacts
  <2> DEFINE size == Len(Es(n))
  <2>4. size \in Nat /\ i \in 1 .. size /\ x.index = size + 1 /\ x.index = i
    BY <1>1, <2>1, <2>3, EntryFacts
  <2> HIDE DEF size
  <2> QED BY <2>4
<1>2. ASSUME NEW x \in Links', NEW y \in Links', NewLink(x, n), NewLink(y, n), x \notin Links, y \notin Links
      PROVE  x = y
  <2>0. PICK e : Es(n)' = Append(Es(n), e) /\ Grows(n)
    BY <1>2 DEF NewLink, Grows
  <2>1. \A z \in Links' : z \notin Links => z \in LogLinks(n)'
    <3> SUFFICES ASSUME NEW z \in Links', z \notin Links PROVE z \in LogLinks(n)'
      OBVIOUS
    <3>1. ASSUME NEW m \in Appends', NEW k \in 1 .. Len(m.entries), z = LinkIn(m, k) PROVE FALSE
      <4>1. PICK o \in Appends : CopyOf(m, o)
        BY <2>0 DEF Grows, NothingSent, OldAppends
      <4>2. z = LinkIn(o, k) /\ k \in 1 .. Len(o.entries)
        BY <3>1, <4>1 DEF LinkIn, CopyOf
      <4> QED BY <4>2, LinkFacts
    <3>2. ASSUME NEW c \in Server, NEW i \in 1 .. Len(Es(c)'),
                 z = [index |-> i, entry |-> Es(c)'[i], prev |-> IF i = 1 THEN 0 ELSE Es(c)'[i - 1].term]
          PROVE  z \in LogLinks(n)'
      <4>1. c = n
        <5> SUFFICES ASSUME c # n PROVE FALSE
          OBVIOUS
        <5>1. Es(c)' = Es(c)
          BY DEF Others, Es
        <5>2. z = LinkAt(c, i) /\ i \in 1 .. Len(Es(c))
          BY <3>2, <5>1 DEF LinkAt
        <5> QED BY <5>2, LinkFacts
      <4>2. z = LinkAt(n, i)'
        BY <3>2, <4>1 DEF LinkAt
      <4> QED BY <3>2, <4>1, <4>2 DEF LogLinks
    <3> QED BY <3>1, <3>2, LinksAfter
  <2>2. PICK i \in 1 .. Len(Es(n)') : x = LinkAt(n, i)'
    BY <1>2, <2>1 DEF LogLinks
  <2>3. PICK j \in 1 .. Len(Es(n)') : y = LinkAt(n, j)'
    BY <1>2, <2>1 DEF LogLinks
  <2>4. x.index = i /\ y.index = j
    BY <2>2, <2>3 DEF LinkAt
  <2>5. i = j
    BY <1>2, <2>4 DEF NewLink
  <2> QED BY <2>2, <2>3, <2>5
<1> QED BY <1>1, <1>2, NewLinks DEF LinksAgree

\* A leader goes on holding all entries of its term, and its requests stay cut from its log.
LEMMA LeaderHasAllStep ==
    ASSUME TypeOK, TypeOK', ElectionInv, ElectionInv', LedInv, LeaderHasAll, Shape,
           NEW n \in Server, Step(n), Others(n), Kinds(n)
    PROVE  LeaderHasAll'
<1>0. LeadersLead /\ LeadersLead'
  BY LeaderTerms, LeaderTermsAfter
<1>1. ASSUME NEW c \in Server, role'[c] = "Leader", NEW x \in Links', x.entry.term = currentTerm'[c]
      PROVE  x \in LogLinks(c)'
  <2>1. ASSUME x \in Links PROVE x \in LogLinks(c)'
    <3>1. CASE role[c] = "Leader" /\ currentTerm'[c] = currentTerm[c]
      <4>1. x \in LogLinks(c)
        BY <1>1, <2>1, <3>1 DEF LeaderHasAll
      <4> QED BY <1>1, <4>1, LeaderLog
    <3>2. CASE c = n /\ Grows(n)
      <4>1. x.entry.term = currentTerm[n]
        BY <1>1, <3>2 DEF Grows
      <4>2. x \in LogLinks(n)
        BY <2>1, <3>2, <4>1, GrowsOwn
      <4> QED BY <1>1, <3>2, <4>2, LeaderLog
    <3> QED BY <1>1, <3>1, <3>2, RoleFacts
  <2>2. ASSUME NewLink(x, n), x \notin Links PROVE x \in LogLinks(c)'
    <3>1. role'[n] = "Leader" /\ x.entry.term = currentTerm'[n] /\ Grows(n)
      BY <2>2 DEF NewLink, Grows
    <3>2. c = n
      <4>1. ElectionSafety'
        BY QuorumsMeetAfter
      <4> QED BY <1>1, <3>1, <4>1 DEF ElectionSafety
    <3>3. ASSUME NEW m \in Appends', NEW k \in 1 .. Len(m.entries), x = LinkIn(m, k) PROVE FALSE
      <4>1. PICK o \in Appends : CopyOf(m, o)
        BY <3>1 DEF Grows, NothingSent, OldAppends
      <4>2. x = LinkIn(o, k) /\ k \in 1 .. Len(o.entries)
        BY <3>3, <4>1 DEF LinkIn, CopyOf
      <4> QED BY <2>2, <4>2, LinkFacts
    <3>4. ASSUME NEW d \in Server, NEW i \in 1 .. Len(Es(d)'),
                 x = [index |-> i, entry |-> Es(d)'[i], prev |-> IF i = 1 THEN 0 ELSE Es(d)'[i - 1].term]
          PROVE  x \in LogLinks(n)'
      <4>1. CASE d # n
        <5>1. Es(d)' = Es(d)
          BY <4>1 DEF Others, Es
        <5>2. x = LinkAt(d, i) /\ i \in 1 .. Len(Es(d))
          BY <3>4, <5>1 DEF LinkAt
        <5> QED BY <2>2, <5>2, LinkFacts
      <4>2. CASE d = n
        <5>1. x = LinkAt(n, i)'
          BY <3>4, <4>2 DEF LinkAt
        <5> QED BY <3>4, <4>2, <5>1 DEF LogLinks
      <4> QED BY <4>1, <4>2
    <3> QED BY <3>2, <3>3, <3>4, LinksAfter
  <2> QED BY <2>1, <2>2, NewLinks
<1>2. ASSUME NEW m \in Appends', role'[m.src] = "Leader", currentTerm'[m.src] = m.term, Matchable(m)
      PROVE  CutFrom(m, Es(m.src)')
  <2>0. m.src \in Server /\ m.prevLogIndex \in Nat /\ Len(m.entries) \in Nat
    BY AppendFactsAfter
  <2>1. ASSUME CutFrom(m, Es(m.src)) PROVE CutFrom(m, Es(m.src)')
    <3>1. /\ Len(Es(m.src)) <= Len(Es(m.src)') /\ Len(Es(m.src)') \in Nat /\ Len(Es(m.src)) \in Nat
          /\ \A i \in 1 .. Len(Es(m.src)) : Es(m.src)'[i] = Es(m.src)[i]
      BY <1>2, <2>0, LeaderLog, EntryFacts
    <3>2. m.prevLogIndex + Len(m.entries) <= Len(Es(m.src))
      BY <2>1 DEF CutFrom
    <3>3. m.prevLogIndex > 0 => m.prevLogIndex \in 1 .. Len(Es(m.src))
      BY <2>0, <3>1, <3>2
    <3>4. \A k \in 1 .. Len(m.entries) : m.prevLogIndex + k \in 1 .. Len(Es(m.src))
      BY <2>0, <3>1, <3>2
    <3>5. m.prevLogIndex + Len(m.entries) <= Len(Es(m.src)')
      BY <2>0, <3>1, <3>2
    <3> QED BY <2>1, <3>1, <3>3, <3>4, <3>5 DEF CutFrom
  <2>2. ASSUME NEW o \in Appends, CopyOf(m, o) PROVE CutFrom(m, Es(m.src))
    <3>1. Led(o.term, o.src) /\ o.src = m.src /\ o.term = m.term
      BY <2>2 DEF LedInv, CopyOf
    <3>2. role[m.src] = "Leader" /\ currentTerm[m.src] = m.term
      <4>1. \/ role[m.src] = "Leader" /\ currentTerm'[m.src] = currentTerm[m.src]
            \/ role[m.src] = "Candidate" /\ currentTerm'[m.src] = currentTerm[m.src]
        BY <1>2, <2>0, RoleFacts
      <4> QED BY <1>2, <3>1, <4>1 DEF Led
    <3>3. CutFrom(o, Es(o.src))
      BY <1>2, <2>2, <3>1, <3>2 DEF LeaderHasAll, Matchable, CopyOf
    <3> QED BY <2>2, <3>3 DEF CutFrom, CopyOf
  <2>3. CASE TakenFrom(m, n)
    <3>0. m.src = n /\ Len(Es(n)) \in Nat
      BY <2>3, EntryFacts DEF TakenFrom
    <3>1. m.prevLogIndex <= Len(Es(n))
      BY <1>2, <2>0, <2>3, <3>0 DEF TakenFrom, Matchable
    <3>2. m.prevLogIndex > 0 => m.prevLogIndex \in 1 .. Len(Es(n))
      BY <2>0, <3>0, <3>1
    <3>3. m.prevLogIndex > 0 => Es(n)[m.prevLogIndex].term = m.prevLogTerm
      <4> SUFFICES ASSUME m.prevLogIndex > 0 PROVE Es(n)[m.prevLogIndex].term = m.prevLogTerm
        OBVIOUS
      <4>1. LinkAt(n, m.prevLogIndex) \in Links /\ LinkAt(n, m.prevLogIndex).entry = Es(n)[m.prevLogIndex]
        BY <3>2, LinkFacts
      <4>2. Es(n)[m.prevLogIndex].term >= 1
        BY <4>1 DEF Shape
      <4> QED BY <2>3, <3>2, <4>2 DEF TakenFrom, OrZero, NoTerm
    <3>4. m.prevLogIndex + Len(m.entries) <= Len(Es(n))
      <4>1. CASE m.entries = <<>>
        BY <2>0, <3>0, <3>1, <4>1
      <4>2. CASE m.entries # <<>>
        BY <2>3, <4>2 DEF TakenFrom
      <4> QED BY <4>1, <4>2
    <3> QED BY <2>1, <2>3, <3>0, <3>3, <3>4 DEF CutFrom, TakenFrom
  <2> QED BY <2>1, <2>2, <2>3, MessageChange
<1> QED BY <1>1, <1>2 DEF LeaderHasAll

-----------------------------------------------------------------------------
(* Logs agree up to an entry of one term. *)

\* A sequence of entries made of links, as every log is.
Linked(es) ==
    \A i \in 1 .. Len(es) :
        [index |-> i, entry |-> es[i], prev |-> IF i = 1 THEN 0 ELSE es[i - 1].term] \in Links

\* Every log is made of links.
LEMMA LogsLinked == \A n \in Server : Linked(Es(n))
<1> SUFFICES ASSUME NEW n \in Server, NEW i \in 1 .. Len(Es(n))
             PROVE  [index |-> i, entry |-> Es(n)[i], prev |-> IF i = 1 THEN 0 ELSE Es(n)[i - 1].term] \in Links
  BY DEF Linked
<1> QED BY LinkFacts DEF LinkAt

\* Two such sequences with the same term at i are the same up to i.
LEMMA LinkedMatch ==
    ASSUME LinksAgree, NEW es, NEW fs, Linked(es), Linked(fs), Len(es) \in Nat, Len(fs) \in Nat,
           NEW i \in 1 .. Len(es), i <= Len(fs), es[i].term = fs[i].term
    PROVE  \A j \in 1 .. i : es[j] = fs[j]
<1> DEFINE D == {j \in 1 .. i : es[j] # fs[j]}
<1>1. ASSUME NEW j \in 1 .. i, es[j].term = fs[j].term
      PROVE  /\ es[j] = fs[j]
             /\ (IF j = 1 THEN 0 ELSE es[j - 1].term) = (IF j = 1 THEN 0 ELSE fs[j - 1].term)
  <2> DEFINE x == [index |-> j, entry |-> es[j], prev |-> IF j = 1 THEN 0 ELSE es[j - 1].term]
  <2> DEFINE y == [index |-> j, entry |-> fs[j], prev |-> IF j = 1 THEN 0 ELSE fs[j - 1].term]
  <2>1. j \in 1 .. Len(es) /\ j \in 1 .. Len(fs)
    OBVIOUS
  <2>2. x \in Links /\ y \in Links
    BY <2>1 DEF Linked
  <2>3. x.index = y.index /\ x.entry.term = y.entry.term
    BY <1>1
  <2>4. x = y
    BY <2>2, <2>3 DEF LinksAgree
  <2>5. x.entry = y.entry /\ x.prev = y.prev
    BY <2>4
  <2> QED BY <2>5
<1>2. D \in SUBSET Int /\ IsFiniteSet(D)
  <2>1. IsFiniteSet(1 .. i) /\ D \subseteq 1 .. i
    BY FS_Interval
  <2> QED BY <2>1, FS_Subset
<1>3. ASSUME D # {} PROVE FALSE
  <2>1. PICK d \in D : \A j \in D : j <= d
    BY <1>2, <1>3, MaxExists
  <2>2. d \in 1 .. i /\ es[d] # fs[d] /\ i \in Nat
    OBVIOUS
  <2>3. CASE d = i
    BY <1>1, <2>2, <2>3
  <2>4. CASE d # i
    <3>1. d + 1 \in 1 .. i /\ d + 1 # 1 /\ (d + 1) - 1 = d
      BY <2>2, <2>4
    <3>2. d + 1 \notin D
      BY <2>1, <2>2
    <3>3. es[d + 1] = fs[d + 1]
      BY <3>1, <3>2
    <3>4. es[d].term = fs[d].term
      BY <1>1, <3>1, <3>3
    <3> QED BY <1>1, <2>2, <3>4
  <2> QED BY <2>3, <2>4
<1> QED BY <1>3

\* Terms never decrease along one.
LEMMA LinkedTerms ==
    ASSUME TypeOK, Shape, NEW es, Linked(es), Len(es) \in Nat,
           NEW i \in 1 .. Len(es), NEW j \in 1 .. Len(es), i <= j
    PROVE  es[i].term <= es[j].term /\ es[i].term \in Int /\ es[i].term >= 1
<1>1. ASSUME NEW k \in 1 .. Len(es)
      PROVE  /\ es[k].term \in Int /\ es[k].term >= 1
             /\ k # 1 => es[k - 1].term <= es[k].term
  <2> DEFINE x == [index |-> k, entry |-> es[k], prev |-> IF k = 1 THEN 0 ELSE es[k - 1].term]
  <2>1. x \in Links
    BY DEF Linked
  <2>2. x.entry = es[k] /\ x.prev = IF k = 1 THEN 0 ELSE es[k - 1].term
    OBVIOUS
  <2> HIDE DEF x
  <2> QED BY <2>1, <2>2, LinkTypes DEF Shape
<1> DEFINE D == {k \in i .. j : es[i].term > es[k].term}
<1>2. D \in SUBSET Int /\ IsFiniteSet(D)
  <2>1. IsFiniteSet(i .. j) /\ D \subseteq i .. j
    BY FS_Interval
  <2> QED BY <2>1, FS_Subset
<1>3. ASSUME D # {} PROVE FALSE
  <2>1. PICK d \in D : \A k \in D : d <= k
    BY <1>2, <1>3, MinExists
  <2>2. d \in i .. j /\ es[i].term > es[d].term
    OBVIOUS
  <2>3. d # i
    BY <1>1, <2>2
  <2>a. d \in Int /\ d >= i + 1 /\ d <= j /\ i >= 1 /\ j <= Len(es)
    BY <2>2, <2>3
  <2>4. d - 1 \in i .. j /\ d - 1 \in 1 .. Len(es) /\ d \in 1 .. Len(es) /\ d # 1 /\ ~ (d <= d - 1)
    BY <2>a
  <2>5. d - 1 \notin D
    BY <2>1, <2>4
  <2>6. ~ (es[i].term > es[d - 1].term)
    BY <2>4, <2>5
  <2> QED BY SMTT(30), <1>1, <2>2, <2>4, <2>6
<1>4. j \notin D /\ j \in i .. j
  BY <1>3
<1> QED BY <1>1, <1>4

-----------------------------------------------------------------------------
(* The invariant of replication. *)

ReplicationInv ==
    /\ Uncompacted /\ Shape
    /\ RequestTerms /\ CandidateInv /\ RequestInv
    /\ LedInv /\ LeaderHasAll /\ LinksAgree

\* Nothing has been logged, sent or voted for.
LEMMA ReplicationInit == Init => ReplicationInv
<1> SUFFICES ASSUME Init PROVE ReplicationInv
  OBVIOUS
<1>1. /\ msgs = {} /\ \A n \in Server : Es(n) = <<>> /\ role[n] = "Follower" /\ log[n] = EmptyLog
      /\ \A n \in Server : snapshot[n] = NoSnapshot /\ sendingSnapshot[n] = {} /\ installing[n] = Nil
  BY DEF Init, Started, Es, EmptyLog
<1>2. Appends = {} /\ Acks = {} /\ Ballots = {}
  BY <1>1 DEF Appends, Acks, Ballots
<1>3. Links = {}
  <2> SUFFICES ASSUME NEW x \in Links PROVE FALSE
    OBVIOUS
  <2>1. \A n \in Server : Len(Es(n)) = 0
    BY <1>1
  <2> QED BY <1>2, <2>1, LinkFacts
<1>4. VotesGiven = {}
  BY DEF Init, Started, VotesGiven, VotesInFlight, VotesCounted, GrantsIn
<1>5. Uncompacted
  BY <1>1 DEF Uncompacted, Whole, EmptyLog, LastTermOf
<1>6. Shape
  BY <1>1, <1>2, <1>3 DEF Shape
<1>7. RequestTerms /\ CandidateInv /\ RequestInv /\ LedInv /\ LeaderHasAll /\ LinksAgree
  BY <1>1, <1>2, <1>3, <1>4
     DEF RequestTerms, CandidateInv, RequestInv, LedInv, LeaderHasAll, LinksAgree
<1> QED BY <1>5, <1>6, <1>7 DEF ReplicationInv

\* Without snapshots every step keeps it.
LEMMA ReplicationNext ==
    ASSUME TypeOK, TypeOK', ElectionInv, ElectionInv', NoSnapshots, ReplicationInv,
           NEW n \in Server, Step(n)
    PROVE  ReplicationInv' /\ Others(n) /\ Kinds(n)
<1>1. Others(n)
  BY StepOthers
<1>2. Kinds(n) /\ Uncompacted'
  BY SafetyKinds DEF ReplicationInv, Kinds
<1>3. LeaderHasQuorum
  BY DEF ElectionInv
<1>4. Shape' /\ RequestTerms' /\ CandidateInv' /\ RequestInv'
  BY <1>1, <1>2, <1>3, ShapeStep, CandidateStep, RequestTermsStep DEF ReplicationInv
<1>5. LedInv' /\ LeaderHasAll' /\ LinksAgree'
  BY <1>1, <1>2, LedInvStep, LeaderHasAllStep, LinksAgreeStep DEF ReplicationInv
<1> QED BY <1>1, <1>2, <1>4, <1>5 DEF ReplicationInv

\* A step of no node changes nothing.
LEMMA ReplicationStutter == ReplicationInv /\ UNCHANGED vars => ReplicationInv'
<1> SUFFICES ASSUME ReplicationInv, UNCHANGED vars PROVE ReplicationInv'
  OBVIOUS
<1>1. UNCHANGED <<electionVars, log, snapshot, sendingSnapshot, installing, msgs>>
  BY DEF vars, logVars, taskVars
<1>2. Uncompacted'
  BY <1>1 DEF ReplicationInv, Uncompacted, Whole, LastTermOf
<1>3. /\ UNCHANGED <<Links, Appends, Acks, Ballots, VotesGiven>>
      /\ UNCHANGED <<role, currentTerm, votedFor>>
      /\ \A n : Es(n)' = Es(n) /\ LogLinks(n)' = LogLinks(n)
  BY <1>1 DEF electionVars, Links, HeldLinks, FlyingLinks, LogLinks, SentLinks, LinkAt, LinkIn,
     Appends, Acks, Ballots, Es, VotesGiven, VotesInFlight, VotesCounted, GrantsIn
<1>4. Shape'
  BY <1>3 DEF ReplicationInv, Shape, Matchable
<1>5. RequestTerms' /\ CandidateInv' /\ RequestInv'
  BY <1>3 DEF ReplicationInv, RequestTerms, CandidateInv, RequestInv, LastTermOf
<1>6. LedInv'
  BY <1>3 DEF ReplicationInv, LedInv, Led
<1>7. LeaderHasAll'
  BY <1>3 DEF ReplicationInv, LeaderHasAll, CutFrom, Matchable
<1>8. LinksAgree'
  BY <1>3 DEF ReplicationInv, LinksAgree
<1> QED BY <1>2, <1>4, <1>5, <1>6, <1>7, <1>8 DEF ReplicationInv

\* Without snapshots the invariant of replication holds in every reachable state.
THEOREM ReplicationHolds == Spec /\ []NoSnapshots => []ReplicationInv
<1>1. Init => ReplicationInv
  BY ReplicationInit
<1>2. /\ TypeOK /\ TypeOK' /\ ElectionInv /\ ElectionInv' /\ NoSnapshots
      /\ ReplicationInv /\ [Next]_vars
      => ReplicationInv'
  BY ReplicationNext, ReplicationStutter DEF Next
<1> QED BY <1>1, <1>2, TypeCorrect, VotesStand, PTL DEF Spec

\* SamePrefix of two whole logs, in their entries.
LEMMA WholePrefix ==
    ASSUME NEW l \in LogRecord, NEW k \in LogRecord, Whole(l), Whole(k), NEW i \in Int
    PROVE  SamePrefix(l, k, i) <=>
              \A j \in 1 .. i : j <= Len(l.entries) /\ j <= Len(k.entries) =>
                                    l.entries[j] = k.entries[j]
<1>1. Len(l.entries) \in Nat /\ Len(k.entries) \in Nat
  BY LogFacts
<1>2. ASSUME NEW j \in 1 .. i
      PROVE  /\ HasEntry(l, j) <=> j <= Len(l.entries)
             /\ HasEntry(k, j) <=> j <= Len(k.entries)
             /\ Entry(l, j) = l.entries[j] /\ Entry(k, j) = k.entries[j]
  BY <1>1, WholeFacts
<1> QED BY <1>2 DEF SamePrefix

\* Without snapshots, two logs that have an entry of the same index and term are
\* the same up to it, whatever was lost, repeated or cut off by a crash.
THEOREM LogsMatch == Spec /\ []NoSnapshots => []LogMatching
<1>1. TypeOK /\ ReplicationInv => LogMatching
  <2> SUFFICES ASSUME TypeOK, ReplicationInv, NEW a \in Server, NEW b \in Server,
                      NEW i \in log[a].snapIndex + 1 .. LastIndex(log[a]),
                      HasEntry(log[b], i), TermAt(log[a], i) = TermAt(log[b], i)
               PROVE  SamePrefix(log[a], log[b], i)
    BY DEF LogMatching
  <2>1. /\ log[a] \in LogRecord /\ log[b] \in LogRecord /\ Whole(log[a]) /\ Whole(log[b])
        /\ Len(Es(a)) \in Nat /\ Len(Es(b)) \in Nat
    BY EntryFacts DEF ReplicationInv, Uncompacted, TypeOK, LogTypeOK
  <2>2. log[a].snapIndex = 0 /\ LastIndex(log[a]) = Len(Es(a))
    BY <2>1, WholeFacts DEF Whole, Es
  <2>3. i \in 1 .. Len(Es(a)) /\ i \in 1 .. Len(Es(b))
    BY <2>1, <2>2, WholeFacts DEF Es
  <2>4. Es(a)[i].term = Es(b)[i].term
    BY <2>1, <2>3, WholeFacts DEF Es
  <2>5. \A j \in 1 .. i : Es(a)[j] = Es(b)[j]
    <3>1. Linked(Es(a)) /\ Linked(Es(b)) /\ LinksAgree /\ i <= Len(Es(b))
      BY <2>1, <2>3, LogsLinked DEF ReplicationInv
    <3> QED BY <2>1, <2>3, <2>4, <3>1, LinkedMatch
  <2> QED BY <2>1, <2>3, <2>5, WholePrefix DEF Es
<1> QED BY <1>1, TypeCorrect, ReplicationHolds, PTL

-----------------------------------------------------------------------------
(***************************************************************************)
(* Why what is committed stays, in a cluster that has not taken a          *)
(* snapshot.  The argument goes along three notions:                       *)
(*   - Acked: whom a leader believes to hold its log up to i holds it, as  *)
(*     long as it stays in the leader's term (AckInv, MatchIndexIsHeld);   *)
(*   - Secure(es, i, A): the nodes of A hold es up to i, no request or     *)
(*     leader of es[i]'s term or later takes it from them, and they have   *)
(*     not voted for a candidate of a later term without it.  A step keeps *)
(*     this unless it elects such a candidate, and A has then not voted    *)
(*     for it (SecureStep, ElectedWithout).  A leader's entry of its own   *)
(*     term is secure on its holders, or a quorum went past the term       *)
(*     without it and it is never committed (SecureInv);                   *)
(*   - Certified(es, i): secure on a quorum.  This is for ever, and each   *)
(*     commitIndex, of a node or in a request, is within one (CommitInv).  *)
(* Leaders are then complete, logs keep what is committed, and there is    *)
(* one history of commands that all applications follow (HistoryInv).      *)
(***************************************************************************)

\* Terms and logs are typed after a step, too.
LEMMA TypesAfter ==
    ASSUME TypeOK', NEW n \in Server
    PROVE  /\ currentTerm'[n] \in Nat /\ Es(n)' \in Seq(LogEntry) /\ Len(Es(n)') \in Nat
           /\ commitIndex'[n] \in Nat /\ lastApplied'[n] \in Nat
BY DEF TypeOK, ElectionTypeOK, LogTypeOK, ApplyTypeOK, LogRecord, Es

-----------------------------------------------------------------------------
(* What leaders know of their peers. *)

\* es and fs both reach i and are the same up to it.
Agree(es, fs, i) == i <= Len(es) /\ i <= Len(fs) /\ \A j \in 1 .. i : es[j] = fs[j]

\* The entries of m up to i are those of es.
EntriesFit(m, es, i) ==
    \A k \in 1 .. Len(m.entries) : m.prevLogIndex + k <= i => m.entries[k] = es[m.prevLogIndex + k]

\* A follower that takes over such a request keeps what it has of es up to i.
LEMMA TakesKeeps ==
    ASSUME TypeOK, TypeOK', NEW n \in Server, NEW m \in Appends, Takes(n, m),
           NEW es, NEW i \in Nat, EntriesFit(m, es, i), Agree(Es(n), es, i)
    PROVE  Agree(Es(n)', es, i)
<1> DEFINE old == Es(n)
<1> DEFINE new == Es(n)'
<1> DEFINE prev == m.prevLogIndex
<1> DEFINE sent == m.entries
<1>1. Len(old) \in Nat /\ Len(new) \in Nat /\ prev \in Nat /\ Len(sent) \in Nat
  BY AppendFacts DEF TypeOK, LogTypeOK, LogRecord, Es
<1>2. Merged(old, new, prev, sent)
  BY DEF Takes
<1>3. \A k \in 1 .. Len(sent) : prev + k <= i => sent[k] = es[prev + k]
  BY DEF EntriesFit
<1>4. i <= Len(old) /\ i <= Len(es) /\ \A j \in 1 .. i : old[j] = es[j]
  BY DEF Agree
<1> HIDE DEF old, new, prev, sent
<1>5. PICK cut \in prev .. Len(old) :
        /\ cut <= Len(new)
        /\ \A j \in 1 .. cut : new[j] = old[j]
        /\ cut < Len(old) => /\ cut < prev + Len(sent)
                             /\ old[cut + 1].term # sent[cut + 1 - prev].term
  BY <1>2 DEF Merged
<1>6. cut >= i
  <2> SUFFICES ASSUME cut < i PROVE FALSE
    BY <1>1, <1>5
  <2>1. cut + 1 \in 1 .. i /\ cut < Len(old)
    BY <1>1, <1>4, <1>5
  <2> DEFINE k == cut + 1 - prev
  <2>2. k \in 1 .. Len(sent) /\ prev + k = cut + 1
    BY <1>1, <1>5, <2>1
  <2>3. sent[k] = es[cut + 1]
    BY <1>3, <2>1, <2>2
  <2> QED BY <1>4, <1>5, <2>1, <2>3
<1>7. \A j \in 1 .. i : j \in 1 .. cut
  BY <1>1, <1>5, <1>6
<1>8. i <= Len(new)
  BY <1>1, <1>5, <1>6
<1> QED BY <1>4, <1>5, <1>7, <1>8 DEF Agree, new

\* A follower that has taken over all of m agrees with the log it was cut from
\* on the term of the last entry.
LEMMA TakesGains ==
    ASSUME TypeOK, TypeOK', NEW n \in Server, NEW m \in Appends, Takes(n, m),
           NEW es, CutFrom(m, es), NEW last \in Nat, last = m.prevLogIndex + Len(m.entries),
           last >= 1, last <= Len(Es(n)')
    PROVE  last <= Len(es) /\ Es(n)'[last].term = es[last].term
<1> DEFINE old == Es(n)
<1> DEFINE new == Es(n)'
<1> DEFINE prev == m.prevLogIndex
<1> DEFINE sent == m.entries
<1>1. Len(old) \in Nat /\ Len(new) \in Nat /\ prev \in Nat /\ Len(sent) \in Nat
  BY AppendFacts DEF TypeOK, LogTypeOK, LogRecord, Es
<1>2. Merged(old, new, prev, sent) /\ PrevMatches(old, prev, m.prevLogTerm)
  BY DEF Takes
<1>3. /\ last <= Len(es) /\ (prev > 0 => es[prev].term = m.prevLogTerm)
      /\ \A k \in 1 .. Len(sent) : es[prev + k] = sent[k]
      /\ last = prev + Len(sent) /\ last <= Len(new)
  BY DEF CutFrom
<1> HIDE DEF old, new, prev, sent
<1>4. PICK cut \in prev .. Len(old) :
        /\ \A j \in 1 .. cut : new[j] = old[j]
        /\ \A j \in cut + 1 .. Len(new) : j <= prev + Len(sent) /\ new[j] = sent[j - prev]
        /\ \A j \in prev + 1 .. cut : j <= prev + Len(sent) => old[j].term = sent[j - prev].term
  BY <1>2 DEF Merged
<1>5. CASE last > cut
  <2>0. last \in Nat /\ cut \in Nat /\ prev <= cut
    BY <1>1, <1>3, <1>4
  <2>a. last \in cut + 1 .. Len(new)
    BY <1>1, <1>3, <1>5, <2>0
  <2>b. last - prev \in 1 .. Len(sent) /\ prev + (last - prev) = last
    BY <1>1, <1>3, <1>5, <2>0
  <2>1. last \in cut + 1 .. Len(new) /\ last - prev \in 1 .. Len(sent) /\ prev + (last - prev) = last
    BY <2>a, <2>b
  <2>2. new[last] = sent[last - prev] /\ es[last] = sent[last - prev]
    BY <1>3, <1>4, <2>1
  <2> QED BY <1>3, <2>2 DEF new
<1>6. CASE last <= cut /\ last > prev
  <2>1. last \in prev + 1 .. cut /\ last \in 1 .. cut /\ last - prev \in 1 .. Len(sent)
        /\ prev + (last - prev) = last
    <3>1. last \in Nat /\ cut \in Nat /\ prev <= cut
      BY <1>1, <1>3, <1>4
    <3>2. last \in prev + 1 .. cut /\ last \in 1 .. cut
      BY <1>1, <1>6, <3>1
    <3>3. last - prev \in 1 .. Len(sent) /\ prev + (last - prev) = last
      BY <1>1, <1>3, <1>6, <3>1
    <3> QED BY <3>2, <3>3
  <2>2. new[last] = old[last] /\ old[last].term = sent[last - prev].term /\ es[last] = sent[last - prev]
    BY <1>3, <1>4, <2>1
  <2> QED BY <1>3, <2>2 DEF new
<1>7. CASE last = prev
  <2>1. prev \in 1 .. cut /\ prev > 0 /\ prev # 0
    BY <1>1, <1>4, <1>7
  <2>2. new[last] = old[last] /\ old[last].term = m.prevLogTerm /\ es[last].term = m.prevLogTerm
    BY <1>2, <1>3, <1>4, <1>7, <2>1 DEF PrevMatches
  <2> QED BY <1>3, <2>2 DEF new
<1> QED BY <1>1, <1>3, <1>4, <1>5, <1>6, <1>7

\* Logs with an entry of the same index and term are the same up to it.
LogsAgree ==
    \A a, b \in Server : \A i \in 1 .. Len(Es(a)) :
        i <= Len(Es(b)) /\ Es(a)[i].term = Es(b)[i].term => Agree(Es(a), Es(b), i)

\* That is what the invariant of replication says of two logs.
LEMMA LogsAgreeAlways == TypeOK /\ ReplicationInv => LogsAgree
<1> SUFFICES ASSUME TypeOK, ReplicationInv, NEW a \in Server, NEW b \in Server,
                    NEW i \in 1 .. Len(Es(a)), i <= Len(Es(b)), Es(a)[i].term = Es(b)[i].term
             PROVE  Agree(Es(a), Es(b), i)
  BY DEF LogsAgree
<1>1. Len(Es(a)) \in Nat /\ Len(Es(b)) \in Nat
  BY EntryFacts
<1>2. \A j \in 1 .. i : Es(a)[j] = Es(b)[j]
  BY <1>1, LogsLinked, LinkedMatch DEF ReplicationInv
<1> QED BY <1>1, <1>2 DEF Agree

\* Also after a step.
LEMMA LogsAgreeAfter == TypeOK' /\ ReplicationInv' => LogsAgree'
BY LogsAgreeAlways, PTL

\* l believes, or will if an answer reaches it, that q holds its log up to i.
Acked(l, q, i) ==
    \/ matchIndex[l][q] >= i
    \/ \E r \in Acks : r.src = q /\ r.dst = l /\ r.term = currentTerm[l] /\ r.matchIndex >= i

\* Whom a leader believes to hold its log up to i holds it, as long as it stays
\* in the leader's term.
AckInv ==
    \A l, q \in Server, i \in Nat \ {0} :
        role[l] = "Leader" /\ Acked(l, q, i) =>
            /\ i <= Len(Es(l))
            /\ currentTerm[q] >= currentTerm[l]
            /\ currentTerm[q] = currentTerm[l] => Agree(Es(l), Es(q), i)

\* A leader's belief changes by an answer, and answers by an AppendEntries.
LEMMA AckedChange ==
    ASSUME TypeOK, TypeOK', LedInv, NEW n \in Server, Others(n), Kinds(n),
           NEW l \in Server, NEW q \in Server, NEW i \in Nat \ {0}, role'[l] = "Leader", Acked(l, q, i)'
    PROVE  /\ role[l] = "Leader" /\ currentTerm'[l] = currentTerm[l]
           /\ \/ Acked(l, q, i)
              \/ /\ q = n /\ q # l
                 /\ \E m \in Appends : /\ Takes(n, m) /\ m.src = l /\ m.term = currentTerm[l]
                                       /\ i <= m.prevLogIndex + Len(m.entries)
                                       /\ m.prevLogIndex + Len(m.entries) <= Len(Es(n)')
<1>0. /\ currentTerm[l] \in Nat /\ \A p \in Server : matchIndex[l][p] \in Nat /\ matchIndex'[l][p] \in Nat
  BY DEF TypeOK, ElectionTypeOK, LeaderTypeOK
<1>1. \/ role[l] = "Leader" /\ currentTerm'[l] = currentTerm[l]
      \/ /\ l = n /\ Grows(n) /\ role[l] = "Candidate" /\ currentTerm'[l] = currentTerm[l]
         /\ \A p \in Server : matchIndex'[l][p] = 0
  BY RoleFacts
<1>2. ASSUME NEW r \in Acks', r.src = q, r.dst = l, r.term = currentTerm'[l], r.matchIndex >= i
      PROVE  \/ r \in Acks
             \/ /\ q = n /\ q # l
                /\ \E m \in Appends : /\ Takes(n, m) /\ m.src = l /\ m.term = currentTerm[l]
                                      /\ i <= m.prevLogIndex + Len(m.entries)
                                      /\ m.prevLogIndex + Len(m.entries) <= Len(Es(n)')
  <2> SUFFICES ASSUME r \notin Acks
               PROVE  /\ q = n /\ q # l
                      /\ \E m \in Appends : /\ Takes(n, m) /\ m.src = l /\ m.term = currentTerm[l]
                                            /\ i <= m.prevLogIndex + Len(m.entries)
                                            /\ m.prevLogIndex + Len(m.entries) <= Len(Es(n)')
    OBVIOUS
  <2>1. PICK m \in Appends : /\ Takes(n, m)
                             /\ r.src = n /\ r.dst = m.src /\ r.term = m.term
                             /\ r.matchIndex = m.prevLogIndex + Len(m.entries)
                             /\ r.matchIndex <= Len(Es(n)')
    BY MessageChange
  <2>2. role'[n] = "Follower"
    BY <2>1 DEF Takes
  <2>3. q = n /\ q # l
    BY <1>2, <2>1, <2>2
  <2>4. m.term = currentTerm[l] /\ m.src = l
    BY <1>1, <1>2, <2>1
  <2> QED BY <1>2, <2>1, <2>3, <2>4
<1>3. CASE role[l] = "Leader" /\ currentTerm'[l] = currentTerm[l]
  <2>1. CASE matchIndex'[l][q] >= i
    <3>1. CASE matchIndex'[l][q] = matchIndex[l][q]
      BY <1>3, <2>1, <3>1 DEF Acked
    <3>2. ASSUME NEW m \in Acks, Confirms(n, m), l = n PROVE Acked(l, q, i)
      <4>1. \/ matchIndex'[n][q] = matchIndex[n][q]
            \/ q = m.src /\ matchIndex'[n][q] = m.matchIndex
        BY <3>2 DEF Confirms
      <4>2. m.dst = n /\ m.term = currentTerm[n]
        BY <3>2 DEF Confirms
      <4> QED BY <2>1, <3>2, <4>1, <4>2 DEF Acked
    <3>3. matchIndex'[l][q] = matchIndex[l][q] \/ (l = n /\ \E m \in Acks : Confirms(n, m))
      <4>1. CASE l # n
        BY <4>1 DEF Others
      <4>2. CASE l = n
        BY <1>3, <4>2 DEF Kinds, Still, Candidacy, Grows, Sends, Takes, Steady, StepsDown
      <4> QED BY <4>1, <4>2
    <3> QED BY <1>3, <3>1, <3>2, <3>3
  <2>2. CASE \E r \in Acks' : r.src = q /\ r.dst = l /\ r.term = currentTerm'[l] /\ r.matchIndex >= i
    BY <1>2, <1>3, <2>2 DEF Acked
  <2> QED BY <1>3, <2>1, <2>2 DEF Acked
<1>4. CASE /\ l = n /\ Grows(n) /\ role[l] = "Candidate" /\ currentTerm'[l] = currentTerm[l]
           /\ \A p \in Server : matchIndex'[l][p] = 0
  <2>1. ~ (matchIndex'[l][q] >= i)
    BY <1>4
  <2>2. PICK r \in Acks' : r.src = q /\ r.dst = l /\ r.term = currentTerm'[l]
    BY <2>1 DEF Acked
  <2>3. r \in Acks
    BY <1>4 DEF Grows, NothingSent, OldAcks
  <2>4. Led(r.term, l)
    BY <2>2, <2>3 DEF LedInv
  <2> QED BY <1>4, <2>2, <2>4 DEF Led
<1> QED BY <1>1, <1>3, <1>4

\* A request that a follower matches is one that some log can match.
LEMMA TakenMatchable ==
    ASSUME TypeOK, Shape, NEW n \in Server, NEW m \in Appends, Takes(n, m)
    PROVE  Matchable(m)
<1>1. CASE m.prevLogIndex = 0 /\ m.prevLogTerm = 0
  BY <1>1 DEF Matchable
<1>2. CASE m.prevLogIndex \in 1 .. Len(Es(n)) /\ Es(n)[m.prevLogIndex].term = m.prevLogTerm
  <2>1. LinkAt(n, m.prevLogIndex) \in Links /\ LinkAt(n, m.prevLogIndex).entry = Es(n)[m.prevLogIndex]
    BY <1>2, LinkFacts
  <2>2. m.prevLogTerm >= 1
    BY <1>2, <2>1 DEF Shape
  <2> QED BY <1>2, <2>2, AppendFacts DEF Matchable
<1> QED BY <1>1, <1>2 DEF Takes, PrevMatches

\* What a leader believes stays true.
LEMMA AckStep ==
    ASSUME TypeOK, TypeOK', ElectionInv, ElectionInv', ReplicationInv, ReplicationInv', AckInv,
           NEW n \in Server, Others(n), Kinds(n)
    PROVE  AckInv'
<1> SUFFICES ASSUME NEW l \in Server, NEW q \in Server, NEW i \in Nat \ {0},
                    role'[l] = "Leader", Acked(l, q, i)'
             PROVE  /\ i <= Len(Es(l)')
                    /\ currentTerm'[q] >= currentTerm'[l]
                    /\ currentTerm'[q] = currentTerm'[l] => Agree(Es(l)', Es(q)', i)
  BY DEF AckInv
<1>0. LeadersLead /\ ElectionSafety' /\ LogsAgree' /\ Shape /\ LedInv /\ LeaderHasAll
  BY LeaderTerms, QuorumsMeetAfter, LogsAgreeAfter DEF ReplicationInv
<1>1. /\ role[l] = "Leader" /\ currentTerm'[l] = currentTerm[l]
      /\ \/ Acked(l, q, i)
         \/ /\ q = n /\ q # l
            /\ \E m \in Appends : /\ Takes(n, m) /\ m.src = l /\ m.term = currentTerm[l]
                                  /\ i <= m.prevLogIndex + Len(m.entries)
                                  /\ m.prevLogIndex + Len(m.entries) <= Len(Es(n)')
  BY <1>0, AckedChange
<1>2. /\ Len(Es(l)) <= Len(Es(l)') /\ Len(Es(l)') \in Nat /\ Len(Es(l)) \in Nat
      /\ \A j \in 1 .. Len(Es(l)) : Es(l)'[j] = Es(l)[j]
  BY LeaderLog, EntryFacts
<1>3. currentTerm'[q] >= currentTerm[q] /\ currentTerm[q] \in Nat /\ currentTerm'[q] \in Nat
      /\ currentTerm[l] \in Nat /\ Len(Es(q)) \in Nat /\ Len(Es(q)') \in Nat
  BY RoleFacts, EntryFacts, TypesAfter
<1>4. CASE Acked(l, q, i)
  <2>1. /\ i <= Len(Es(l)) /\ currentTerm[q] >= currentTerm[l]
        /\ currentTerm[q] = currentTerm[l] => Agree(Es(l), Es(q), i)
    BY <1>1, <1>4 DEF AckInv
  <2>2. ASSUME currentTerm'[q] = currentTerm'[l] PROVE Agree(Es(l)', Es(q)', i)
    <3>1. currentTerm[q] = currentTerm[l] /\ Agree(Es(l), Es(q), i)
      BY <1>1, <1>3, <2>1, <2>2
    <3>2. \A j \in 1 .. i : Es(l)'[j] = Es(l)[j]
      BY <1>2, <2>1
    <3>3. CASE Es(q)' = Es(q)
      BY <1>2, <2>1, <3>1, <3>2, <3>3 DEF Agree
    <3>4. CASE q = n /\ Grows(n)
      <4>1. q = l
        BY <1>0, <2>2, <3>4 DEF Grows, ElectionSafety
      <4> QED BY <1>2, <2>1, <4>1 DEF Agree
    <3>5. ASSUME q = n, NEW m \in Appends, Takes(n, m) PROVE Agree(Es(l)', Es(q)', i)
      <4>1. m.term = currentTerm[l]
        BY <1>1, <2>2, <3>5 DEF Takes
      <4>2. m.src = l
        <5>1. Led(m.term, m.src) /\ m.src \in Server
          BY <1>0, AppendFacts DEF LedInv
        <5> QED BY <1>0, <1>1, <4>1, <5>1 DEF LeadersLead
      <4>3. CutFrom(m, Es(l))
        BY <1>0, <1>1, <3>5, <4>1, <4>2, TakenMatchable DEF LeaderHasAll
      <4>4. EntriesFit(m, Es(l), i)
        BY <4>3 DEF CutFrom, EntriesFit
      <4>5. Agree(Es(q), Es(l), i)
        BY <3>1 DEF Agree
      <4>6. Agree(Es(q)', Es(l), i)
        BY <3>5, <4>4, <4>5, TakesKeeps
      <4> QED BY <1>2, <2>1, <3>2, <4>6 DEF Agree
    <3> QED BY <3>3, <3>4, <3>5, LogChange
  <2> QED BY <1>1, <1>2, <1>3, <2>1, <2>2
<1>5. ASSUME q = n, NEW m \in Appends, Takes(n, m), m.src = l, m.term = currentTerm[l],
             i <= m.prevLogIndex + Len(m.entries), m.prevLogIndex + Len(m.entries) <= Len(Es(n)')
      PROVE  /\ i <= Len(Es(l)')
             /\ currentTerm'[q] >= currentTerm'[l]
             /\ currentTerm'[q] = currentTerm'[l] => Agree(Es(l)', Es(q)', i)
  <2>1. CutFrom(m, Es(l))
    BY <1>0, <1>1, <1>5, TakenMatchable DEF LeaderHasAll
  <2> DEFINE last == m.prevLogIndex + Len(m.entries)
  <2>2. last \in Nat /\ last >= 1 /\ i <= last /\ last <= Len(Es(n)')
    BY <1>5, AppendFacts
  <2>3. last <= Len(Es(l)) /\ Es(n)'[last].term = Es(l)[last].term
    BY <1>5, <2>1, <2>2, TakesGains
  <2> HIDE DEF last
  <2>4. last \in 1 .. Len(Es(l)) /\ last \in 1 .. Len(Es(l)') /\ last <= Len(Es(q)')
    BY <1>2, <1>5, <2>2, <2>3
  <2>5. Es(l)'[last].term = Es(q)'[last].term
    BY <1>2, <1>5, <2>3, <2>4
  <2>6. Agree(Es(l)', Es(q)', last)
    BY <1>0, <2>4, <2>5 DEF LogsAgree, Agree
  <2>7. Agree(Es(l)', Es(q)', i)
    BY <1>2, <1>3, <2>2, <2>4, <2>6 DEF Agree
  <2>8. currentTerm'[q] = m.term
    BY <1>5 DEF Takes
  <2> QED BY <1>1, <1>3, <1>5, <2>7, <2>8 DEF Agree
<1> QED BY <1>1, <1>4, <1>5

\* Nobody leads at first.
LEMMA AckInit == Init => AckInv
<1> SUFFICES ASSUME Init PROVE AckInv
  OBVIOUS
<1>1. \A n \in Server : role[n] = "Follower"
  BY DEF Init, Started
<1> QED BY <1>1 DEF AckInv

\* A step of no node changes nothing.
LEMMA AckStutter == AckInv /\ UNCHANGED vars => AckInv'
<1> SUFFICES ASSUME AckInv, UNCHANGED vars PROVE AckInv'
  OBVIOUS
<1>1. UNCHANGED <<role, currentTerm, matchIndex, log, msgs>>
  BY DEF vars, electionVars, leaderVars, logVars
<1>2. \A l, q, i : Acked(l, q, i)' <=> Acked(l, q, i)
  BY <1>1 DEF Acked, Acks
<1>3. \A n : Es(n)' = Es(n)
  BY <1>1 DEF Es
<1>4. \A l, q, i : Agree(Es(l)', Es(q)', i) <=> Agree(Es(l), Es(q), i)
  BY <1>3
<1> QED BY <1>1, <1>2, <1>3, <1>4 DEF AckInv

\* The invariant of replication, with what leaders believe of their peers, holds
\* as long as no snapshot is taken.
THEOREM AcksHold == Spec /\ []NoSnapshots => []AckInv
<1>1. Init => AckInv
  BY AckInit
<1>2. /\ TypeOK /\ TypeOK' /\ ElectionInv /\ ElectionInv' /\ NoSnapshots
      /\ ReplicationInv /\ ReplicationInv' /\ AckInv /\ [Next]_vars
      => AckInv'
  BY ReplicationNext, AckStep, AckStutter DEF Next
<1> QED BY <1>1, <1>2, TypeCorrect, VotesStand, ReplicationHolds, PTL DEF Spec

\* Without snapshots, a peer in the leader's term holds the leader's log up to
\* the matchIndex the leader has noted for it, although answers arrive late, out
\* of order, or after the peer has taken over a shorter request.
THEOREM MatchesAreHeld == Spec /\ []NoSnapshots => []MatchIndexIsHeld
<1>1. TypeOK /\ ReplicationInv /\ AckInv => MatchIndexIsHeld
  <2> SUFFICES ASSUME TypeOK, ReplicationInv, AckInv, NEW n \in Server, NEW p \in Server,
                      role[n] = "Leader", currentTerm[p] <= currentTerm[n]
               PROVE  /\ LastIndex(log[p]) >= matchIndex[n][p]
                      /\ SamePrefix(log[n], log[p], matchIndex[n][p])
    BY DEF MatchIndexIsHeld
  <2>1. /\ log[n] \in LogRecord /\ log[p] \in LogRecord /\ Whole(log[n]) /\ Whole(log[p])
        /\ Len(Es(n)) \in Nat /\ Len(Es(p)) \in Nat
        /\ currentTerm[n] \in Nat /\ currentTerm[p] \in Nat /\ matchIndex[n][p] \in Nat
    BY EntryFacts DEF ReplicationInv, Uncompacted, TypeOK, LogTypeOK, LeaderTypeOK
  <2>2. LastIndex(log[p]) = Len(Es(p))
    BY <2>1, WholeFacts DEF Es
  <2>3. CASE matchIndex[n][p] = 0
    <3>1. SamePrefix(log[n], log[p], 0)
      BY <2>1 DEF SamePrefix
    <3> QED BY <2>1, <2>2, <2>3, <3>1
  <2>4. CASE matchIndex[n][p] # 0
    <3> DEFINE i == matchIndex[n][p]
    <3>1. i \in Nat \ {0} /\ Acked(n, p, i)
      BY <2>1, <2>4 DEF Acked
    <3>2. currentTerm[p] >= currentTerm[n] /\ (currentTerm[p] = currentTerm[n] => Agree(Es(n), Es(p), i))
      BY <3>1 DEF AckInv
    <3> HIDE DEF i
    <3>3. Agree(Es(n), Es(p), i)
      BY <2>1, <3>2
    <3>4. i <= Len(Es(p)) /\ \A j \in 1 .. i : Es(n)[j] = Es(p)[j]
      BY <3>3 DEF Agree
    <3>5. SamePrefix(log[n], log[p], i)
      <4>1. i \in Int /\ \A j \in 1 .. i : log[n].entries[j] = log[p].entries[j]
        BY <3>1, <3>4 DEF Es
      <4> QED BY <2>1, <4>1, WholePrefix
    <3> QED BY <2>2, <3>4, <3>5 DEF i
  <2> QED BY <2>3, <2>4
<1> QED BY <1>1, TypeCorrect, ReplicationHolds, AcksHold, PTL

-----------------------------------------------------------------------------
(* What makes a prefix last. *)

\* The vote of q for c in the candidacy c is in.
Vote(q, c) == [voter |-> q, candidate |-> c, term |-> currentTerm[c]]

\* No entry of a later term than that of es[i] is at or before i, and those of
\* that term and later that come after i follow an entry of that term or later.
LinksPast(es, i) ==
    \A x \in Links : /\ x.entry.term > es[i].term => x.index > i
                     /\ x.entry.term >= es[i].term /\ x.index > i => x.prev >= es[i].term

\* A follower that matches m and takes its entries over does not lose es up to i.
Fits(m, es, i) ==
    /\ m.prevLogIndex \in 1 .. i => m.prevLogTerm = es[m.prevLogIndex].term
    /\ m.prevLogIndex > i => m.prevLogTerm >= es[i].term
    /\ EntriesFit(m, es, i)

\* q has es up to i, and did not vote for a candidate of a later term without it.
Keeps(q, es, i) ==
    /\ Agree(Es(q), es, i)
    /\ currentTerm[q] >= es[i].term
    /\ \A c \in Server :
          role[c] = "Candidate" /\ currentTerm[c] > es[i].term /\ Vote(q, c) \in VotesGiven =>
             Agree(Es(c), es, i)

\* All of A keeps es up to i, and no leader or request can take it from them.
Secure(es, i, A) ==
    /\ LinksPast(es, i)
    /\ \A m \in Appends : Matchable(m) /\ m.term >= es[i].term => Fits(m, es, i)
    /\ \A l \in Server : role[l] = "Leader" /\ currentTerm[l] >= es[i].term => Agree(Es(l), es, i)
    /\ \A q \in A : Keeps(q, es, i)

\* An entry of a sequence of them.
LEMMA EntryAt ==
    ASSUME NEW es \in Seq(LogEntry), NEW i \in 1 .. Len(es)
    PROVE  i \in Nat /\ i >= 1 /\ Len(es) \in Nat /\ es[i] \in LogEntry /\ es[i].term \in Int
<1>1. es[i] \in LogEntry
  OBVIOUS
<1> QED BY <1>1 DEF LogEntry, Terms

\* A log that goes on past i with a term of es[i] or later has all of es up to i.
LEMMA ChainReaches ==
    ASSUME TypeOK, LogsAgree, NEW es \in Seq(LogEntry), NEW i \in 1 .. Len(es), LinksPast(es, i),
           NEW q \in Server, Agree(Es(q), es, i),
           NEW c \in Server, NEW j \in 1 .. Len(Es(c)), j >= i, Es(c)[j].term >= es[i].term
    PROVE  Agree(Es(c), es, i)
<1> DEFINE t == es[i].term
<1>0. Len(es) \in Nat /\ i \in Nat /\ i >= 1 /\ t \in Int /\ j \in Nat /\ Len(Es(c)) \in Nat
      /\ Len(Es(q)) \in Nat
  BY EntryAt, EntryFacts
<1> DEFINE D == {k \in i .. j : Es(c)[k].term >= t}
<1>1. D \in SUBSET Int /\ IsFiniteSet(D) /\ D # {}
  <2>1. IsFiniteSet(i .. j) /\ D \subseteq i .. j
    BY <1>0, FS_Interval
  <2>2. j \in D
    BY <1>0
  <2> QED BY <2>1, <2>2, FS_Subset
<1>2. PICK k \in D : \A d \in D : k <= d
  BY <1>1, MinExists
<1>3. k \in i .. j /\ Es(c)[k].term >= t /\ k \in 1 .. Len(Es(c))
  BY <1>0, <1>2
<1>4. k = i
  <2> SUFFICES ASSUME k # i PROVE FALSE
    OBVIOUS
  <2>1. k - 1 \in i .. j /\ k # 1 /\ ~ (k <= k - 1) /\ k > i
    BY <1>0, <1>3
  <2>2. LinkAt(c, k) \in Links /\ LinkAt(c, k).index = k /\ LinkAt(c, k).entry = Es(c)[k]
        /\ LinkAt(c, k).prev = Es(c)[k - 1].term
    BY <1>3, <2>1, LinkFacts
  <2>3. Es(c)[k - 1].term >= t
    BY <1>3, <2>1, <2>2 DEF LinksPast
  <2>4. k - 1 \in D
    BY <2>1, <2>3
  <2> QED BY <1>2, <2>1, <2>4
<1>5. LinkAt(c, i) \in Links /\ LinkAt(c, i).index = i /\ LinkAt(c, i).entry = Es(c)[i]
  BY <1>3, <1>4, LinkFacts
<1>6. ~ (Es(c)[i].term > t) /\ Es(c)[i].term \in Int
  BY <1>0, <1>3, <1>4, <1>5, EntryFacts DEF LinksPast
<1>7. Es(c)[i].term = t
  BY <1>0, <1>3, <1>4, <1>6
<1>8. i <= Len(Es(q)) /\ Es(q)[i] = es[i]
  BY <1>0 DEF Agree
<1>9. Agree(Es(c), Es(q), i)
  BY <1>3, <1>4, <1>7, <1>8 DEF LogsAgree
<1> QED BY <1>9 DEF Agree

\* Past an entry of a log there are none of earlier terms.
LEMMA TermsGrow ==
    ASSUME TypeOK, Shape, NEW c \in Server, NEW i \in 1 .. Len(Es(c)), NEW j \in 1 .. Len(Es(c)), i <= j
    PROVE  Es(c)[i].term <= Es(c)[j].term /\ Es(c)[i].term >= 1
BY LogsLinked, LinkedTerms, EntryFacts

\* A leader's beginnings stay what they are.
LEMMA LeaderKeeps ==
    ASSUME TypeOK, NEW n \in Server, Others(n), Kinds(n), NEW c \in Server, role'[c] = "Leader",
           NEW es, NEW i \in Nat, Agree(Es(c), es, i)
    PROVE  Agree(Es(c)', es, i)
<1>1. /\ Len(Es(c)) <= Len(Es(c)') /\ Len(Es(c)') \in Nat /\ Len(Es(c)) \in Nat
      /\ \A j \in 1 .. Len(Es(c)) : Es(c)'[j] = Es(c)[j]
  BY LeaderLog, EntryFacts
<1> QED BY <1>1 DEF Agree

\* What a leader of es[i]'s term or later, that has es up to i, sends fits.
LEMMA TakenFits ==
    ASSUME TypeOK, TypeOK', Shape, NEW n \in Server, NEW m \in Appends', TakenFrom(m, n), Matchable(m),
           NEW es \in Seq(LogEntry), NEW i \in 1 .. Len(es), Agree(Es(n), es, i)
    PROVE  Fits(m, es, i)
<1>0. /\ m.prevLogIndex \in Nat /\ Len(m.entries) \in Nat /\ Len(Es(n)) \in Nat /\ Len(es) \in Nat
      /\ i \in Nat /\ i >= 1 /\ m.prevLogTerm \in Int
  BY AppendFactsAfter, EntryFacts
<1>1. i <= Len(Es(n)) /\ \A j \in 1 .. i : Es(n)[j] = es[j]
  BY DEF Agree
<1>2. \A j \in 1 .. Len(Es(n)) : Es(n)[j].term >= 1
  BY <1>0, TermsGrow
<1>3. ASSUME m.prevLogIndex \in 1 .. Len(Es(n)) PROVE m.prevLogTerm = Es(n)[m.prevLogIndex].term
  <2>1. m.prevLogTerm = OrZero(Es(n)[m.prevLogIndex].term)
    BY <1>3 DEF TakenFrom
  <2>2. Es(n)[m.prevLogIndex].term >= 1
    BY <1>2, <1>3
  <2> QED BY <2>1, <2>2 DEF OrZero, NoTerm
<1>4. ASSUME m.prevLogIndex \in 1 .. i PROVE m.prevLogTerm = es[m.prevLogIndex].term
  BY <1>0, <1>1, <1>3, <1>4
<1>5. ASSUME m.prevLogIndex > i PROVE m.prevLogTerm >= es[i].term
  <2>1. m.prevLogIndex <= Len(Es(n))
    BY <1>0, <1>5 DEF TakenFrom, Matchable
  <2>2. m.prevLogIndex \in 1 .. Len(Es(n)) /\ i \in 1 .. Len(Es(n)) /\ i <= m.prevLogIndex
    BY <1>0, <1>1, <1>5, <2>1
  <2>3. Es(n)[i].term <= Es(n)[m.prevLogIndex].term
    BY <2>2, TermsGrow
  <2> QED BY <1>0, <1>1, <1>3, <2>2, <2>3
<1>6. EntriesFit(m, es, i)
  <2> SUFFICES ASSUME NEW k \in 1 .. Len(m.entries), m.prevLogIndex + k <= i
               PROVE  m.entries[k] = es[m.prevLogIndex + k]
    BY DEF EntriesFit
  <2>1. m.prevLogIndex + k \in 1 .. i
    BY <1>0
  <2>2. m.entries[k] = Es(n)[m.prevLogIndex + k]
    BY DEF TakenFrom
  <2> QED BY <1>1, <2>1, <2>2
<1> QED BY <1>4, <1>5, <1>6 DEF Fits

\* c is elected in a term later than that of es[i], without all of es up to i.
Lacks(c, es, i) ==
    /\ role[c] = "Candidate" /\ role'[c] = "Leader" /\ currentTerm'[c] = currentTerm[c]
    /\ currentTerm[c] > es[i].term
    /\ ~ Agree(Es(c), es, i)

\* Nobody new leads the term of an entry that is in a log.
LEMMA NoSecondLeader ==
    ASSUME TypeOK, TypeOK', ElectionInv, ElectionInv', LedInv, NEW n \in Server, Step(n), Others(n), Kinds(n),
           NEW x \in Links, NEW c \in Server,
           role[c] = "Candidate", role'[c] = "Leader", currentTerm'[c] = currentTerm[c],
           x.entry.term = currentTerm[c]
    PROVE  FALSE
<1>0. LeadersLead'
  BY LeaderTermsAfter
<1>1. PICK T \in Nat : T = currentTerm[c]
  BY EntryFacts
<1>2. PICK ld \in Server : Led(T, ld)
  BY <1>1 DEF LedInv
<1>3. Led(T, ld)'
  BY <1>2, LedStep
<1>4. Led(currentTerm[c], ld)'
  BY <1>1, <1>3 DEF Led
<1>5. ld = c
  BY <1>0, <1>1, <1>3 DEF LeadersLead
<1> QED BY <1>1, <1>2, <1>5 DEF Led

\* Leaders after a step have es up to i, but for one just elected.
LEMMA LeadersKeep ==
    ASSUME TypeOK, TypeOK', ElectionInv, ElectionInv', ReplicationInv,
           NEW n \in Server, Step(n), Others(n), Kinds(n),
           NEW es \in Seq(LogEntry), NEW i \in 1 .. Len(es), NEW A, Secure(es, i, A),
           NEW q \in A, q \in Server,
           NEW c \in Server, role'[c] = "Leader", currentTerm'[c] >= es[i].term, ~ Lacks(c, es, i)
    PROVE  Agree(Es(c), es, i)
<1>0. i \in Nat /\ currentTerm[c] \in Nat /\ es[i].term \in Int
  BY EntryAt, EntryFacts
<1>1. CASE role[c] = "Leader" /\ currentTerm'[c] = currentTerm[c]
  BY <1>1 DEF Secure
<1>2. CASE role[c] = "Candidate" /\ currentTerm'[c] = currentTerm[c]
  <2>1. CASE currentTerm[c] > es[i].term
    BY <1>2, <2>1 DEF Lacks
  <2>2. CASE currentTerm[c] = es[i].term
    <3>1. Agree(Es(q), es, i)
      BY DEF Secure, Keeps
    <3>2. i \in 1 .. Len(Es(q)) /\ Es(q)[i] = es[i]
      BY <3>1 DEF Agree
    <3>3. LinkAt(q, i) \in Links /\ LinkAt(q, i).entry = es[i]
      BY <3>2, LinkFacts
    <3>4. LinkAt(q, i).entry.term = currentTerm[c] /\ LedInv
      BY <2>2, <3>3 DEF ReplicationInv
    <3> QED BY <1>2, <3>3, <3>4, NoSecondLeader
  <2> QED BY <1>0, <1>2, <2>1, <2>2
<1> QED BY <1>1, <1>2, RoleFacts

\* A candidate that gets the vote of a node with es up to i has it, too.
LEMMA VotesKeep ==
    ASSUME TypeOK, ReplicationInv, LogsAgree, NEW q \in Server, NEW c \in Server, NEW b \in Ballots,
           b.src = c, role[c] = "Candidate", currentTerm[c] = b.term,
           IsLogUpToDate(log[q], b.lastLogIndex, b.lastLogTerm),
           NEW es \in Seq(LogEntry), NEW i \in 1 .. Len(es), LinksPast(es, i), Agree(Es(q), es, i)
    PROVE  Agree(Es(c), es, i)
<1>0. /\ i \in Nat /\ i >= 1 /\ es[i].term \in Int /\ Len(Es(c)) \in Nat /\ Len(Es(q)) \in Nat
      /\ Shape /\ RequestInv
  BY EntryAt, EntryFacts DEF ReplicationInv
<1>1. b.lastLogIndex = Len(Es(c)) /\ b.lastLogTerm = LastTermOf(Es(c))
  BY <1>0 DEF RequestInv
<1>2. log[q].lastTerm = LastTermOf(Es(q)) /\ LastIndex(log[q]) = Len(Es(q))
  <2>1. log[q] \in LogRecord /\ Whole(log[q])
    BY DEF ReplicationInv, Uncompacted, TypeOK, LogTypeOK
  <2> QED BY <2>1, WholeFacts DEF Whole, Es
<1>3. i \in 1 .. Len(Es(q)) /\ Len(Es(q)) \in 1 .. Len(Es(q)) /\ Es(q)[i] = es[i] /\ Es(q) # <<>>
  BY <1>0 DEF Agree
<1>4. LastTermOf(Es(q)) >= es[i].term /\ LastTermOf(Es(q)) \in Int /\ es[i].term >= 1
  <2>1. Es(q)[i].term <= Es(q)[Len(Es(q))].term /\ Es(q)[i].term >= 1 /\ Es(q)[Len(Es(q))].term \in Int
    BY <1>0, <1>3, TermsGrow, EntryFacts
  <2> QED BY <1>0, <1>3, <2>1 DEF LastTermOf
<1>5. \/ LastTermOf(Es(c)) > LastTermOf(Es(q))
      \/ LastTermOf(Es(c)) = LastTermOf(Es(q)) /\ Len(Es(c)) >= Len(Es(q))
  BY <1>1, <1>2 DEF IsLogUpToDate
<1>6. Es(c) # <<>> /\ LastTermOf(Es(c)) = Es(c)[Len(Es(c))].term /\ Len(Es(c)) \in 1 .. Len(Es(c))
      /\ LastTermOf(Es(c)) \in Int
  <2>1. Es(c) # <<>>
    <3> SUFFICES ASSUME Es(c) = <<>> PROVE FALSE
      OBVIOUS
    <3>1. LastTermOf(Es(c)) = 0
      BY DEF LastTermOf
    <3> QED BY <1>0, <1>4, <1>5, <3>1
  <2>2. Len(Es(c)) \in 1 .. Len(Es(c))
    BY <1>0, <2>1, EntryFacts
  <2>3. Es(c)[Len(Es(c))].term \in Int
    BY <2>2, EntryFacts
  <2> QED BY <2>1, <2>2, <2>3 DEF LastTermOf
<1> DEFINE j == Len(Es(c))
<1>7. Es(c)[j].term >= es[i].term /\ j \in 1 .. Len(Es(c)) /\ j \in Nat
  BY <1>0, <1>4, <1>5, <1>6
<1>8. j >= i
  <2> SUFFICES ASSUME j < i PROVE FALSE
    BY <1>0, <1>7
  <2>1. LinkAt(c, j) \in Links /\ LinkAt(c, j).index = j /\ LinkAt(c, j).entry = Es(c)[j]
    <3> HIDE DEF j
    <3>1. /\ \A a \in 1 .. Len(Es(c)) : LinkAt(c, a) \in Links
          /\ \A a : LinkAt(c, a).index = a /\ LinkAt(c, a).entry = Es(c)[a]
      BY LinkFacts
    <3> QED BY <1>7, <3>1, Zenon
  <2>2. ~ (Es(c)[j].term > es[i].term)
    BY <1>0, <1>7, <2>1 DEF LinksPast
  <2>3. LastTermOf(Es(c)) = es[i].term /\ LastTermOf(Es(q)) = es[i].term
    BY <1>0, <1>4, <1>5, <1>6, <2>2
  <2>4. j >= Len(Es(q))
    BY <1>0, <1>5, <2>3
  <2> QED BY <1>0, <1>3, <1>7, <2>4
<1> HIDE DEF j
<1> QED BY <1>7, <1>8, ChainReaches

\* The parts of Secure, each kept by a step unless a leader is elected that lacks
\* es up to i.
LEMMA SecureLinks ==
    ASSUME TypeOK, TypeOK', ElectionInv, ElectionInv', ReplicationInv,
           NEW n \in Server, Step(n), Others(n), Kinds(n),
           NEW es \in Seq(LogEntry), NEW i \in 1 .. Len(es), NEW A \in SUBSET Server, A # {},
           Secure(es, i, A), \A c \in Server : ~ Lacks(c, es, i)
    PROVE  LinksPast(es, i)'
<1>0. Shape /\ LinksPast(es, i) /\ i \in Nat /\ i >= 1 /\ es[i].term \in Int
  BY EntryAt DEF ReplicationInv, Secure
<1> SUFFICES ASSUME NEW x \in Links'
             PROVE  /\ x.entry.term > es[i].term => x.index > i
                    /\ x.entry.term >= es[i].term /\ x.index > i => x.prev >= es[i].term
  BY DEF LinksPast
<1>1. CASE x \in Links
  BY <1>0, <1>1 DEF LinksPast
<1>2. CASE NewLink(x, n)
  <2>1. /\ Grows(n) /\ x.index = Len(Es(n)) + 1 /\ x.entry.term = currentTerm[n]
        /\ x.prev = LastTermOf(Es(n)) /\ role'[n] = "Leader" /\ currentTerm'[n] = currentTerm[n]
    BY <1>2 DEF NewLink, Grows
  <2>2. currentTerm[n] \in Nat /\ Len(Es(n)) \in Nat
    BY EntryFacts
  <2>3. CASE ~ (currentTerm[n] >= es[i].term)
    BY <1>0, <2>1, <2>2, <2>3
  <2>4. CASE currentTerm[n] >= es[i].term
    <3>1. Agree(Es(n), es, i)
      BY <2>1, <2>4, LeadersKeep
    <3>2. i \in 1 .. Len(Es(n)) /\ Es(n)[i] = es[i] /\ i <= Len(Es(n))
      BY <1>0, <3>1 DEF Agree
    <3>3. Len(Es(n)) \in 1 .. Len(Es(n)) /\ Es(n) # <<>>
      BY <2>2, <3>2
    <3>4. Es(n)[i].term <= Es(n)[Len(Es(n))].term
      BY <1>0, <3>2, <3>3, TermsGrow
    <3>5. x.prev = Es(n)[Len(Es(n))].term
      BY <2>1, <3>3 DEF LastTermOf
    <3>6. x.prev \in Int
      BY <3>3, <3>5, EntryFacts
    <3>7. x.prev >= es[i].term
      BY <1>0, <3>2, <3>4, <3>5, <3>6
    <3>8. x.index > i
      BY <1>0, <2>1, <2>2, <3>2
    <3> QED BY <3>7, <3>8
  <2> QED BY <2>3, <2>4
<1> QED BY <1>0, <1>1, <1>2, NewLinks

\* The requests in flight: copies of old ones, or cut from the log of a leader that has es.
LEMMA SecureAppends ==
    ASSUME TypeOK, TypeOK', ElectionInv, ElectionInv', ReplicationInv,
           NEW n \in Server, Step(n), Others(n), Kinds(n),
           NEW es \in Seq(LogEntry), NEW i \in 1 .. Len(es), NEW A, Secure(es, i, A),
           NEW m \in Appends', Matchable(m), m.term >= es[i].term
    PROVE  Fits(m, es, i)
<1>1. ASSUME NEW o \in Appends, CopyOf(m, o) PROVE Fits(m, es, i)
  <2>1. Fits(o, es, i)
    BY <1>1 DEF Secure, CopyOf, Matchable
  <2> QED BY <1>1, <2>1 DEF Fits, EntriesFit, CopyOf
<1>2. CASE Sends(n) /\ TakenFrom(m, n)
  <2>1. role[n] = "Leader" /\ m.term = currentTerm[n] /\ Shape
    BY <1>2 DEF Sends, TakenFrom, ReplicationInv
  <2>2. Agree(Es(n), es, i)
    BY <2>1 DEF Secure
  <2> QED BY <1>2, <2>1, <2>2, TakenFits
<1> QED BY <1>1, <1>2, MessageChange

\* The logs of nodes in es[i]'s term or later: what they take over fits es up to i.
LEMMA SecureLogs ==
    ASSUME TypeOK, TypeOK', ReplicationInv, NEW n \in Server, Others(n), Kinds(n),
           NEW es \in Seq(LogEntry), NEW i \in 1 .. Len(es), NEW A, Secure(es, i, A),
           NEW q \in Server, NEW k \in 0 .. i, Agree(Es(q), es, k),
           currentTerm[q] >= es[i].term
    PROVE  Agree(Es(q)', es, k)
<1>0. k \in Nat /\ i \in Nat /\ es[i].term \in Int /\ Len(Es(q)) \in Nat /\ currentTerm[q] \in Nat /\ Shape
  BY EntryAt, EntryFacts DEF ReplicationInv
<1>1. CASE Es(q)' = Es(q)
  BY <1>1 DEF Agree
<1>2. CASE q = n /\ Grows(n)
  <2>1. role'[q] = "Leader"
    BY <1>2 DEF Grows
  <2> QED BY <1>0, <2>1, LeaderKeeps
<1>3. ASSUME q = n, NEW m \in Appends, Takes(n, m) PROVE Agree(Es(q)', es, k)
  <2>1. m.term >= es[i].term
    BY <1>0, <1>3, AppendFacts DEF Takes
  <2>2. Matchable(m)
    BY <1>0, <1>3, TakenMatchable
  <2>3. Fits(m, es, i)
    BY <2>1, <2>2 DEF Secure
  <2>4. EntriesFit(m, es, k)
    <3> SUFFICES ASSUME NEW j \in 1 .. Len(m.entries), m.prevLogIndex + j <= k
                 PROVE  m.entries[j] = es[m.prevLogIndex + j]
      BY DEF EntriesFit
    <3>1. m.prevLogIndex + j <= i
      BY <1>0, AppendFacts
    <3> QED BY <2>3, <3>1 DEF Fits, EntriesFit
  <2> QED BY <1>0, <1>3, <2>4, TakesKeeps
<1> QED BY <1>1, <1>2, <1>3, LogChange

\* The votes: who votes for a candidate finds its log up to date, so that it has es.
LEMMA SecureVotes ==
    ASSUME TypeOK, TypeOK', ElectionInv, ReplicationInv, LogsAgree,
           NEW n \in Server, Step(n), Others(n), Kinds(n),
           NEW es \in Seq(LogEntry), NEW i \in 1 .. Len(es), NEW A, Secure(es, i, A),
           NEW q \in A, q \in Server,
           NEW c \in Server, role'[c] = "Candidate", currentTerm'[c] > es[i].term,
           Vote(q, c)' \in VotesGiven'
    PROVE  Agree(Es(c)', es, i)
<1>0. /\ RequestTerms /\ LinksPast(es, i) /\ Keeps(q, es, i) /\ LeaderHasQuorum
      /\ currentTerm[c] \in Nat
  BY EntryFacts DEF ReplicationInv, Secure, ElectionInv
<1> DEFINE g == Vote(q, c)'
<1>1. g.voter = q /\ g.candidate = c /\ g.term = currentTerm'[c]
  BY DEF Vote
<1>2. Es(c)' = Es(c)
  BY LogChange DEF Grows, Takes
<1>3. \/ role[c] = "Candidate" /\ currentTerm'[c] = currentTerm[c]
      \/ currentTerm'[c] = currentTerm[c] + 1
  BY RoleFacts DEF Candidacy
<1>4. \/ g \in VotesGiven
      \/ g.voter = n /\ g.candidate = n
      \/ g.voter = n /\ \E m \in Ballots : Answers(g, n, m) /\ UNCHANGED log
  BY <1>0, NewVotes
<1>5. CASE g \in VotesGiven
  <2>1. g.term <= currentTerm[c]
    BY <1>0, <1>1, <1>5 DEF RequestTerms
  <2>2. role[c] = "Candidate" /\ currentTerm'[c] = currentTerm[c]
    BY <1>0, <1>1, <1>3, <2>1
  <2>3. Vote(q, c) = g
    BY <2>2 DEF Vote
  <2>4. Agree(Es(c), es, i)
    BY <1>0, <1>5, <2>2, <2>3 DEF Keeps
  <2> QED BY <1>2, <2>4
<1>6. CASE g.voter = n /\ g.candidate = n
  BY <1>0, <1>1, <1>2, <1>6 DEF Keeps
<1>7. ASSUME g.voter = n, NEW m \in Ballots, Answers(g, n, m) PROVE Agree(Es(c)', es, i)
  <2>1. /\ q = n /\ m.src = c /\ m.term = currentTerm'[c]
        /\ IsLogUpToDate(log[q], m.lastLogIndex, m.lastLogTerm)
    BY <1>1, <1>7 DEF Answers
  <2>2. m.term <= currentTerm[c] /\ m.term \in Nat
    BY <1>0, <2>1 DEF RequestTerms
  <2>3. role[c] = "Candidate" /\ currentTerm[c] = m.term
    BY <1>0, <1>3, <2>1, <2>2
  <2>4. Agree(Es(c), es, i)
    BY <1>0, <2>1, <2>3, VotesKeep DEF Keeps
  <2> QED BY <1>2, <2>4
<1> HIDE DEF g
<1> QED BY <1>4, <1>5, <1>6, <1>7

\* What is secure stays secure, until somebody is elected that lacks it.
LEMMA SecureStep ==
    ASSUME TypeOK, TypeOK', ElectionInv, ElectionInv', ReplicationInv,
           NEW n \in Server, Step(n), Others(n), Kinds(n),
           NEW es \in Seq(LogEntry), NEW i \in 1 .. Len(es), NEW A \in SUBSET Server, A # {},
           Secure(es, i, A), \A c \in Server : ~ Lacks(c, es, i)
    PROVE  Secure(es, i, A)'
<1>0. LogsAgree /\ i \in Nat /\ es[i].term \in Int
  BY EntryAt, LogsAgreeAlways
<1>1. LinksPast(es, i)'
  BY SecureLinks
<1>2. \A m \in Appends' : Matchable(m) /\ m.term >= es[i].term => Fits(m, es, i)
  BY SecureAppends
<1>3. ASSUME NEW c \in Server, role'[c] = "Leader", currentTerm'[c] >= es[i].term
      PROVE  Agree(Es(c)', es, i)
  <2>1. Agree(Es(c), es, i)
    BY <1>3, LeadersKeep
  <2> QED BY <1>0, <1>3, <2>1, LeaderKeeps
<1>4. ASSUME NEW q \in A PROVE Keeps(q, es, i)'
  <2>1. Keeps(q, es, i) /\ q \in Server /\ currentTerm[q] \in Nat /\ currentTerm'[q] \in Nat
        /\ currentTerm'[q] >= currentTerm[q]
    BY EntryFacts, TypesAfter, RoleFacts DEF Secure
  <2>2. Agree(Es(q)', es, i)
    <3>1. i \in 0 .. i
      BY <1>0
    <3> QED BY <2>1, <3>1, SecureLogs DEF Keeps
  <2>3. currentTerm'[q] >= es[i].term
    BY <1>0, <2>1 DEF Keeps
  <2>4. ASSUME NEW c \in Server, role'[c] = "Candidate", currentTerm'[c] > es[i].term,
               Vote(q, c)' \in VotesGiven'
        PROVE  Agree(Es(c)', es, i)
    BY <1>0, <2>1, <2>4, SecureVotes
  <2> QED BY <2>2, <2>3, <2>4 DEF Keeps
<1> QED BY <1>1, <1>2, <1>3, <1>4 DEF Secure

-----------------------------------------------------------------------------
(* What leaders have replicated is secure. *)

\* Enough nodes went on to later terms, without having it, that entry i of
\* leader l will never be committed by l.
Blocked(l, i) ==
    \E V \in Quorums : \A v \in V : currentTerm[v] > currentTerm[l] /\ ~ Acked(l, v, i)

Holders(l, i) == {l} \cup {q \in Server : Acked(l, q, i)}

\* A leader's entry of its own term is secure on whoever holds it, or blocked.
SecureInv ==
    \A l \in Server : role[l] = "Leader" =>
        \A i \in 1 .. Len(Es(l)) : Es(l)[i].term = currentTerm[l] =>
            Blocked(l, i) \/ Secure(Es(l), i, Holders(l, i))

\* Who elects a leader that lacks a secure prefix does not have it either.
LEMMA ElectedWithout ==
    ASSUME TypeOK, TypeOK', ElectionInv, ElectionInv', ReplicationInv,
           NEW n \in Server, Step(n), Others(n), Kinds(n),
           NEW es \in Seq(LogEntry), NEW i \in 1 .. Len(es), NEW A \in SUBSET Server, Secure(es, i, A),
           NEW c \in Server, Lacks(c, es, i)
    PROVE  \E V \in Quorums : \A v \in V : v \in Server /\ v \notin A /\ currentTerm'[v] > es[i].term
<1> DEFINE V == votesReceived'[c]
<1>0. /\ role[c] = "Candidate" /\ role'[c] = "Leader" /\ currentTerm'[c] = currentTerm[c]
      /\ currentTerm[c] > es[i].term /\ ~ Agree(Es(c), es, i)
      /\ currentTerm[c] \in Nat /\ es[i].term \in Int /\ LeaderHasQuorum
  BY EntryAt, EntryFacts DEF Lacks, ElectionInv
<1>1. V \in Quorums
  <2>1. Cardinality(V) >= QuorumSize
    BY <1>0 DEF ElectionInv, LeaderHasQuorum, QuorumSize
  <2>2. V \in SUBSET Server
    BY DEF TypeOK, ElectionTypeOK
  <2> QED BY <2>1, <2>2 DEF Quorums
<1>2. c = n /\ \E e : Es(n)' = Append(Es(n), e)
  BY <1>0, RoleFacts DEF Grows
<1>3. ~ UNCHANGED log
  <2> SUFFICES ASSUME UNCHANGED log PROVE FALSE
    OBVIOUS
  <2>1. Es(n)' = Es(n) /\ Es(n) \in Seq(LogEntry) /\ Len(Es(n)) \in Nat
    BY EntryFacts DEF Es
  <2>2. PICK e : Es(n) = Append(Es(n), e)
    BY <1>2, <2>1
  <2>3. Len(Append(Es(n), e)) = Len(Es(n)) + 1
    BY <2>1
  <2>4. Len(Es(n)) = Len(Es(n)) + 1
    BY <2>2, <2>3
  <2> QED BY <2>1, <2>4
<1>4. ASSUME NEW v \in V PROVE v \in Server /\ v \notin A /\ currentTerm'[v] > es[i].term
  <2> DEFINE g == [voter |-> v, candidate |-> c, term |-> currentTerm[c]]
  <2>0. v \in Server
    BY <1>1 DEF Quorums
  <2>1. g \in VotesGiven'
    <3>1. g \in VotesCounted(c)'
      BY <1>0 DEF VotesCounted
    <3> QED BY <3>1 DEF VotesGiven
  <2>2. g.voter = v /\ g.candidate = c /\ g.term = currentTerm[c]
    OBVIOUS
  <2>3. g = Vote(v, c)
    BY DEF Vote
  <2> HIDE DEF g
  <2>4. currentTerm'[v] >= currentTerm[c] /\ currentTerm'[v] \in Nat
    <3>1. currentTerm'[g.voter] > g.term \/ currentTerm'[g.voter] = g.term
      BY <2>1 DEF ElectionInv, VotesAreCast
    <3> QED BY <1>0, <2>0, <2>2, <3>1, TypesAfter
  <2>5. ASSUME v \in A PROVE FALSE
    <3>1. Keeps(v, es, i)
      BY <2>5 DEF Secure
    <3>2. g \in VotesGiven \/ (g.voter = n /\ g.candidate = n)
      BY <1>0, <1>3, <2>1, NewVotes
    <3>3. CASE g \in VotesGiven
      BY <1>0, <2>3, <3>1, <3>3 DEF Keeps
    <3>4. CASE g.voter = n /\ g.candidate = n
      BY <1>0, <2>2, <3>1, <3>4 DEF Keeps
    <3> QED BY <3>2, <3>3, <3>4
  <2> QED BY <1>0, <2>0, <2>4, <2>5
<1> HIDE DEF V
<1> QED BY <1>1, <1>4

\* A secure prefix may be taken from any log that has it.
LEMMA SecureMoves ==
    ASSUME TypeOK, TypeOK', NEW es \in Seq(LogEntry), NEW fs \in Seq(LogEntry),
           NEW i \in 1 .. Len(es), Agree(fs, es, i), NEW A, Secure(es, i, A)'
    PROVE  Secure(fs, i, A)'
<1>0. i \in Nat /\ i >= 1 /\ i \in 1 .. i /\ i <= Len(fs) /\ i <= Len(es)
      /\ \A j \in 1 .. i : fs[j] = es[j]
  BY EntryAt DEF Agree
<1>1. fs[i].term = es[i].term
  BY <1>0
<1>2. \A ns : Agree(ns, es, i) => Agree(ns, fs, i)
  BY <1>0 DEF Agree
<1>3. ASSUME NEW m \in Appends', Fits(m, es, i) PROVE Fits(m, fs, i)
  <2>1. /\ m.prevLogIndex \in 1 .. i => m.prevLogTerm = es[m.prevLogIndex].term
        /\ m.prevLogIndex > i => m.prevLogTerm >= es[i].term
        /\ \A k \in 1 .. Len(m.entries) :
              m.prevLogIndex + k <= i => m.entries[k] = es[m.prevLogIndex + k]
    BY <1>3 DEF Fits, EntriesFit
  <2>2. \A k \in 1 .. Len(m.entries) : m.prevLogIndex + k <= i => m.prevLogIndex + k \in 1 .. i
    BY <1>0, AppendFactsAfter
  <2> QED BY <1>0, <1>1, <2>1, <2>2 DEF Fits, EntriesFit
<1>4. LinksPast(fs, i)'
  BY <1>1 DEF Secure, LinksPast
<1>5. \A m \in Appends' : Matchable(m) /\ m.term >= fs[i].term => Fits(m, fs, i)
  BY <1>1, <1>3 DEF Secure
<1>6. \A l \in Server : role'[l] = "Leader" /\ currentTerm'[l] >= fs[i].term => Agree(Es(l)', fs, i)
  BY <1>1, <1>2 DEF Secure
<1>7. ASSUME NEW q \in A PROVE Keeps(q, fs, i)'
  <2>1. Keeps(q, es, i)'
    BY DEF Secure
  <2> QED BY <1>1, <1>2, <2>1 DEF Keeps
<1> QED BY <1>4, <1>5, <1>6, <1>7 DEF Secure

\* Secure of values that are, after the step, a leader's log and its holders.
LEMMA SecureIs ==
    ASSUME NEW l, NEW i, NEW fs, NEW B, fs = Es(l)', B = Holders(l, i)', Secure(fs, i, B)'
    PROVE  Secure(Es(l), i, Holders(l, i))'
BY DEF Secure, LinksPast, Fits, EntriesFit, Keeps

\* A node that is still in the term of es[i] has not voted in a later one.
LEMMA KeepsSameTerm ==
    ASSUME TypeOK', ElectionInv', NEW q \in Server, NEW es, NEW i,
           Agree(Es(q)', es, i), currentTerm'[q] = es[i].term
    PROVE  Keeps(q, es, i)'
<1>1. currentTerm'[q] >= es[i].term
  BY TypesAfter
<1>2. ASSUME NEW c \in Server, currentTerm'[c] > es[i].term, Vote(q, c)' \in VotesGiven' PROVE FALSE
  <2> DEFINE g == Vote(q, c)'
  <2>1. g.voter = q /\ g.term = currentTerm'[c]
    BY DEF Vote
  <2>2. currentTerm'[g.voter] > g.term \/ currentTerm'[g.voter] = g.term
    BY <1>2 DEF ElectionInv, VotesAreCast
  <2> HIDE DEF g
  <2> QED BY <1>2, <2>1, <2>2, TypesAfter
<1> QED BY <1>1, <1>2 DEF Keeps

\* An entry a leader had before the step.
LEMMA SecureOld ==
    ASSUME TypeOK, TypeOK', ElectionInv, ElectionInv', ReplicationInv, ReplicationInv',
           AckInv, AckInv', SecureInv,
           NEW n \in Server, Step(n), Others(n), Kinds(n),
           NEW l \in Server, role[l] = "Leader", role'[l] = "Leader", currentTerm'[l] = currentTerm[l],
           NEW i \in 1 .. Len(Es(l)), Es(l)[i].term = currentTerm[l]
    PROVE  Blocked(l, i)' \/ Secure(Es(l), i, Holders(l, i))'
<1>0. /\ i \in Nat \ {0} /\ Es(l) \in Seq(LogEntry) /\ Len(Es(l)) \in Nat /\ currentTerm[l] \in Nat
      /\ LedInv
  BY EntryFacts DEF ReplicationInv
<1>1. ASSUME NEW q \in Server, Acked(l, q, i)', ~ Acked(l, q, i)
      PROVE  q = n /\ \E m \in Appends : Takes(n, m) /\ m.term = currentTerm[l]
  BY <1>0, <1>1, AckedChange
<1>2. ASSUME NEW q \in Server, ~ Acked(l, q, i), currentTerm[q] > currentTerm[l]
      PROVE  ~ Acked(l, q, i)'
  <2> SUFFICES ASSUME Acked(l, q, i)' PROVE FALSE
    OBVIOUS
  <2>1. q = n /\ \E m \in Appends : Takes(n, m) /\ m.term = currentTerm[l]
    BY <1>1, <1>2
  <2>2. currentTerm[q] <= currentTerm[l]
    BY <2>1 DEF Takes
  <2> QED BY <1>0, <1>2, <2>2, EntryFacts
<1>3. \A q \in Server : currentTerm'[q] >= currentTerm[q] /\ currentTerm[q] \in Nat /\ currentTerm'[q] \in Nat
  BY EntryFacts, TypesAfter, RoleFacts
<1>4. CASE Blocked(l, i)
  <2>1. PICK V \in Quorums : \A v \in V : currentTerm[v] > currentTerm[l] /\ ~ Acked(l, v, i)
    BY <1>4 DEF Blocked
  <2>2. ASSUME NEW v \in V PROVE currentTerm'[v] > currentTerm'[l] /\ ~ Acked(l, v, i)'
    <3>1. v \in Server /\ currentTerm[v] > currentTerm[l] /\ ~ Acked(l, v, i)
      BY <2>1 DEF Quorums
    <3> QED BY <1>0, <1>2, <1>3, <3>1
  <2>3. V \in Quorums'
    BY DEF Quorums, QuorumSize
  <2> QED BY <2>2, <2>3 DEF Blocked
<1>5. CASE Secure(Es(l), i, Holders(l, i))
  <2>1. PICK es \in Seq(LogEntry) : es = Es(l)
    BY <1>0
  <2>2. PICK A \in SUBSET Server : A = Holders(l, i)
    BY DEF Holders
  <2>3. i \in 1 .. Len(es) /\ Secure(es, i, A) /\ es[i].term = currentTerm[l] /\ A # {}
    BY <1>5, <2>1, <2>2 DEF Holders
  <2>4. CASE \A c \in Server : ~ Lacks(c, es, i)
    <3>1. Secure(es, i, A)'
      BY <2>3, <2>4, SecureStep
    <3>2. Agree(Es(l)', es, i)
      <4>1. Agree(Es(l), es, i)
        BY <1>0, <2>1 DEF Agree
      <4> QED BY <1>0, <4>1, LeaderKeeps
    <3>3. ASSUME NEW q \in Holders(l, i)' PROVE Keeps(q, es, i)'
      <4>1. CASE q \in A
        BY <3>1, <4>1 DEF Secure
      <4>2. CASE q \notin A
        <5>1. q \in Server /\ q # l /\ Acked(l, q, i)' /\ ~ Acked(l, q, i)
          BY <2>2, <4>2 DEF Holders
        <5>2. q = n /\ \E m \in Appends : Takes(n, m) /\ m.term = currentTerm[l]
          BY <1>1, <5>1
        <5>3. currentTerm'[q] = currentTerm[l]
          BY <5>2 DEF Takes
        <5>4. Agree(Es(l)', Es(q)', i)
          BY <1>0, <5>1, <5>3 DEF AckInv
        <5>5. Agree(Es(q)', es, i)
          BY <3>2, <5>4 DEF Agree
        <5> QED BY <2>3, <5>1, <5>3, <5>5, KeepsSameTerm
      <4> QED BY <4>1, <4>2
    <3>4. PICK B \in SUBSET Server : B = Holders(l, i)'
      BY DEF Holders
    <3>5. Secure(es, i, B)'
      BY <3>1, <3>3, <3>4 DEF Secure
    <3>6. PICK fs \in Seq(LogEntry) : fs = Es(l)'
      BY TypesAfter
    <3>7. Secure(fs, i, B)'
      BY <2>3, <3>2, <3>5, <3>6, SecureMoves
    <3> QED BY <3>4, <3>6, <3>7, SecureIs
  <2>5. ASSUME NEW c \in Server, Lacks(c, es, i) PROVE Blocked(l, i)'
    <3>1. PICK V \in Quorums : \A v \in V : v \in Server /\ v \notin A /\ currentTerm'[v] > es[i].term
      BY <2>3, <2>5, ElectedWithout
    <3>2. c = n /\ Grows(n)
      BY <2>5, RoleFacts DEF Lacks
    <3>3. ASSUME NEW v \in V PROVE currentTerm'[v] > currentTerm'[l] /\ ~ Acked(l, v, i)'
      <4>1. v \in Server /\ ~ Acked(l, v, i) /\ currentTerm'[v] > currentTerm[l]
        BY <2>2, <2>3, <3>1 DEF Holders
      <4>2. \A m \in Appends : ~ Takes(n, m)
        BY <3>2 DEF Grows, Takes
      <4> QED BY <1>1, <4>1, <4>2
    <3>4. V \in Quorums'
      BY DEF Quorums, QuorumSize
    <3> QED BY <3>3, <3>4 DEF Blocked
  <2> QED BY <2>4, <2>5
<1> QED BY <1>4, <1>5 DEF SecureInv

\* A later term that anybody has led blocks what a leader has not replicated.
LEMMA LaterBlocks ==
    ASSUME TypeOK', NEW l \in Server, NEW i, \A q \in Server : ~ Acked(l, q, i)',
           NEW T \in Int, T > currentTerm'[l], NEW ld, Led(T, ld)'
    PROVE  Blocked(l, i)'
<1>1. PICK V \in Quorums' : \A v \in V : currentTerm'[v] >= T
  BY DEF Led
<1>2. \A v \in V : v \in Server /\ currentTerm'[v] \in Nat
  BY <1>1, TypesAfter DEF Quorums
<1>3. currentTerm'[l] \in Nat
  BY TypesAfter
<1>4. \A v \in V : currentTerm'[v] > currentTerm'[l] /\ ~ Acked(l, v, i)'
  BY <1>1, <1>2, <1>3
<1> QED BY <1>1, <1>4 DEF Blocked

\* Links after a step are typed, and somebody has led their terms.
LinksOk ==
    \A x \in Links : /\ x.index \in Nat /\ x.entry.term \in Int /\ x.prev \in Int
                     /\ \E ld \in Server : Led(x.entry.term, ld)

\* That is what the invariant of replication says of links.
LEMMA LinksAreOk == TypeOK /\ ReplicationInv => LinksOk
BY LinkTypes DEF ReplicationInv, LedInv, LinksOk

\* Also after a step.
LEMMA LinksAreOkAfter == TypeOK' /\ ReplicationInv' => LinksOk'
BY LinksAreOk, PTL

\* The entry a leader appends in the step.
LEMMA SecureNew ==
    ASSUME TypeOK, TypeOK', ElectionInv, ElectionInv', ReplicationInv, ReplicationInv', AckInv,
           NEW n \in Server, Step(n), Others(n), Kinds(n), Grows(n), NEW i \in Nat, i = Len(Es(n)')
    PROVE  Blocked(n, i)' \/ Secure(Es(n), i, Holders(n, i))'
<1>1. PICK fs \in Seq(LogEntry) : fs = Es(n)'
  BY TypesAfter
<1>0. PICK t \in Nat : t = currentTerm[n]
  BY EntryFacts
<1>2. PICK e : Es(n)' = Append(Es(n), e) /\ e.term = currentTerm[n]
  BY DEF Grows
<1>3. /\ i \in Nat \ {0} /\ i = Len(Es(n)) + 1 /\ i \in 1 .. Len(fs) /\ fs[i].term = t
      /\ t = currentTerm'[n] /\ t \in Nat /\ role'[n] = "Leader" /\ Len(Es(n)) \in Nat
      /\ i = Len(fs) /\ t = currentTerm[n]
  <2>1. Es(n) \in Seq(LogEntry) /\ Len(Es(n)) \in Nat /\ currentTerm[n] \in Nat
    BY EntryFacts
  <2>2. Len(fs) = Len(Es(n)) + 1 /\ fs[Len(Es(n)) + 1] = e
    BY <1>1, <1>2, <2>1
  <2> QED BY <1>0, <1>1, <1>2, <2>1, <2>2 DEF Grows
<1>4. LeadersLead' /\ ElectionSafety' /\ LedInv /\ LedInv' /\ LeaderHasAll' /\ Shape'
  BY LeaderTermsAfter, QuorumsMeetAfter DEF ReplicationInv
<1>5. ASSUME NEW q \in Server, Acked(n, q, i)' PROVE FALSE
  <2>1. /\ role[n] = "Leader"
        /\ \/ Acked(n, q, i)
           \/ q = n /\ q # n
    BY <1>3, <1>4, <1>5, AckedChange
  <2>2. i <= Len(Es(n))
    BY <1>3, <2>1 DEF AckInv
  <2> QED BY <1>3, <2>2
<1>6. ASSUME NEW T \in Int, T > t, NEW ld, Led(T, ld)' PROVE Blocked(n, i)'
  BY <1>3, <1>5, <1>6, LaterBlocks
<1>7. CASE \E T \in Int : T > t /\ \E ld : Led(T, ld)'
  BY <1>3, <1>6, <1>7
<1>8. ASSUME \A T \in Int : T > t => \A ld : ~ Led(T, ld)' PROVE Secure(fs, i, Holders(n, i))'
  <2>1. ASSUME NEW x \in Links', x.entry.term >= t PROVE x.entry.term = t /\ x.index <= i
    <3>1. x.entry.term \in Int
      BY LinksAreOkAfter DEF LinksOk
    <3>2. \E ld \in Server : Led(x.entry.term, ld)'
      BY LinksAreOkAfter DEF LinksOk
    <3>3. x.entry.term = t
      BY <1>3, <1>8, <2>1, <3>1, <3>2
    <3>4. x \in LogLinks(n)'
      BY <1>3, <1>4, <3>3 DEF LeaderHasAll
    <3>5. PICK j \in 1 .. Len(Es(n)') : x = LinkAt(n, j)'
      BY <3>4 DEF LogLinks
    <3>6. x.index = j
      BY <3>5 DEF LinkAt
    <3> QED BY <1>3, <3>3, <3>5, <3>6
  <2>2. LinksPast(fs, i)'
    <3> SUFFICES ASSUME NEW x \in Links'
                 PROVE  /\ x.entry.term > t => x.index > i
                        /\ x.entry.term >= t /\ x.index > i => x.prev >= t
      BY <1>3 DEF LinksPast
    <3>1. x.entry.term \in Int /\ x.index \in Int
      BY LinksAreOkAfter DEF LinksOk
    <3> QED BY <1>3, <2>1, <3>1
  <2>3. ASSUME NEW m \in Appends', Matchable(m), m.term >= t PROVE Fits(m, fs, i)
    <3>0. m.term \in Nat /\ m.src \in Server /\ m.prevLogIndex \in Nat /\ Len(m.entries) \in Nat
      BY AppendFactsAfter
    <3>1. Led(m.term, m.src)'
      BY <1>4 DEF LedInv
    <3>2. m.term = t
      BY <1>3, <1>8, <2>3, <3>0, <3>1
    <3>3. m.src = n
      <4>1. Led(t, m.src)'
        BY <3>1, <3>2 DEF Led
      <4>2. Led(currentTerm[n], m.src)'
        BY <1>3, <4>1 DEF Led
      <4> QED BY <1>3, <1>4, <3>0, <4>2 DEF LeadersLead
    <3>4. CutFrom(m, fs)
      BY <1>1, <1>3, <1>4, <2>3, <3>2, <3>3 DEF LeaderHasAll
    <3>5. m.prevLogIndex + Len(m.entries) <= i /\ m.prevLogIndex <= i
      BY <1>3, <3>0, <3>4 DEF CutFrom
    <3> QED BY <1>3, <3>0, <3>4, <3>5 DEF CutFrom, Fits, EntriesFit
  <2>4. Agree(Es(n)', fs, i)
    BY <1>1, <1>3 DEF Agree
  <2>5. ASSUME NEW c \in Server, role'[c] = "Leader", currentTerm'[c] >= t PROVE Agree(Es(c)', fs, i)
    <3>1. Led(currentTerm[c], c)'
      BY <1>4, <2>5 DEF LeadersLead
    <3>2. PICK T \in Nat : T = currentTerm'[c]
      BY TypesAfter
    <3>3. Led(T, c)'
      BY <3>1, <3>2 DEF Led
    <3>4. T = t
      BY <1>3, <1>8, <2>5, <3>2, <3>3
    <3>5. c = n
      BY <1>3, <1>4, <2>5, <3>2, <3>4 DEF ElectionSafety
    <3> QED BY <2>4, <3>5
  <2>6. ASSUME NEW q \in Holders(n, i)' PROVE Keeps(q, fs, i)'
    <3>1. q = n
      BY <1>5 DEF Holders
    <3>2. currentTerm'[n] = fs[i].term
      BY <1>3
    <3> QED BY <2>4, <3>1, <3>2, KeepsSameTerm
  <2> QED BY <1>3, <2>2, <2>3, <2>5, <2>6 DEF Secure
<1>9. CASE \A T \in Int : T > t => \A ld : ~ Led(T, ld)'
  <2>1. PICK B \in SUBSET Server : B = Holders(n, i)'
    BY DEF Holders
  <2>2. Secure(fs, i, B)'
    BY <1>8, <1>9, <2>1 DEF Secure
  <2> QED BY <1>1, <1>3, <2>1, <2>2, SecureIs
<1> QED BY <1>7, <1>9

\* Every step keeps what leaders have of their own terms secure or blocked.
LEMMA SecureInvStep ==
    ASSUME TypeOK, TypeOK', ElectionInv, ElectionInv', ReplicationInv, ReplicationInv',
           AckInv, AckInv', SecureInv, NEW n \in Server, Step(n), Others(n), Kinds(n)
    PROVE  SecureInv'
<1> SUFFICES ASSUME NEW l \in Server, role'[l] = "Leader",
                    NEW i \in 1 .. Len(Es(l)'), Es(l)'[i].term = currentTerm'[l]
             PROVE  Blocked(l, i)' \/ Secure(Es(l), i, Holders(l, i))'
  BY DEF SecureInv
<1>0. /\ Len(Es(l)) \in Nat /\ Len(Es(l)') \in Nat /\ i \in Nat /\ i >= 1
      /\ currentTerm[l] \in Nat /\ CandidateInv
  BY EntryFacts, TypesAfter DEF ReplicationInv
<1>1. Len(Es(l)) <= Len(Es(l)') /\ \A j \in 1 .. Len(Es(l)) : Es(l)'[j] = Es(l)[j]
  BY LeaderLog
<1>2. \/ role[l] = "Leader" /\ currentTerm'[l] = currentTerm[l]
      \/ l = n /\ Grows(n) /\ role[l] = "Candidate" /\ currentTerm'[l] = currentTerm[l]
  BY RoleFacts
<1>3. CASE i \in 1 .. Len(Es(l))
  <2>1. Es(l)[i].term = currentTerm[l]
    BY <1>1, <1>2, <1>3
  <2>2. role[l] # "Candidate"
    <3> SUFFICES ASSUME role[l] = "Candidate" PROVE FALSE
      OBVIOUS
    <3>1. Es(l)[i].term < currentTerm[l]
      BY <1>0, <1>3 DEF CandidateInv
    <3> QED BY <1>0, <2>1, <3>1
  <2> QED BY <1>2, <1>3, <2>1, <2>2, SecureOld
<1>4. CASE i \notin 1 .. Len(Es(l))
  <2>1. Es(l)' # Es(l)
    BY <1>4
  <2>2. l = n /\ Grows(n)
    BY <1>2, <2>1, LogChange DEF Takes
  <2>3. PICK e : Es(n)' = Append(Es(n), e)
    BY <2>2 DEF Grows
  <2>4. Len(Es(n)') = Len(Es(n)) + 1
    BY <2>3, EntryFacts
  <2>5. i = Len(Es(n)')
    BY <1>0, <1>4, <2>2, <2>4
  <2> QED BY <1>0, <2>2, <2>5, SecureNew
<1> QED BY <1>3, <1>4

\* Nobody leads at first, and a step of no node changes nothing.
LEMMA SecureInit == Init => SecureInv
<1> SUFFICES ASSUME Init PROVE SecureInv
  OBVIOUS
<1>1. \A n \in Server : role[n] = "Follower"
  BY DEF Init, Started
<1> QED BY <1>1 DEF SecureInv

\* A step of no node leaves logs, terms, messages and votes alone,
LEMMA SecureFrame ==
    ASSUME UNCHANGED vars
    PROVE  /\ UNCHANGED <<role, currentTerm, matchIndex, log, msgs, commitIndex>>
           /\ UNCHANGED <<Links, Appends, Acks, VotesGiven>>
           /\ \A n : Es(n)' = Es(n)
<1>1. UNCHANGED <<electionVars, leaderVars, logVars, applyVars, msgs>>
  BY DEF vars
<1> QED BY <1>1 DEF electionVars, leaderVars, logVars, applyVars, Links, HeldLinks, FlyingLinks,
     LogLinks, SentLinks, LinkAt, LinkIn, Appends, Acks, Es, VotesGiven, VotesInFlight,
     VotesCounted, GrantsIn

\* so that what is secure is so still,
LEMMA SecureSame ==
    ASSUME UNCHANGED vars, NEW es, NEW i, NEW A
    PROVE  Secure(es, i, A)' <=> Secure(es, i, A)
<1>1. LinksPast(es, i)' <=> LinksPast(es, i)
  BY SecureFrame DEF LinksPast
<1>2. \A q : Agree(Es(q)', es, i) <=> Agree(Es(q), es, i)
  BY SecureFrame
<1>3. \A q, c : Vote(q, c)' = Vote(q, c)
  BY SecureFrame DEF Vote
<1>4. \A q : Keeps(q, es, i)' <=> Keeps(q, es, i)
  BY <1>2, <1>3, SecureFrame DEF Keeps
<1> QED BY <1>1, <1>2, <1>4, SecureFrame DEF Secure

\* on every leader's holders.
LEMMA SecureStutter == SecureInv /\ UNCHANGED vars => SecureInv'
<1> SUFFICES ASSUME SecureInv, UNCHANGED vars,
                    NEW l \in Server, role'[l] = "Leader",
                    NEW i \in 1 .. Len(Es(l)'), Es(l)'[i].term = currentTerm'[l]
             PROVE  Blocked(l, i)' \/ Secure(Es(l), i, Holders(l, i))'
  BY DEF SecureInv
<1>1. /\ role' = role /\ currentTerm' = currentTerm /\ Es(l)' = Es(l)
      /\ matchIndex' = matchIndex /\ Acks' = Acks
  BY SecureFrame
<1>2. \A q : Acked(l, q, i)' <=> Acked(l, q, i)
  BY <1>1 DEF Acked
<1>3. PICK es : es = Es(l)
  OBVIOUS
<1>4. PICK A : A = Holders(l, i)
  OBVIOUS
<1>5. A = Holders(l, i)' /\ es = Es(l)'
  BY <1>1, <1>2, <1>3, <1>4 DEF Holders
<1>6. Blocked(l, i) \/ Secure(Es(l), i, Holders(l, i))
  BY <1>1 DEF SecureInv
<1>7. CASE Blocked(l, i)
  BY <1>1, <1>2, <1>7 DEF Blocked, Quorums, QuorumSize
<1>8. CASE Secure(es, i, A)
  <2>1. Secure(es, i, A)'
    BY <1>8, SecureSame
  <2> QED BY <1>5, <2>1, SecureIs
<1> QED BY <1>3, <1>4, <1>6, <1>7, <1>8

\* Without snapshots, whatever a leader has of its own term is secure on its
\* holders, or will never be committed by it.
THEOREM SecureHolds == Spec /\ []NoSnapshots => []SecureInv
<1>1. Init => SecureInv
  BY SecureInit
<1>2. /\ TypeOK /\ TypeOK' /\ ElectionInv /\ ElectionInv' /\ NoSnapshots
      /\ ReplicationInv /\ ReplicationInv' /\ AckInv /\ AckInv' /\ SecureInv /\ [Next]_vars
      => SecureInv'
  BY ReplicationNext, SecureInvStep, SecureStutter DEF Next
<1> QED BY <1>1, <1>2, TypeCorrect, VotesStand, ReplicationHolds, AcksHold, PTL DEF Spec

-----------------------------------------------------------------------------
(* What is committed. *)

\* A quorum keeps es up to i.
Certified(es, i) == \E Q \in Quorums : Secure(es, i, Q)

\* es shows that the indices up to c are committed, by a leader of term t or before.
Warrant(es, i, c, t) ==
    es \in Seq(LogEntry) /\ i \in 1 .. Len(es) /\ c <= i /\ es[i].term <= t /\ Certified(es, i)

\* What a node, or a request, takes for committed is committed, and the node has it.
CommitInv ==
    /\ \A n \in Server : commitIndex[n] >= 1 =>
          \E es, i : Warrant(es, i, commitIndex[n], currentTerm[n]) /\ Agree(Es(n), es, commitIndex[n])
    /\ \A m \in Appends : m.leaderCommit >= 1 => \E es, i : Warrant(es, i, m.leaderCommit, m.term)

\* What a quorum keeps it keeps for ever: a leader that lacks it finds no voters.
LEMMA CertifiedStep ==
    ASSUME TypeOK, TypeOK', ElectionInv, ElectionInv', ReplicationInv,
           NEW n \in Server, Step(n), Others(n), Kinds(n),
           NEW es \in Seq(LogEntry), NEW i \in 1 .. Len(es), Certified(es, i)
    PROVE  Certified(es, i)'
<1>1. PICK Q \in Quorums : Secure(es, i, Q)
  BY DEF Certified
<1>2. Q \in SUBSET Server /\ Q # {}
  <2>1. \E v \in Server : v \in Q /\ v \in Q
    BY QuorumsShare
  <2> QED BY <2>1 DEF Quorums
<1>3. ASSUME NEW c \in Server, Lacks(c, es, i) PROVE FALSE
  <2>1. PICK V \in Quorums : \A v \in V : v \in Server /\ v \notin Q /\ currentTerm'[v] > es[i].term
    BY <1>1, <1>2, <1>3, ElectedWithout
  <2> QED BY <2>1, QuorumsShare
<1>4. Secure(es, i, Q)'
  BY <1>1, <1>2, <1>3, SecureStep
<1>5. Q \in Quorums'
  BY DEF Quorums, QuorumSize
<1> QED BY <1>4, <1>5 DEF Certified

\* A warrant stays one, also for later terms.
LEMMA WarrantStep ==
    ASSUME TypeOK, TypeOK', ElectionInv, ElectionInv', ReplicationInv,
           NEW n \in Server, Step(n), Others(n), Kinds(n),
           NEW es, NEW i, NEW c, NEW t \in Nat, NEW u \in Nat, t <= u, Warrant(es, i, c, t)
    PROVE  Warrant(es, i, c, u)'
<1>1. es \in Seq(LogEntry) /\ i \in 1 .. Len(es) /\ c <= i /\ es[i].term <= t /\ Certified(es, i)
  BY DEF Warrant
<1>2. Certified(es, i)' /\ es[i].term \in Int
  BY <1>1, CertifiedStep, EntryAt
<1>3. es[i].term <= u
  BY <1>1, <1>2
<1> QED BY <1>1, <1>2, <1>3 DEF Warrant

\* Whoever has a committed prefix, and is in the term that committed it or later,
\* keeps it.
LEMMA PrefixStays ==
    ASSUME TypeOK, TypeOK', ReplicationInv, NEW n \in Server, Others(n), Kinds(n),
           NEW q \in Server, NEW c \in Nat, NEW es, NEW i, Warrant(es, i, c, currentTerm[q]),
           Agree(Es(q), es, c)
    PROVE  Agree(Es(q)', es, c)
<1>1. /\ es \in Seq(LogEntry) /\ i \in 1 .. Len(es) /\ c <= i /\ es[i].term <= currentTerm[q]
      /\ Certified(es, i)
  BY DEF Warrant
<1>2. PICK Q \in Quorums : Secure(es, i, Q)
  BY <1>1 DEF Certified
<1>3. c \in 0 .. i /\ currentTerm[q] >= es[i].term
  BY <1>1, EntryAt, EntryFacts
<1> QED BY <1>1, <1>2, <1>3, SecureLogs

\* The entries of a request a follower has taken over are in its log.
LEMMA TakesEntry ==
    ASSUME TypeOK, TypeOK', NEW n \in Server, NEW m \in Appends, Takes(n, m),
           NEW j \in 1 .. Len(Es(n)'), m.prevLogIndex <= j, j <= m.prevLogIndex + Len(m.entries)
    PROVE  /\ j = m.prevLogIndex => Es(n)'[j].term = m.prevLogTerm
           /\ j > m.prevLogIndex => Es(n)'[j].term = m.entries[j - m.prevLogIndex].term
<1> DEFINE old == Es(n)
<1> DEFINE new == Es(n)'
<1> DEFINE prev == m.prevLogIndex
<1> DEFINE sent == m.entries
<1>1. Len(old) \in Nat /\ Len(new) \in Nat /\ prev \in Nat /\ Len(sent) \in Nat
  BY AppendFacts DEF TypeOK, LogTypeOK, LogRecord, Es
<1>2. Merged(old, new, prev, sent) /\ PrevMatches(old, prev, m.prevLogTerm)
  BY DEF Takes
<1>3. j \in 1 .. Len(new) /\ prev <= j /\ j <= prev + Len(sent)
  OBVIOUS
<1> HIDE DEF old, new, prev, sent
<1>4. PICK cut \in prev .. Len(old) :
        /\ \A k \in 1 .. cut : new[k] = old[k]
        /\ \A k \in cut + 1 .. Len(new) : k <= prev + Len(sent) /\ new[k] = sent[k - prev]
        /\ \A k \in prev + 1 .. cut : k <= prev + Len(sent) => old[k].term = sent[k - prev].term
  BY <1>2 DEF Merged
<1>5. CASE j > cut
  <2>1. j \in cut + 1 .. Len(new) /\ j > prev
    BY <1>1, <1>3, <1>4, <1>5
  <2>2. new[j] = sent[j - prev]
    BY <1>4, <2>1
  <2> QED BY <1>3, <2>1, <2>2 DEF new, prev, sent
<1>6. CASE j <= cut /\ j > prev
  <2>1. j \in prev + 1 .. cut /\ j \in 1 .. cut
    BY <1>1, <1>3, <1>4, <1>6
  <2>2. new[j] = old[j] /\ old[j].term = sent[j - prev].term
    BY <1>3, <1>4, <2>1
  <2> QED BY <1>6, <2>2 DEF new, prev, sent
<1>7. CASE j = prev
  <2>1. prev \in 1 .. cut /\ prev # 0 /\ ~ (j > prev)
    BY <1>1, <1>3, <1>4, <1>7
  <2>2. new[j] = old[j] /\ old[j].term = m.prevLogTerm
    BY <1>2, <1>4, <1>7, <2>1 DEF PrevMatches
  <2> QED BY <2>1, <2>2 DEF new, prev
<1>8. j > cut \/ (j <= cut /\ j > prev) \/ j = prev
  BY <1>1, <1>3, <1>4
<1> QED BY <1>5, <1>6, <1>7, <1>8

\* The voters a leader believes to hold its log up to i.
Matched(voters, match, i) == {v \in voters : match[v] >= i}

\* A majority holds entry i of log l, which is of the term.
HeldByMajority(l, term, voters, match, i) ==
    /\ i <= LastIndex(l) /\ TermAt(l, i) = term
    /\ Cardinality(Matched(voters, match, i)) + 1 >= (Cardinality(voters) + 1) \div 2 + 1

\* calculateCommitIndex finds an entry of the leader's term that a majority holds.
LEMMA CommitIndexMajority ==
    ASSUME NEW l \in LogRecord, NEW term \in Nat,
           NEW voters \in SUBSET Server, NEW match \in [Server -> Nat],
           NEW N \in Nat, N = CalculateCommitIndex(l, term, voters, match), N > 0
    PROVE  HeldByMajority(l, term, voters, match, N)
<1> DEFINE Held(i) == {v \in voters : match[v] >= i}
<1> DEFINE C == {i \in {LastIndex(l)} \cup {match[v] : v \in voters} :
            /\ i > 0
            /\ TermAt(l, i) = term
            /\ Cardinality(Held(i)) + (IF LastIndex(l) >= i THEN 1 ELSE 0)
                  >= (Cardinality(voters) + 1) \div 2 + 1}
<1>0. N \in Nat /\ N <= LastIndex(l)
  BY CalculateCommitIndexType
<1>1. N = IF C = {} THEN 0 ELSE CHOOSE i \in C : \A j \in C : j <= i
  BY DEF CalculateCommitIndex
<1>2. C \subseteq 0 .. LastIndex(l)
  <2>1. ASSUME NEW i \in C PROVE i \in 0 .. LastIndex(l)
    <3>1. TermAt(l, i) # NoTerm
      BY DEF NoTerm
    <3>2. i = l.snapIndex \/ HasEntry(l, i)
      BY <3>1 DEF TermAt
    <3>3. i \in Nat
      BY LogFacts
    <3> HIDE DEF C
    <3> QED BY <3>2, <3>3, LogFacts DEF HasEntry
  <2> QED BY <2>1
<1>3. N \in C => /\ TermAt(l, N) = term
                 /\ Cardinality(Held(N)) + (IF LastIndex(l) >= N THEN 1 ELSE 0)
                      >= (Cardinality(voters) + 1) \div 2 + 1
  OBVIOUS
<1> HIDE DEF C
<1>4. C # {}
  BY <1>0, <1>1
<1>5. IsFiniteSet(C) /\ C \in SUBSET Int
  <2>1. IsFiniteSet(0 .. LastIndex(l))
    BY FS_Interval, LogFacts
  <2>2. C \in SUBSET Int
    BY <1>2, LogFacts
  <2> QED BY <1>2, <2>1, <2>2, FS_Subset
<1>6. \E i \in C : \A j \in C : j <= i
  BY <1>4, <1>5, MaxExists
<1>7. N \in C
  BY <1>1, <1>4, <1>6
<1> QED BY <1>0, <1>3, <1>7 DEF HeldByMajority, Matched

\* The commitIndex a follower takes over from a request.
LEMMA TakesCommit ==
    ASSUME TypeOK, TypeOK', ElectionInv, ElectionInv', ReplicationInv, ReplicationInv',
           NEW n \in Server, Step(n), Others(n), Kinds(n),
           NEW m \in Appends, Takes(n, m), NEW es, NEW i, Warrant(es, i, m.leaderCommit, m.term),
           NEW last \in Nat, last = m.prevLogIndex + Len(m.entries), last <= Len(Es(n)'),
           NEW c \in Nat, c >= 1, c <= m.leaderCommit, c <= last
    PROVE  Agree(Es(n)', es, c)
<1>1. /\ es \in Seq(LogEntry) /\ i \in 1 .. Len(es) /\ m.leaderCommit <= i /\ es[i].term <= m.term
      /\ Certified(es, i)
  BY DEF Warrant
<1>0. /\ LogsAgree /\ LogsAgree' /\ Shape /\ Len(Es(n)') \in Nat /\ i \in Nat /\ i >= 1
      /\ Len(es) \in Nat /\ es[i].term \in Int /\ m.term \in Nat /\ m.prevLogIndex \in Nat
      /\ Len(m.entries) \in Nat /\ m.leaderCommit \in Nat /\ m.prevLogTerm \in Int
      /\ Len(Es(n)) \in Nat
  BY <1>1, LogsAgreeAlways, LogsAgreeAfter, TypesAfter, EntryAt, EntryFacts, AppendFacts
     DEF ReplicationInv
<1>2. PICK Q \in Quorums : Secure(es, i, Q)
  BY <1>1 DEF Certified
<1>3. PICK R \in Quorums : Secure(es, i, R)'
  <2>1. Certified(es, i)'
    BY <1>1, CertifiedStep
  <2>2. Quorums' = Quorums
    BY DEF Quorums, QuorumSize
  <2> QED BY <2>1, <2>2 DEF Certified
<1>4. PICK q \in Server : q \in Q
  BY QuorumsShare
<1>5. PICK r \in Server : r \in R
  BY QuorumsShare
<1>6. Agree(Es(q), es, i) /\ LinksPast(es, i)
  BY <1>2, <1>4 DEF Secure, Keeps
<1>7. Agree(Es(r)', es, i)
  BY <1>3, <1>5 DEF Secure, Keeps
<1>8. Fits(m, es, i)
  <2>1. Matchable(m)
    BY <1>0, TakenMatchable
  <2> QED BY <1>0, <1>1, <1>2, <2>1 DEF Secure
<1>9. CASE m.prevLogIndex > i
  <2>1. m.prevLogTerm >= es[i].term /\ EntriesFit(m, es, i)
    BY <1>8, <1>9 DEF Fits
  <2>2. m.prevLogIndex \in 1 .. Len(Es(n)) /\ Es(n)[m.prevLogIndex].term = m.prevLogTerm
    <3>1. ~ (m.prevLogIndex = 0)
      BY <1>0, <1>9
    <3> QED BY <3>1 DEF Takes, PrevMatches
  <2>3. m.prevLogIndex >= i /\ Es(n)[m.prevLogIndex].term >= es[i].term
    BY <1>0, <1>9, <2>1, <2>2
  <2>4. Agree(Es(n), es, i)
    BY <1>0, <1>1, <1>6, <2>2, <2>3, ChainReaches
  <2>5. Agree(Es(n)', es, i)
    BY <1>0, <2>1, <2>4, TakesKeeps
  <2>6. c <= i
    BY <1>0, <1>1
  <2> QED BY SMTT(30), <1>0, <2>5, <2>6 DEF Agree
<1>10. CASE m.prevLogIndex <= i
  <2>1. PICK e \in Nat : e = IF last <= i THEN last ELSE i
    BY <1>0
  <2>a. c <= i /\ m.prevLogIndex <= last
    BY SMTT(30), <1>0, <1>1
  <2>b. e <= i /\ e <= last /\ m.prevLogIndex <= e /\ c <= e
    BY SMTT(30), <1>0, <1>10, <2>1, <2>a
  <2>c. e >= 1 /\ e <= Len(Es(n)')
    BY SMTT(30), <1>0, <2>b
  <2>2. /\ e \in 1 .. i /\ e <= last /\ e \in 1 .. Len(Es(n)') /\ m.prevLogIndex <= e /\ c <= e
    BY <1>0, <2>b, <2>c
  <2>3. Es(n)'[e].term = es[e].term
    <3>1. CASE e = m.prevLogIndex
      <4>1. Es(n)'[e].term = m.prevLogTerm
        BY <2>2, <3>1, TakesEntry
      <4>2. m.prevLogTerm = es[m.prevLogIndex].term
        BY <1>8, <2>2, <3>1 DEF Fits
      <4> QED BY <3>1, <4>1, <4>2
    <3>2. CASE e > m.prevLogIndex
      <4>1. PICK k \in Nat : k = e - m.prevLogIndex
        BY <1>0, <3>2
      <4>2. Es(n)'[e].term = m.entries[k].term
        BY <2>2, <3>2, <4>1, TakesEntry
      <4>3. k \in 1 .. Len(m.entries) /\ m.prevLogIndex + k = e /\ m.prevLogIndex + k <= i
        <5>1. PICK p \in Nat : p = m.prevLogIndex
          BY <1>0
        <5>2. PICK l \in Nat : l = Len(m.entries)
          BY <1>0
        <5>3. e <= p + l /\ e <= i /\ e > p /\ k = e - p
          BY <1>0, <2>b, <3>2, <4>1, <5>1, <5>2
        <5>4. k \in 1 .. l /\ p + k = e /\ p + k <= i
          BY <1>0, <5>3
        <5> QED BY <5>1, <5>2, <5>4
      <4>4. m.entries[k] = es[e]
        BY <1>8, <4>3 DEF Fits, EntriesFit
      <4> QED BY <4>2, <4>4
    <3> QED BY <1>0, <2>2, <3>1, <3>2
  <2>4. e <= Len(Es(r)') /\ Es(r)'[e] = es[e] /\ \A j \in 1 .. e : Es(r)'[j] = es[j]
    BY SMTT(30), <1>0, <1>7, <2>2 DEF Agree
  <2>5. Agree(Es(n)', Es(r)', e)
    BY <1>0, <2>2, <2>3, <2>4 DEF LogsAgree
  <2>6. c \in 1 .. e /\ c <= Len(es)
    BY <1>0, <1>1, <2>2
  <2>7. c <= Len(Es(n)')
    BY <1>0, <2>2, <2>6
  <2> QED BY SMTT(20), <1>0, <2>4, <2>5, <2>6, <2>7 DEF Agree
<1> QED BY <1>0, <1>9, <1>10

\* The commitIndex a leader finds.
LEMMA ConfirmsCommit ==
    ASSUME TypeOK, TypeOK', ReplicationInv, SecureInv', NEW n \in Server, NEW m, Confirms(n, m),
           NEW c \in Nat, c = CalculateCommitIndex(log[n], currentTerm[n], Peers(n), matchIndex'[n]), c > 0,
           NEW fs \in Seq(LogEntry), fs = Es(n)', NEW t \in Nat, t = currentTerm'[n]
    PROVE  c \in 1 .. Len(fs) /\ Warrant(fs, c, c, t)'
<1>a. PICK match \in [Server -> Nat] : match = matchIndex'[n]
  BY DEF TypeOK, LeaderTypeOK
<1>b. PICK voters \in SUBSET Server : voters = Peers(n)
  BY DEF Peers
<1> DEFINE H == {v \in voters : match[v] >= c}
<1>0. /\ log[n] \in LogRecord /\ Whole(log[n]) /\ currentTerm[n] \in Nat /\ Es(n)' = Es(n)
      /\ Len(Es(n)) \in Nat /\ currentTerm'[n] = currentTerm[n] /\ role'[n] = "Leader"
  BY EntryFacts DEF TypeOK, LogTypeOK, ReplicationInv, Uncompacted, Confirms, Es
<1>1. /\ c <= LastIndex(log[n]) /\ TermAt(log[n], c) = currentTerm[n]
      /\ Cardinality(H) + 1 >= (Cardinality(voters) + 1) \div 2 + 1
  <2>1. PICK l \in LogRecord, T \in Nat : l = log[n] /\ T = currentTerm[n]
    BY <1>0
  <2>2. c = CalculateCommitIndex(l, T, voters, match)
    BY <1>a, <1>b, <2>1
  <2>3. HeldByMajority(l, T, voters, match, c)
    BY <2>2, CommitIndexMajority
  <2> QED BY <2>1, <2>3 DEF HeldByMajority, Matched
<1>2. c \in 1 .. Len(fs) /\ fs[c].term = t
  BY <1>0, <1>1, WholeFacts DEF Es
<1>3. H \cup {n} \in Quorums
  <2>a. voters = Server \ {n} /\ IsFiniteSet(Server) /\ Cardinality(Server) \in Nat
    BY <1>b, ServerAssumption, FS_CardinalityType DEF Peers
  <2>b. IsFiniteSet(Server \ {n}) /\ Cardinality(Server \ {n}) = Cardinality(Server) - 1
    BY <2>a, FS_RemoveElement
  <2>1. IsFiniteSet(voters) /\ Cardinality(voters) + 1 = Cardinality(Server)
    BY <2>a, <2>b
  <2>2. IsFiniteSet(H) /\ n \notin H /\ H \subseteq Server
    BY <2>a, <2>1, FS_Subset
  <2>3. Cardinality(H \cup {n}) = Cardinality(H) + 1 /\ Cardinality(H) \in Nat
    BY <2>2, FS_AddElement, FS_CardinalityType
  <2> HIDE DEF H
  <2> QED BY <1>1, <2>a, <2>1, <2>2, <2>3 DEF Quorums, QuorumSize
<1>4. PICK B \in SUBSET Server : B = Holders(n, c)'
  BY DEF Holders
<1>5. H \cup {n} \subseteq B
  BY <1>a, <1>4 DEF Holders, Acked
<1>6. ~ Blocked(n, c)'
  <2> SUFFICES ASSUME Blocked(n, c)' PROVE FALSE
    OBVIOUS
  <2>1. PICK V \in Quorums' : \A v \in V : currentTerm'[v] > currentTerm'[n] /\ ~ Acked(n, v, c)'
    BY DEF Blocked
  <2>2. V \in Quorums
    BY DEF Quorums, QuorumSize
  <2>3. PICK v \in Server : v \in V /\ v \in H \cup {n}
    BY <1>3, <2>2, QuorumsShare
  <2>4. v # n /\ ~ Acked(n, v, c)'
    BY <1>0, <2>1, <2>3
  <2>5. matchIndex'[n][v] >= c
    BY <1>a, <2>3, <2>4
  <2> QED BY <2>4, <2>5 DEF Acked
<1>7. Secure(fs, c, B)'
  <2>1. Secure(Es(n), c, Holders(n, c))'
    BY <1>0, <1>2, <1>6 DEF SecureInv
  <2> QED BY <1>4, <2>1 DEF Secure, LinksPast, Fits, EntriesFit, Keeps
<1>8. Certified(fs, c)'
  <2>1. PICK Q \in Quorums : Q = H \cup {n}
    BY <1>3
  <2>2. Secure(fs, c, Q)'
    BY <1>5, <1>7, <2>1 DEF Secure
  <2>3. Q \in Quorums'
    BY DEF Quorums, QuorumSize
  <2> QED BY <2>2, <2>3 DEF Certified
<1> QED BY <1>2, <1>8 DEF Warrant

\* A warrant after a step, for a node's own commitIndex and term.
LEMMA WarrantIs ==
    ASSUME NEW es, NEW i, NEW c, NEW t, Warrant(es, i, c, t)', NEW q,
           c = commitIndex'[q], t = currentTerm'[q], Agree(Es(q)', es, c)
    PROVE  (\E fs, j : Warrant(fs, j, commitIndex[q], currentTerm[q]) /\ Agree(Es(q), fs, commitIndex[q]))'
<1>1. Warrant(es, i, commitIndex[q], currentTerm[q])' /\ Agree(Es(q)', es, commitIndex'[q])
  BY DEF Warrant
<1> QED BY <1>1

\* What a node takes for committed after a step.
LEMMA NodeCommitStep ==
    ASSUME TypeOK, TypeOK', ElectionInv, ElectionInv', ReplicationInv, ReplicationInv',
           SecureInv', CommitInv, NEW n \in Server, Step(n), Others(n), Kinds(n),
           NEW q \in Server, commitIndex'[q] >= 1
    PROVE  (\E es, i : Warrant(es, i, commitIndex[q], currentTerm[q]) /\ Agree(Es(q), es, commitIndex[q]))'
<1>1. PICK c \in Nat, t \in Nat : c = commitIndex'[q] /\ t = currentTerm'[q]
  BY TypesAfter
<1>0. PICK u \in Nat : u = currentTerm[q] /\ u <= t
  BY <1>1, EntryFacts, RoleFacts
<1>2. CASE commitIndex'[q] = commitIndex[q]
  <2>1. PICK es, i : Warrant(es, i, commitIndex[q], currentTerm[q]) /\ Agree(Es(q), es, commitIndex[q])
    BY <1>2 DEF CommitInv
  <2>2. Warrant(es, i, c, u) /\ Agree(Es(q), es, c)
    BY <1>0, <1>1, <1>2, <2>1
  <2>3. Warrant(es, i, c, t)'
    BY <1>0, <2>2, WarrantStep
  <2>4. Agree(Es(q)', es, c)
    BY <1>0, <2>2, PrefixStays
  <2> QED BY <1>1, <2>3, <2>4, WarrantIs
<1>3. ASSUME q = n, NEW m \in Appends, Takes(n, m), c <= m.leaderCommit,
             c <= m.prevLogIndex + Len(m.entries), m.prevLogIndex + Len(m.entries) <= Len(Es(n)')
      PROVE  (\E es, i : Warrant(es, i, commitIndex[q], currentTerm[q]) /\ Agree(Es(q), es, commitIndex[q]))'
  <2>0. PICK last \in Nat : last = m.prevLogIndex + Len(m.entries)
    BY AppendFacts
  <2>1. m.leaderCommit \in Nat /\ m.term \in Nat /\ m.leaderCommit >= 1 /\ c >= 1 /\ t = m.term
    BY <1>1, <1>3, AppendFacts DEF Takes
  <2>2. PICK es, i : Warrant(es, i, m.leaderCommit, m.term)
    BY <2>1 DEF CommitInv
  <2>3. Agree(Es(n)', es, c)
    BY <1>3, <2>0, <2>1, <2>2, TakesCommit
  <2>4. Warrant(es, i, m.leaderCommit, t)'
    BY <2>1, <2>2, WarrantStep
  <2>5. Warrant(es, i, c, t)'
    <3>1. i \in 1 .. Len(es) /\ es \in Seq(LogEntry) /\ m.leaderCommit <= i
      BY <2>4 DEF Warrant
    <3>2. c <= i
      BY <1>3, <2>1, <3>1, EntryAt
    <3> QED BY <2>4, <3>2 DEF Warrant
  <2> QED BY <1>1, <1>3, <2>3, <2>5, WarrantIs
<1>4. ASSUME q = n, NEW m \in Acks, Confirms(n, m), commitIndex'[n] > 0,
             commitIndex'[n] = CalculateCommitIndex(log[n], currentTerm[n], Peers(n), matchIndex'[n])
      PROVE  (\E es, i : Warrant(es, i, commitIndex[q], currentTerm[q]) /\ Agree(Es(q), es, commitIndex[q]))'
  <2>1. PICK fs \in Seq(LogEntry) : fs = Es(n)'
    BY TypesAfter
  <2>2. c = CalculateCommitIndex(log[n], currentTerm[n], Peers(n), matchIndex'[n]) /\ c > 0
    BY <1>1, <1>4
  <2>3. c \in 1 .. Len(fs) /\ Warrant(fs, c, c, t)'
    BY <1>1, <1>4, <2>1, <2>2, ConfirmsCommit
  <2>4. Agree(Es(n)', fs, c)
    BY <2>1, <2>3 DEF Agree
  <2> QED BY <1>1, <1>4, <2>3, <2>4, WarrantIs
<1>5. CASE q # n
  BY <1>2, <1>5 DEF Others
<1>6. CASE q = n /\ (Still(n) \/ Candidacy(n) \/ Grows(n) \/ Sends(n))
  <2>1. commitIndex'[n] \in {commitIndex[n], 0}
    BY <1>6 DEF Still, Candidacy, Grows, Sends
  <2> QED BY <1>1, <1>2, <1>6, <2>1
<1>7. ASSUME q = n, NEW m \in Appends, Takes(n, m)
      PROVE  (\E es, i : Warrant(es, i, commitIndex[q], currentTerm[q]) /\ Agree(Es(q), es, commitIndex[q]))'
  <2>1. \/ commitIndex'[n] \in {commitIndex[n], 0}
        \/ /\ commitIndex'[n] <= m.leaderCommit
           /\ commitIndex'[n] <= m.prevLogIndex + Len(m.entries)
           /\ m.prevLogIndex + Len(m.entries) <= Len(Es(n)')
    BY <1>7 DEF Takes
  <2> QED BY <1>1, <1>2, <1>3, <1>7, <2>1
<1>8. ASSUME q = n, NEW m \in Acks, Confirms(n, m)
      PROVE  (\E es, i : Warrant(es, i, commitIndex[q], currentTerm[q]) /\ Agree(Es(q), es, commitIndex[q]))'
  BY <1>2, <1>4, <1>8 DEF Confirms
<1> QED BY <1>5, <1>6, <1>7, <1>8 DEF Kinds

\* Everything taken for committed stays so, and what a request says is committed is.
LEMMA CommitInvStep ==
    ASSUME TypeOK, TypeOK', ElectionInv, ElectionInv', ReplicationInv, ReplicationInv',
           SecureInv', CommitInv, NEW n \in Server, Step(n), Others(n), Kinds(n)
    PROVE  CommitInv'
<1>1. ASSUME NEW q \in Server, commitIndex'[q] >= 1
      PROVE  (\E es, i : Warrant(es, i, commitIndex[q], currentTerm[q])
                         /\ Agree(Es(q), es, commitIndex[q]))'
  BY <1>1, NodeCommitStep
<1>2. ASSUME NEW m \in Appends', m.leaderCommit >= 1
      PROVE  (\E es, i : Warrant(es, i, m.leaderCommit, m.term))'
  <2>1. m.term \in Nat /\ m.leaderCommit \in Nat
    BY AppendFactsAfter
  <2>2. \E es, i : Warrant(es, i, m.leaderCommit, m.term)
    <3>1. CASE \E k \in Appends : CopyOf(m, k)
      BY <1>2, <3>1 DEF CommitInv, CopyOf
    <3>2. CASE TakenFrom(m, n)
      BY <1>2, <3>2 DEF CommitInv, TakenFrom
    <3> QED BY <3>1, <3>2, MessageChange
  <2>3. PICK es, i : Warrant(es, i, m.leaderCommit, m.term)
    BY <2>2
  <2>4. Warrant(es, i, m.leaderCommit, m.term)'
    BY <2>1, <2>3, WarrantStep
  <2> QED BY <2>4
<1> QED BY <1>1, <1>2 DEF CommitInv

\* Nothing is committed at first.
LEMMA CommitInit == Init => CommitInv
<1> SUFFICES ASSUME Init PROVE CommitInv
  OBVIOUS
<1>1. msgs = {} /\ \A n \in Server : commitIndex[n] = 0
  BY DEF Init, Started
<1> QED BY <1>1 DEF CommitInv, Appends

\* A step of no node changes nothing.
LEMMA CommitStutter == CommitInv /\ UNCHANGED vars => CommitInv'
<1> SUFFICES ASSUME CommitInv, UNCHANGED vars PROVE CommitInv'
  OBVIOUS
<1>1. ASSUME NEW es, NEW i, NEW c, NEW t, Warrant(es, i, c, t) PROVE Warrant(es, i, c, t)'
  <2>1. PICK Q \in Quorums : Secure(es, i, Q)
    BY <1>1 DEF Warrant, Certified
  <2>2. Secure(es, i, Q)' /\ Q \in Quorums'
    BY <2>1, SecureSame DEF Quorums, QuorumSize
  <2> QED BY <1>1, <2>2 DEF Warrant, Certified
<1>2. ASSUME NEW q \in Server, commitIndex'[q] >= 1
      PROVE  (\E es, i : Warrant(es, i, commitIndex[q], currentTerm[q])
                         /\ Agree(Es(q), es, commitIndex[q]))'
  <2>1. commitIndex'[q] = commitIndex[q] /\ currentTerm'[q] = currentTerm[q] /\ Es(q)' = Es(q)
    BY SecureFrame
  <2>2. PICK es, i : Warrant(es, i, commitIndex[q], currentTerm[q]) /\ Agree(Es(q), es, commitIndex[q])
    BY <1>2, <2>1 DEF CommitInv
  <2>3. PICK c, t : c = commitIndex[q] /\ t = currentTerm[q]
    OBVIOUS
  <2>4. Warrant(es, i, c, t)'
    BY <1>1, <2>2, <2>3
  <2>5. Agree(Es(q)', es, c)
    BY <2>1, <2>2, <2>3
  <2> QED BY <2>1, <2>3, <2>4, <2>5, WarrantIs
<1>3. ASSUME NEW m \in Appends', m.leaderCommit >= 1
      PROVE  (\E es, i : Warrant(es, i, m.leaderCommit, m.term))'
  BY <1>1, <1>3, SecureFrame DEF CommitInv
<1> QED BY <1>2, <1>3 DEF CommitInv

\* Without snapshots, everything a node or a request takes for committed is kept
\* by a quorum, and the node holds it.
THEOREM CommitHolds == Spec /\ []NoSnapshots => []CommitInv
<1>1. Init => CommitInv
  BY CommitInit
<1>2. /\ TypeOK /\ TypeOK' /\ ElectionInv /\ ElectionInv' /\ NoSnapshots
      /\ ReplicationInv /\ ReplicationInv' /\ SecureInv' /\ CommitInv /\ [Next]_vars
      => CommitInv'
  BY ReplicationNext, CommitInvStep, CommitStutter DEF Next
<1> QED BY <1>1, <1>2, TypeCorrect, VotesStand, ReplicationHolds, SecureHolds, PTL DEF Spec

-----------------------------------------------------------------------------
(* What follows for leaders, logs and applications. *)

\* Two nodes have the same of what both take for committed.
LEMMA CommittedAgree ==
    ASSUME TypeOK, CommitInv, NEW a \in Server, NEW b \in Server,
           NEW j \in Nat, j >= 1, j <= commitIndex[a], j <= commitIndex[b]
    PROVE  j <= Len(Es(a)) /\ j <= Len(Es(b)) /\ Es(a)[j] = Es(b)[j]
<1>0. commitIndex[a] \in Nat /\ commitIndex[b] \in Nat
  BY DEF TypeOK, ApplyTypeOK
<1>1. PICK es, i : Warrant(es, i, commitIndex[a], currentTerm[a]) /\ Agree(Es(a), es, commitIndex[a])
  BY <1>0 DEF CommitInv
<1>2. PICK fs, k : Warrant(fs, k, commitIndex[b], currentTerm[b]) /\ Agree(Es(b), fs, commitIndex[b])
  BY <1>0 DEF CommitInv
<1>3. /\ es \in Seq(LogEntry) /\ i \in 1 .. Len(es) /\ commitIndex[a] <= i
      /\ fs \in Seq(LogEntry) /\ k \in 1 .. Len(fs) /\ commitIndex[b] <= k
  BY <1>1, <1>2 DEF Warrant
<1>4. PICK Q \in Quorums, R \in Quorums : Secure(es, i, Q) /\ Secure(fs, k, R)
  BY <1>1, <1>2 DEF Warrant, Certified
<1>5. PICK q \in Server : q \in Q /\ q \in R
  BY QuorumsShare
<1>6. Agree(Es(q), es, i) /\ Agree(Es(q), fs, k)
  BY <1>4, <1>5 DEF Secure, Keeps
<1>7. j \in 1 .. i /\ j \in 1 .. k /\ j \in 1 .. commitIndex[a] /\ j \in 1 .. commitIndex[b]
  BY <1>0, <1>3, EntryAt
<1>8. es[j] = Es(q)[j] /\ fs[j] = Es(q)[j]
  BY <1>6, <1>7 DEF Agree
<1>9. commitIndex[a] <= Len(Es(a)) /\ commitIndex[b] <= Len(Es(b))
      /\ Es(a)[j] = es[j] /\ Es(b)[j] = fs[j]
  BY <1>1, <1>2, <1>7 DEF Agree
<1> QED BY <1>0, <1>8, <1>9, EntryFacts

\* A leader has what anybody of its term or before takes for committed.
LEMMA LeaderHasCommitted ==
    ASSUME TypeOK, CommitInv, NEW a \in Server, NEW b \in Server,
           role[b] = "Leader", currentTerm[b] >= currentTerm[a], commitIndex[a] >= 1
    PROVE  Agree(Es(a), Es(b), commitIndex[a])
<1>0. commitIndex[a] \in Nat /\ currentTerm[a] \in Nat /\ currentTerm[b] \in Nat
  BY EntryFacts DEF TypeOK, ApplyTypeOK
<1>1. PICK es, i : Warrant(es, i, commitIndex[a], currentTerm[a]) /\ Agree(Es(a), es, commitIndex[a])
  BY DEF CommitInv
<1>2. es \in Seq(LogEntry) /\ i \in 1 .. Len(es) /\ commitIndex[a] <= i /\ es[i].term <= currentTerm[a]
  BY <1>1 DEF Warrant
<1>3. PICK Q \in Quorums : Secure(es, i, Q)
  BY <1>1 DEF Warrant, Certified
<1>4. currentTerm[b] >= es[i].term
  BY <1>0, <1>2, EntryAt
<1>5. Agree(Es(b), es, i)
  BY <1>3, <1>4 DEF Secure
<1>6. commitIndex[a] <= Len(Es(b)) /\ \A j \in 1 .. commitIndex[a] : j \in 1 .. i
  BY <1>0, <1>2, <1>5, EntryAt, EntryFacts DEF Agree
<1> QED BY <1>1, <1>5, <1>6 DEF Agree

\* Without snapshots, every leader has all that nodes of its term or before know
\* to be committed, whoever voted for it with whatever log.
THEOREM LeadersAreComplete == Spec /\ []NoSnapshots => []LeaderCompleteness
<1>1. TypeOK /\ ReplicationInv /\ CommitInv => LeaderCompleteness
  <2> SUFFICES ASSUME TypeOK, ReplicationInv, CommitInv, NEW a \in Server, NEW b \in Server,
                      role[b] = "Leader", currentTerm[b] >= currentTerm[a]
               PROVE  /\ LastIndex(log[b]) >= commitIndex[a]
                      /\ SamePrefix(log[a], log[b], commitIndex[a])
    BY DEF LeaderCompleteness
  <2>1. /\ log[a] \in LogRecord /\ log[b] \in LogRecord /\ Whole(log[a]) /\ Whole(log[b])
        /\ Len(Es(a)) \in Nat /\ Len(Es(b)) \in Nat /\ commitIndex[a] \in Nat
    BY EntryFacts DEF ReplicationInv, Uncompacted, TypeOK, LogTypeOK, ApplyTypeOK
  <2>2. PICK c \in Nat : c = commitIndex[a]
    BY <2>1
  <2>3. LastIndex(log[b]) = Len(Es(b))
    BY <2>1, WholeFacts DEF Es
  <2>4. CASE c = 0
    BY <2>1, <2>2, <2>3, <2>4 DEF SamePrefix
  <2>5. CASE c >= 1
    <3>0. commitIndex[a] >= 1 /\ role[b] = "Leader" /\ currentTerm[b] >= currentTerm[a]
      BY <2>2, <2>5
    <3>1. Agree(Es(a), Es(b), c)
      BY <2>2, <3>0, LeaderHasCommitted
    <3>2. c <= Len(Es(b)) /\ \A j \in 1 .. c : log[a].entries[j] = log[b].entries[j]
      BY <3>1 DEF Agree, Es
    <3>3. SamePrefix(log[a], log[b], c)
      BY SMTT(20), <2>1, <3>2, WholePrefix
    <3> QED BY <2>2, <2>3, <3>2, <3>3
  <2> QED BY <2>2, <2>4, <2>5
<1> QED BY <1>1, TypeCorrect, ReplicationHolds, CommitHolds, PTL

\* A node keeps what it knows to be committed.
LEMMA KeepsCommitted ==
    ASSUME TypeOK, TypeOK', ReplicationInv, CommitInv, NEW n \in Server, Others(n), Kinds(n),
           NEW q \in Server, NEW j \in Nat, j >= 1, j <= commitIndex[q]
    PROVE  j <= Len(Es(q)) /\ j <= Len(Es(q)') /\ Es(q)'[j] = Es(q)[j]
<1>1. PICK c \in Nat, t \in Nat : c = commitIndex[q] /\ t = currentTerm[q]
  BY EntryFacts DEF TypeOK, ApplyTypeOK
<1>2. PICK es, i : Warrant(es, i, c, currentTerm[q]) /\ Agree(Es(q), es, c)
  BY <1>1 DEF CommitInv
<1>3. Agree(Es(q)', es, c)
  BY <1>2, PrefixStays
<1>4. j \in 1 .. c
  BY <1>1
<1> QED BY <1>2, <1>3, <1>4, EntryFacts, TypesAfter DEF Agree

\* The same, as CommittedIsKept says it.
LEMMA KeepsCommittedEntry ==
    ASSUME TypeOK, TypeOK', ReplicationInv, ReplicationInv', CommitInv,
           NEW n \in Server, Others(n), Kinds(n), NEW q \in Server,
           NEW i \in log[q].snapIndex + 1 .. LesserOf(commitIndex[q], LastIndex(log[q]))
    PROVE  HasEntry(log'[q], i) /\ Entry(log'[q], i) = Entry(log[q], i)
<1>1. PICK l \in LogRecord : l = log[q] /\ Whole(l)
  BY DEF TypeOK, LogTypeOK, ReplicationInv, Uncompacted
<1>2. log'[q] \in LogRecord /\ Whole(log[q])'
  BY DEF TypeOK, LogTypeOK, ReplicationInv, Uncompacted
<1>3. PICK k \in LogRecord : k = log'[q] /\ Whole(k)
  BY <1>2 DEF Whole
<1>4. l.entries = Es(q) /\ k.entries = Es(q)'
  BY <1>1, <1>3 DEF Es
<1>5. i \in Nat /\ i >= 1 /\ i <= commitIndex[q]
  <2>1. log[q].snapIndex = 0 /\ LastIndex(log[q]) \in Nat /\ commitIndex[q] \in Nat
    BY <1>1, LogFacts DEF Whole, TypeOK, ApplyTypeOK
  <2> QED BY <2>1 DEF LesserOf
<1>6. i <= Len(Es(q)) /\ i <= Len(Es(q)') /\ Es(q)'[i] = Es(q)[i]
  BY <1>5, KeepsCommitted
<1>7. HasEntry(k, i) /\ Entry(k, i) = k.entries[i] /\ Entry(l, i) = l.entries[i]
  BY <1>1, <1>3, <1>4, <1>5, <1>6, WholeFacts, TypesAfter
<1> QED BY <1>1, <1>3, <1>4, <1>6, <1>7

\* Without snapshots, a node never gives up an entry it knows to be committed:
\* no AppendEntries truncates one, and no crash loses it.
THEOREM CommittedEntriesStay == Spec /\ []NoSnapshots => CommittedIsKept
<1>1. /\ TypeOK /\ TypeOK' /\ ElectionInv /\ ElectionInv' /\ NoSnapshots
      /\ ReplicationInv /\ ReplicationInv' /\ CommitInv /\ [Next]_vars
      => [\A n \in Server :
            \A i \in log[n].snapIndex + 1 .. LesserOf(commitIndex[n], LastIndex(log[n])) :
               \/ i <= log'[n].snapIndex
               \/ HasEntry(log'[n], i) /\ Entry(log'[n], i) = Entry(log[n], i)]_vars
  <2> SUFFICES ASSUME TypeOK, TypeOK', ElectionInv, ElectionInv', NoSnapshots,
                      ReplicationInv, ReplicationInv', CommitInv, NEW n \in Server, Step(n),
                      NEW q \in Server,
                      NEW i \in log[q].snapIndex + 1 .. LesserOf(commitIndex[q], LastIndex(log[q]))
               PROVE  HasEntry(log'[q], i) /\ Entry(log'[q], i) = Entry(log[q], i)
    BY DEF Next
  <2>1. Others(n) /\ Kinds(n)
    BY ReplicationNext
  <2> QED BY <2>1, KeepsCommittedEntry
<1> QED BY <1>1, TypeCorrect, VotesStand, ReplicationHolds, CommitHolds, PTL DEF Spec, CommittedIsKept

-----------------------------------------------------------------------------
(* What applications have executed. *)

\* What the application reflects after command cmd.
Executed(h, cmd) == IF cmd = NoOp THEN h ELSE Append(h, cmd)

\* n's application executes the next entry of its log.
Applies(n) ==
    /\ UNCHANGED log /\ commitIndex'[n] = commitIndex[n]
    /\ lastApplied'[n] = lastApplied[n] + 1 /\ lastApplied'[n] <= commitIndex[n]
    /\ app'[n] = Executed(app[n], Es(n)[lastApplied[n] + 1].cmd)

\* n's application stays what it is, starts anew, or executes one entry.
LEMMA AppStep ==
    ASSUME TypeOK, TypeOK', Uncompacted, NEW n \in Server, Step(n)
    PROVE  \/ lastApplied'[n] = lastApplied[n] /\ app'[n] = app[n] /\ commitIndex'[n] >= commitIndex[n]
           \/ lastApplied'[n] = 0 /\ app'[n] = <<>>
           \/ Applies(n)
<1>0. /\ commitIndex \in [Server -> Nat] /\ lastApplied \in [Server -> Nat]
      /\ app \in [Server -> Seq(Command)] /\ commitIndex'[n] \in Nat /\ restarts \in Nat
      /\ log[n] \in LogRecord /\ Whole(log[n]) /\ snapshot[n] = NoSnapshot
  BY DEF TypeOK, ApplyTypeOK, LogTypeOK, Uncompacted
<1>1. CASE UNCHANGED <<lastApplied, app>> /\ restarts' = restarts
  <2>1. commitIndex'[n] >= commitIndex[n]
    BY <1>1, CommitStep DEF Next
  <2> QED BY <1>1, <2>1
<1>2. ASSUME NEW l, Reboot(n, l) PROVE lastApplied'[n] = 0 /\ app'[n] = <<>>
  BY <1>0, <1>2 DEF Reboot, NoSnapshot
<1>3. CASE ApplyNext(n)
  <2> DEFINE next == lastApplied[n] + 1
  <2>1. ~ (next <= log[n].snapIndex)
    BY <1>0 DEF Whole
  <2>2. /\ HasEntry(log[n], next)
        /\ app' = [app EXCEPT ![n] = IF Entry(log[n], next).cmd = NoOp THEN app[n]
                                     ELSE Append(app[n], Entry(log[n], next).cmd)]
        /\ lastApplied' = [lastApplied EXCEPT ![n] = next]
        /\ lastApplied[n] < commitIndex[n] /\ UNCHANGED <<log, commitIndex>>
    BY <1>3, <2>1 DEF ApplyNext, logVars
  <2>3. Entry(log[n], next) = Es(n)[next]
    BY <1>0, WholeFacts DEF Es
  <2> HIDE DEF next
  <2>4. app'[n] = Executed(app[n], Es(n)[next].cmd)
    BY <1>0, <2>2, <2>3 DEF Executed
  <2> QED BY <1>0, <2>2, <2>4 DEF Applies, next
<1>4. CASE \/ StartPreVote(n) \/ StartElection(n)
           \/ \E d \in Command : SubmitCommand(n, d)
           \/ \E p \in Peers(n) : SendAppendEntries(n, p) \/ SendSnapshot(n, p)
           \/ SaveSnapshot(n) \/ CompactLog(n)
  BY <1>1, <1>4 DEF StartPreVote, StartElection, SubmitCommand, SendAppendEntries, SendSnapshot,
     SaveSnapshot, CompactLog, applyVars
<1>5. CASE \E m \in msgs : \/ HandlePreVote(n, m) \/ HandlePreVoteResponse(n, m)
                           \/ HandleRequestVote(n, m) \/ HandleRequestVoteResponse(n, m)
                           \/ HandleAppendEntries(n, m) \/ HandleAppendEntriesResponse(n, m)
                           \/ ReceiveSnapshot(n, m) \/ HandleInstallSnapshotResponse(n, m)
  BY <1>1, <1>5 DEF HandlePreVote, HandlePreVoteResponse, HandleRequestVote,
     HandleRequestVoteResponse, HandleAppendEntries, HandleAppendEntriesResponse,
     ReceiveSnapshot, HandleInstallSnapshotResponse, applyVars
<1>6. CASE Restart(n) \/ \E m \in msgs : CrashAfterTruncate(n, m)
  BY <1>2, <1>6 DEF Restart, CrashAfterTruncate
<1>7. ~ InstallSnapshot(n)
  BY DEF InstallSnapshot, Unlocked, Uncompacted
<1> QED BY <1>3, <1>4, <1>5, <1>6, <1>7 DEF Step, Receive

\* H[k] is what an application reflects when it has applied k entries.
History(H) ==
    /\ H \in [Nat -> Seq(Command)] /\ H[0] = <<>>
    /\ \A n \in Server :
          /\ lastApplied[n] <= commitIndex[n]
          /\ app[n] = H[lastApplied[n]]
          /\ \A k \in 1 .. lastApplied[n] : H[k] = Executed(H[k - 1], Es(n)[k].cmd)

HistoryInv == \E H : History(H)

\* Nodes that execute nothing leave the history what it is.
LEMMA HistorySame ==
    ASSUME TypeOK, TypeOK', ReplicationInv, CommitInv, NEW n \in Server, Step(n), Others(n), Kinds(n),
           NEW H, History(H),
           \/ lastApplied'[n] = lastApplied[n] /\ app'[n] = app[n] /\ commitIndex'[n] >= commitIndex[n]
           \/ lastApplied'[n] = 0 /\ app'[n] = <<>>
    PROVE  History(H)'
<1>0. \A q \in Server : /\ lastApplied[q] \in Nat /\ commitIndex[q] \in Nat
                        /\ lastApplied'[q] \in Nat /\ commitIndex'[q] \in Nat
  BY TypesAfter DEF TypeOK, ApplyTypeOK
<1> SUFFICES ASSUME NEW q \in Server
             PROVE  /\ lastApplied'[q] <= commitIndex'[q]
                    /\ app'[q] = H[lastApplied'[q]]
                    /\ \A k \in 1 .. lastApplied'[q] : H[k] = Executed(H[k - 1], Es(q)'[k].cmd)
  BY DEF History
<1>1. CASE q = n /\ lastApplied'[n] = 0 /\ app'[n] = <<>>
  BY <1>0, <1>1 DEF History
<1>2. CASE lastApplied'[q] = lastApplied[q] /\ app'[q] = app[q] /\ commitIndex'[q] >= commitIndex[q]
  <2>1. lastApplied[q] <= commitIndex[q] /\ app[q] = H[lastApplied[q]]
        /\ \A k \in 1 .. lastApplied[q] : H[k] = Executed(H[k - 1], Es(q)[k].cmd)
    BY DEF History
  <2>2. \A k \in 1 .. lastApplied[q] : Es(q)'[k] = Es(q)[k]
    <3> SUFFICES ASSUME NEW k \in 1 .. lastApplied[q] PROVE Es(q)'[k] = Es(q)[k]
      OBVIOUS
    <3>1. k \in Nat /\ k >= 1 /\ k <= commitIndex[q]
      BY <1>0, <2>1
    <3> QED BY <3>1, KeepsCommitted
  <2> QED BY <1>0, <1>2, <2>1, <2>2
<1> QED BY <1>0, <1>1, <1>2 DEF Others

\* A node that executes an entry goes along, or ahead of everybody.
LEMMA HistoryApplies ==
    ASSUME TypeOK, TypeOK', CommitInv, NEW n \in Server, Others(n), Applies(n), NEW H, History(H)
    PROVE  HistoryInv'
<1> DEFINE k == lastApplied[n] + 1
<1> DEFINE cmd == Es(n)[k].cmd
<1>0. \A q \in Server : /\ lastApplied[q] \in Nat /\ commitIndex[q] \in Nat /\ app[q] \in Seq(Command)
  BY DEF TypeOK, ApplyTypeOK
<1>1. /\ H \in [Nat -> Seq(Command)] /\ H[0] = <<>>
      /\ \A q \in Server :
            /\ lastApplied[q] <= commitIndex[q]
            /\ app[q] = H[lastApplied[q]]
            /\ \A j \in 1 .. lastApplied[q] : H[j] = Executed(H[j - 1], Es(q)[j].cmd)
  BY DEF History
<1>2. /\ lastApplied'[n] = k /\ k <= commitIndex[n] /\ commitIndex'[n] = commitIndex[n]
      /\ app'[n] = Executed(app[n], cmd) /\ app[n] = H[k - 1] /\ k \in Nat /\ k >= 1
  <2>1. lastApplied'[n] = k /\ k <= commitIndex[n] /\ commitIndex'[n] = commitIndex[n]
        /\ app'[n] = Executed(app[n], cmd)
    BY DEF Applies
  <2>2. k \in Nat /\ k >= 1 /\ k - 1 = lastApplied[n]
    BY <1>0
  <2>3. app[n] = H[k - 1]
    BY <1>1, <2>2
  <2> QED BY <2>1, <2>2, <2>3
<1>3. \A q \in Server : q # n => /\ lastApplied'[q] = lastApplied[q] /\ app'[q] = app[q]
                                 /\ commitIndex'[q] = commitIndex[q]
  BY DEF Others
<1>4. \A q : Es(q)' = Es(q)
  BY DEF Applies, Es
<1>5. \A q \in Server : k <= lastApplied[q] => Es(q)[k] = Es(n)[k]
  <2> SUFFICES ASSUME NEW q \in Server, k <= lastApplied[q] PROVE Es(q)[k] = Es(n)[k]
    OBVIOUS
  <2> HIDE DEF k
  <2>1. lastApplied[q] <= commitIndex[q] /\ lastApplied[q] \in Nat /\ commitIndex[q] \in Nat
    BY <1>0, <1>1
  <2>2. k <= commitIndex[q]
    BY <1>2, <2>1
  <2> QED BY <1>2, <2>2, CommittedAgree
<1>6. k <= Len(Es(n)) /\ Es(n)[k] \in LogEntry
  <2>1. k <= Len(Es(n))
    BY <1>2, CommittedAgree
  <2> QED BY <1>2, <2>1, EntryFacts
<1>7. \A j \in 1 .. k : j < k => j \in 1 .. lastApplied[n]
  BY <1>0
<1>8. n \in Server /\ k - 1 = lastApplied[n]
  BY <1>0
<1> HIDE DEF k, cmd
<1>9. CASE \E q \in Server : k <= lastApplied[q]
  <2>1. PICK q \in Server : k <= lastApplied[q]
    BY <1>9
  <2>2. H[k] = Executed(H[k - 1], cmd)
    <3>1. k \in 1 .. lastApplied[q]
      BY <1>0, <1>2, <2>1
    <3>2. Es(q)[k] = Es(n)[k]
      BY <1>5, <2>1
    <3>3. H[k] = Executed(H[k - 1], Es(q)[k].cmd)
      BY <1>1, <3>1
    <3> QED BY <3>2, <3>3 DEF cmd
  <2>3. ASSUME NEW p \in Server
        PROVE  /\ lastApplied'[p] <= commitIndex'[p]
               /\ app'[p] = H[lastApplied'[p]]
               /\ \A j \in 1 .. lastApplied'[p] : H[j] = Executed(H[j - 1], Es(p)'[j].cmd)
    <3>1. CASE p # n
      BY <1>1, <1>3, <1>4, <3>1
    <3>2. CASE p = n
      <4>1. \A j \in 1 .. k : H[j] = Executed(H[j - 1], Es(n)[j].cmd)
        <5> SUFFICES ASSUME NEW j \in 1 .. k PROVE H[j] = Executed(H[j - 1], Es(n)[j].cmd)
          OBVIOUS
        <5>1. CASE j = k
          BY <2>2, <5>1 DEF cmd
        <5>2. CASE j < k
          BY <1>1, <1>7, <5>2
        <5> QED BY <1>2, <5>1, <5>2
      <4> QED BY <1>2, <1>4, <2>2, <3>2, <4>1
    <3> QED BY <3>1, <3>2
  <2>4. History(H)'
    BY <1>1, <2>3 DEF History
  <2> QED BY <2>4 DEF HistoryInv
<1>10. CASE ~ \E q \in Server : k <= lastApplied[q]
  <2>0. PICK new \in Seq(Command) : new = Executed(H[k - 1], cmd)
    <3>1. H[k - 1] \in Seq(Command)
      BY <1>0, <1>1, <1>8
    <3>2. cmd \in Command \cup {NoOp}
      BY <1>6 DEF cmd, LogEntry
    <3>3. Executed(H[k - 1], cmd) \in Seq(Command)
      BY <3>1, <3>2 DEF Executed
    <3> QED BY <3>3
  <2>1. [H EXCEPT ![k] = new] \in [Nat -> Seq(Command)]
    BY <1>1, <1>2
  <2>2. PICK G \in [Nat -> Seq(Command)] : G[k] = new /\ \A j \in Nat : j # k => G[j] = H[j]
    BY <1>1, <1>2, <2>1
  <2>a. \A q \in Server : lastApplied[q] < k
    <3> SUFFICES ASSUME NEW q \in Server PROVE lastApplied[q] < k
      OBVIOUS
    <3>1. ~ (k <= lastApplied[q])
      BY <1>10
    <3>2. PICK next \in Nat : next = k
      BY <1>2
    <3>3. PICK last \in Nat : last = lastApplied[q]
      BY <1>0
    <3>4. ~ (next <= last) => last < next
      OBVIOUS
    <3> QED BY <3>1, <3>2, <3>3, <3>4
  <2>3. ASSUME NEW p \in Server
        PROVE  /\ lastApplied'[p] <= commitIndex'[p]
               /\ app'[p] = G[lastApplied'[p]]
               /\ \A j \in 1 .. lastApplied'[p] : G[j] = Executed(G[j - 1], Es(p)'[j].cmd)
    <3>0. lastApplied[p] \in Nat /\ lastApplied[p] < k
      BY <1>0, <2>a
    <3>2. \A j \in 1 .. lastApplied[p] : G[j] = Executed(G[j - 1], Es(p)[j].cmd)
      <4> SUFFICES ASSUME NEW j \in 1 .. lastApplied[p] PROVE G[j] = Executed(G[j - 1], Es(p)[j].cmd)
        OBVIOUS
      <4>1. j \in Nat /\ j - 1 \in Nat /\ j # k /\ j - 1 # k
        <5>0. PICK last \in Nat : last = lastApplied[p] /\ last < k
          BY <3>0
        <5>1. j \in 1 .. last
          BY <5>0
        <5>2. PICK next \in Nat : next = k
          BY <1>2
        <5>a. last < next
          BY <5>0, <5>2
        <5>b. j \in Nat /\ j - 1 \in Nat /\ j <= last
          BY <5>0, <5>1
        <5>c. j < next /\ j - 1 < next
          BY <5>a, <5>b
        <5>3. j \in Nat /\ j - 1 \in Nat /\ j # next /\ j - 1 # next
          BY <5>b, <5>c
        <5> QED BY <5>2, <5>3
      <4>2. G[j] = H[j] /\ G[j - 1] = H[j - 1]
        BY <2>2, <4>1
      <4>3. H[j] = Executed(H[j - 1], Es(p)[j].cmd)
        BY <1>1
      <4> QED BY <4>2, <4>3
    <3>3. CASE p # n
      <4>1. PICK last \in Nat : last = lastApplied[p] /\ last < k
        BY <3>0
      <4>a. last # k
        BY SMTT(20), <1>2, <4>1
      <4>2. G[lastApplied[p]] = H[lastApplied[p]]
        BY <2>2, <4>1, <4>a
      <4> QED BY <1>1, <1>3, <1>4, <3>2, <3>3, <4>2
    <3>4. CASE p = n
      <4>1. k - 1 \in Nat /\ k - 1 # k /\ G[k - 1] = H[k - 1]
        <5>1. k - 1 \in Nat /\ k - 1 # k
          BY <1>2
        <5> QED BY <2>2, <5>1
      <4>2. G[k] = Executed(G[k - 1], Es(n)[k].cmd)
        BY <2>0, <2>2, <4>1 DEF cmd
      <4>3. \A j \in 1 .. k : G[j] = Executed(G[j - 1], Es(n)[j].cmd)
        <5> SUFFICES ASSUME NEW j \in 1 .. k PROVE G[j] = Executed(G[j - 1], Es(n)[j].cmd)
          OBVIOUS
        <5>1. CASE j = k
          BY <4>2, <5>1
        <5>2. CASE j < k
          BY <1>7, <3>2, <3>4, <5>2
        <5> QED BY <1>2, <5>1, <5>2
      <4>4. app'[n] = G[k]
        BY <1>2, <2>0, <2>2
      <4> QED BY <1>2, <1>4, <3>4, <4>3, <4>4
    <3> QED BY <3>3, <3>4
  <2>4. G[0] = <<>>
    BY <1>1, <1>2, <2>2
  <2>5. History(G)'
    BY <2>3, <2>4 DEF History
  <2> QED BY <2>5 DEF HistoryInv
<1> QED BY <1>9, <1>10

\* There is one history at first, and after every step.
LEMMA HistoryInit == Init => HistoryInv
<1> SUFFICES ASSUME Init PROVE HistoryInv
  OBVIOUS
<1>1. \A n \in Server : lastApplied[n] = 0 /\ commitIndex[n] = 0 /\ app[n] = <<>>
  BY DEF Init, Started
<1>2. [k \in Nat |-> <<>>] \in [Nat -> Seq(Command)]
  <2>1. <<>> \in Seq(Command)
    OBVIOUS
  <2> QED BY <2>1
<1>3. PICK H \in [Nat -> Seq(Command)] : \A k \in Nat : H[k] = <<>>
  BY <1>2
<1>4. History(H)
  BY <1>1, <1>3 DEF History
<1> QED BY <1>4 DEF HistoryInv

\* A step of no node changes nothing.
LEMMA HistoryStutter == HistoryInv /\ UNCHANGED vars => HistoryInv'
<1> SUFFICES ASSUME NEW H, History(H), UNCHANGED vars PROVE HistoryInv'
  BY DEF HistoryInv
<1>1. UNCHANGED <<lastApplied, commitIndex, app, log>>
  BY DEF vars, applyVars, logVars
<1>2. \A n : Es(n)' = Es(n)
  BY <1>1 DEF Es
<1>3. History(H)'
  BY <1>1, <1>2 DEF History
<1> QED BY <1>3 DEF HistoryInv

\* Without snapshots, there is one history of which every application reflects
\* the beginning.
THEOREM HistoryHolds == Spec /\ []NoSnapshots => []HistoryInv
<1>1. Init => HistoryInv
  BY HistoryInit
<1>2. /\ TypeOK /\ TypeOK' /\ ElectionInv /\ ElectionInv' /\ NoSnapshots
      /\ ReplicationInv /\ CommitInv /\ HistoryInv /\ [Next]_vars
      => HistoryInv'
  <2> SUFFICES ASSUME TypeOK, TypeOK', ElectionInv, ElectionInv', NoSnapshots,
                      ReplicationInv, CommitInv, NEW H, History(H), NEW n \in Server, Step(n)
               PROVE  HistoryInv'
    BY HistoryStutter DEF Next, HistoryInv
  <2>1. Others(n) /\ Kinds(n) /\ Uncompacted
    BY ReplicationNext DEF ReplicationInv
  <2>2. CASE Applies(n)
    BY <2>1, <2>2, HistoryApplies
  <2>3. CASE ~ Applies(n)
    <3>1. History(H)'
      BY <2>1, <2>3, AppStep, HistorySame
    <3> QED BY <3>1 DEF HistoryInv
  <2> QED BY <2>2, <2>3
<1> QED BY <1>1, <1>2, TypeCorrect, VotesStand, ReplicationHolds, CommitHolds, PTL DEF Spec

\* Without snapshots, two nodes that have applied the log up to the same index
\* have executed the same commands, and crashes let them start over, not differ.
THEOREM HistoriesAgree == Spec /\ []NoSnapshots => []SameHistory
<1>1. HistoryInv => SameHistory
  BY DEF HistoryInv, History, SameHistory
<1> QED BY <1>1, HistoryHolds, PTL
=============================================================================
