------------------------------- MODULE RaftLog -------------------------------
(***************************************************************************)
(* The replicated log of one node: LogManager over a LogStorage, and the   *)
(* index arithmetic of LeaderState that reads it.  A log is the record     *)
(*   [snapIndex, snapTerm, entries, lastTerm]                              *)
(* whose entries sit at snapIndex + 1, snapIndex + 2, ...; lastIndex is    *)
(* derived.  lastTerm is a field of its own because the code caches it and *)
(* not every operation refreshes it.  An entry is [term, cmd]; its index   *)
(* is its position.                                                        *)
(***************************************************************************)
EXTENDS Integers, Sequences, FiniteSets

NoTerm == -1       \* getTermAtIndex's null

EmptyLog == [snapIndex |-> 0, snapTerm |-> 0, entries |-> <<>>, lastTerm |-> 0]

LastIndex(l) == l.snapIndex + Len(l.entries)

HasEntry(l, i) == l.snapIndex < i /\ i <= LastIndex(l)

Entry(l, i) == l.entries[i - l.snapIndex]

TermAt(l, i) ==
    IF i = l.snapIndex THEN l.snapTerm
    ELSE IF HasEntry(l, i) THEN Entry(l, i).term ELSE NoTerm

OrZero(term) == IF term = NoTerm THEN 0 ELSE term

\* getEntries(from, to) for a range the caller has bounded by lastIndex.
Entries(l, from, to) == SubSeq(l.entries, from - l.snapIndex, to - l.snapIndex)

\* Mutant of MatchesPrevLog: the term is not compared.
MatchesPrevIndexOnly(l, prevLogIndex, prevLogTerm) == prevLogIndex <= LastIndex(l)

MatchesPrevLog(l, prevLogIndex, prevLogTerm) ==
    IF prevLogIndex = 0 THEN prevLogTerm = 0
    ELSE TermAt(l, prevLogIndex) # NoTerm /\ TermAt(l, prevLogIndex) = prevLogTerm

\* The hint a follower returns when prevLogIndex does not match: the start of
\* the run of entries of the conflicting term, or one past its log with term 0.
ConflictInfo(l, prevLogIndex) ==
    IF ~HasEntry(l, prevLogIndex)
    THEN [index |-> LastIndex(l) + 1, term |-> 0]
    ELSE LET t == Entry(l, prevLogIndex).term
             Run == {i \in l.snapIndex + 1 .. prevLogIndex :
                        \A j \in i .. prevLogIndex : Entry(l, j).term = t}
         IN  [index |-> CHOOSE i \in Run : \A j \in Run : i <= j, term |-> t]

-----------------------------------------------------------------------------
(* Updates. *)

AppendEntries(l, es) ==
    IF es = <<>> THEN l
    ELSE [l EXCEPT !.entries = @ \o es, !.lastTerm = es[Len(es)].term]

\* truncateFrom recomputes the cached tail.
DeleteEntriesFrom(l, i) ==
    LET kept == SubSeq(l.entries, 1, i - 1 - l.snapIndex)
    IN  [l EXCEPT !.entries = kept,
                  !.lastTerm = IF kept = <<>> THEN l.snapTerm ELSE kept[Len(kept)].term]

\* Offsets into es whose entry contradicts the log, when every entry before it
\* is already there: the scan stops at the first entry the log does not hold.
Conflicts(l, prevLogIndex, es) ==
    {k \in 1 .. Len(es) :
        /\ HasEntry(l, prevLogIndex + k)
        /\ Entry(l, prevLogIndex + k).term # es[k].term
        /\ \A j \in 1 .. k - 1 :
              HasEntry(l, prevLogIndex + j) /\ Entry(l, prevLogIndex + j).term = es[j].term}

TruncateConflict(l, prevLogIndex, es) ==
    IF Conflicts(l, prevLogIndex, es) = {} THEN l
    ELSE DeleteEntriesFrom(l, prevLogIndex + CHOOSE k \in Conflicts(l, prevLogIndex, es) : TRUE)

\* Mutant of AppendEntriesFrom: entries already held are appended again.
AppendEntriesFromTwice(l, prevLogIndex, es) ==
    AppendEntries(TruncateConflict(l, prevLogIndex, es), es)

\* Mutant of AppendEntriesFrom: what follows prevLogIndex is always replaced.
AppendEntriesFromReplacing(l, prevLogIndex, es) ==
    AppendEntries(DeleteEntriesFrom(l, prevLogIndex + 1), es)

AppendEntriesFrom(l, prevLogIndex, es) ==
    LET kept == TruncateConflict(l, prevLogIndex, es)
        held == LastIndex(kept) - prevLogIndex        \* entries of es at or below lastIndex
    IN  AppendEntries(kept, SubSeq(es, held + 1, Len(es)))

\* compact(index, term): the cached tail term is left as it was.
DiscardEntriesUpTo(l, i, t) ==
    IF i <= l.snapIndex THEN l
    ELSE [l EXCEPT !.snapIndex = i, !.snapTerm = t,
                   !.entries = SubSeq(@, i - l.snapIndex + 1, Len(@))]

\* Mutant of ResetToSnapshot: the log restarts from index 0.
ResetToNothing(i, t) == EmptyLog

ResetToSnapshot(i, t) == [snapIndex |-> i, snapTerm |-> t, entries |-> <<>>, lastTerm |-> t]

\* initialize after open: loadAndScan recomputes the tail from the records.
Reload(l) ==
    [l EXCEPT !.lastTerm = IF l.entries = <<>> THEN l.snapTerm
                           ELSE l.entries[Len(l.entries)].term]

\* Mutant of IsLogUpToDate: logs of the same last term are not compared by length.
IsLogUpToDateByTerm(l, candidateLastIndex, candidateLastTerm) ==
    candidateLastTerm >= l.lastTerm

\* isLogUpToDate: the vote check against this log.
IsLogUpToDate(l, candidateLastIndex, candidateLastTerm) ==
    \/ candidateLastTerm > l.lastTerm
    \/ candidateLastTerm = l.lastTerm /\ candidateLastIndex >= LastIndex(l)

-----------------------------------------------------------------------------
(* LeaderState. *)

\* calculateCommitIndex: the highest of the leader's last index and the voters'
\* match indices that a majority holds and whose entry is of the current term.
CalculateCommitIndex(l, currentTerm, voters, match) ==
    LET Held(i) == {v \in voters : match[v] >= i}
        Candidates == {LastIndex(l)} \cup {match[v] : v \in voters}
        Committable == {i \in Candidates :
            /\ i > 0
            /\ TermAt(l, i) = currentTerm
            /\ Cardinality(Held(i)) + (IF LastIndex(l) >= i THEN 1 ELSE 0)
                  >= (Cardinality(voters) + 1) \div 2 + 1}
    IN  IF Committable = {} THEN 0
        ELSE CHOOSE i \in Committable : \A j \in Committable : j <= i

\* findLastIndexOfTerm walks down from the tail and gives up below the term;
\* an index the log no longer holds reads as term 0.
IndicesOfTerm(l, t) ==
    {i \in 1 .. LastIndex(l) :
        /\ OrZero(TermAt(l, i)) = t
        /\ \A j \in i + 1 .. LastIndex(l) : OrZero(TermAt(l, j)) > t}

\* updateNextIndexWithConflict, with setNextIndex's clamp above matchIndex.
NextIndexAfterConflict(l, match, conflictIndex, conflictTerm) ==
    LET Last == IndicesOfTerm(l, conflictTerm)
        wanted == IF conflictTerm = 0 \/ Last = {} THEN conflictIndex
                  ELSE (CHOOSE i \in Last : TRUE) + 1
    IN  IF wanted <= match THEN match + 1 ELSE wanted
=============================================================================
