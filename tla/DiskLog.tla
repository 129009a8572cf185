------------------------------- MODULE DiskLog -------------------------------
(***************************************************************************)
(* The log of one node on disk: LogManager's checks over DiskLogStorage's  *)
(* file of checksummed records.  Three locks guard the callers (stateLock, *)
(* commandLock and applyLock), so up to three calls are between their      *)
(* check against lastIndex and their turn at the storage's own lock.  The  *)
(* file is [header, snapIndex, snapTerm, records, torn]; a record is its   *)
(* index and the entry, and the offset index maps an index to a position   *)
(* in the file.  A crash may tear what is being written: the record at     *)
(* position tear, if that is not 0, and all behind it do not read.         *)
(***************************************************************************)
EXTENDS RaftLog

CONSTANTS
    Term, Command,
    Process,            \* the locks under which the log is called
    Nil,
    Alone,              \* whether one call at a time is under way
    MaxIndex, MaxCrashes     \* bounds of the model

\* A free lock has no process, and the bound is a number.
ASSUME DiskLogAssumption == Nil \notin Process /\ MaxIndex \in Nat

VARIABLES
    wal,         \* wal.bin
    tmp,         \* wal.tmp
    offsets,     \* offsetIndex
    cached,      \* the snapshot and tail that LogManager and the storage cache
    task,        \* the call each process is in
    rewriting,   \* the process that has written wal.tmp and holds the lock
    status,      \* "open", "closed" or, when open throws, "broken"
    committed,   \* the entries Raft no longer truncates
    acked,       \* what append reported to its caller and no caller dropped since
    displaced,   \* whether the last entry gave way to a snapshot of another term
    crashes

files == <<wal, tmp>>
memory == <<offsets, cached, task, rewriting, status>>
vars == <<files, memory, committed, acked, displaced, crashes>>

LogEntry == [term : Term, cmd : Command]

NoFile == [header |-> "none", snapIndex |-> 0, snapTerm |-> 0, records |-> <<>>, tear |-> 0]
TornFile == [NoFile EXCEPT !.header = "torn"]
File(snapIndex, snapTerm, records) ==
    [header |-> "ok", snapIndex |-> snapIndex, snapTerm |-> snapTerm,
     records |-> records, tear |-> 0]

Record(i, e) == [index |-> i, entry |-> e]
Highest(S) == CHOOSE x \in S : \A y \in S : y <= x

-----------------------------------------------------------------------------
(* loadAndScan: records the snapshot covers are skipped, and of two records *)
(* with one index the later counts.                                         *)

Scanned(f) ==
    {k \in 1 .. Len(f.records) :
        f.records[k].index > f.snapIndex /\ (f.tear # 0 => k < f.tear)}

Offsets(f) ==
    [i \in {f.records[k].index : k \in Scanned(f)} |->
        Highest({k \in Scanned(f) : f.records[k].index = i})]

ScannedTail(f) ==
    IF Scanned(f) = {} THEN [index |-> f.snapIndex, term |-> f.snapTerm]
    ELSE LET r == f.records[Highest(Scanned(f))]
         IN  [index |-> r.index, term |-> r.entry.term]

Cached(f) ==
    [snapIndex |-> f.snapIndex, snapTerm |-> f.snapTerm,
     lastIndex |-> ScannedTail(f).index, lastTerm |-> ScannedTail(f).term]

\* Mutant of AfterScan: the torn tail stays in the file.
KeptTail(f) == f

\* The file once its torn tail is cut.
AfterScan(f) == [f EXCEPT !.tear = 0]

Hole == [term |-> NoTerm, cmd |-> Nil]

\* The log a node that opened the file now would have.
AsLog(f) ==
    LET last == ScannedTail(f).index
        EntryAt(i) == IF i \in DOMAIN Offsets(f) THEN f.records[Offsets(f)[i]].entry ELSE Hole
    IN  [snapIndex |-> f.snapIndex, snapTerm |-> f.snapTerm,
         entries |-> [k \in 1 .. last - f.snapIndex |-> EntryAt(f.snapIndex + k)],
         lastTerm |-> ScannedTail(f).term]

-----------------------------------------------------------------------------
(* LogManager: the checks of a call, made before it waits for the storage.  *)

MayCall(p) ==
    /\ status = "open"
    /\ task[p] = Nil
    /\ Alone => \A q \in Process : task[q] = Nil

Call(p, t) ==
    /\ MayCall(p)
    /\ task' = [task EXCEPT ![p] = t]
    /\ UNCHANGED <<files, offsets, cached, rewriting, status, committed, displaced, crashes>>

NextIndex == cached.lastIndex + 1

\* appendEntry, appendEntries, appendCommand, appendNoOpEntry, appendConfigEntry
\* and appendDropLogEntry: the entries continue the tail as it is now.
AppendEntriesAt(p, es) ==
    /\ cached.lastIndex + Len(es) <= MaxIndex
    /\ Call(p, [op |-> "append", records |-> [k \in 1 .. Len(es) |-> Record(NextIndex + k - 1, es[k])]])
    /\ UNCHANGED acked

\* deleteEntriesFrom.
DeleteFrom(p, i) ==
    /\ cached.snapIndex < i /\ i <= cached.lastIndex
    /\ i > committed
    /\ Call(p, [op |-> "truncate", index |-> i])
    /\ acked' = {a \in acked : a.index < i}

\* discardEntriesUpTo.  What is committed here is discarded under its own term,
\* by takeSnapshot or by a leader's snapshot; a leader's snapshot may also cover
\* entries that are not known to be committed, and its term need not be theirs.
DiscardUpTo(p, i, t) ==
    /\ cached.snapIndex < i /\ i <= cached.lastIndex
    /\ i <= committed => i \in DOMAIN offsets /\ t = wal.records[offsets[i]].entry.term
    /\ Call(p, [op |-> "rewrite", keep |-> TRUE, index |-> i, term |-> t])
    /\ UNCHANGED acked

\* resetToSnapshot, for a snapshot that covers what is committed here.
ResetTo(p, i, t) ==
    /\ committed <= i /\ i <= MaxIndex /\ cached.snapIndex <= i
    /\ Call(p, [op |-> "rewrite", keep |-> FALSE, index |-> i, term |-> t])
    /\ acked' = {}

-----------------------------------------------------------------------------
(* DiskLogStorage, under its lock. *)

Holds(p, op) == status = "open" /\ rewriting = Nil /\ task[p] # Nil /\ task[p].op = op

Done(p) == task' = [task EXCEPT ![p] = Nil]

\* The file after records are added: a missing file gets its header with them.
Extended(records) ==
    IF wal.header = "none" THEN File(cached.snapIndex, cached.snapTerm, records)
    ELSE [wal EXCEPT !.records = @ \o records]

WriteRecords(p) ==
    /\ Holds(p, "append")
    /\ LET rs == task[p].records
           new == Extended(rs)
           base == Len(new.records) - Len(rs)
           at == [i \in {rs[k].index : k \in 1 .. Len(rs)} |-> base + i - rs[1].index + 1]
       IN  /\ wal' = new
           /\ offsets' = [i \in DOMAIN offsets \cup DOMAIN at |->
                             IF i \in DOMAIN at THEN at[i] ELSE offsets[i]]
           /\ cached' = [cached EXCEPT !.lastIndex = rs[Len(rs)].index,
                                       !.lastTerm = rs[Len(rs)].entry.term]
           /\ acked' = acked \cup {rs[k] : k \in 1 .. Len(rs)}
    /\ displaced' = FALSE
    /\ Done(p)
    /\ UNCHANGED <<tmp, rewriting, status, committed, crashes>>

\* Mutant of CutAt: the record at the index stays.
CutAfter(i) == [wal EXCEPT !.records = SubSeq(@, 1, offsets[i])]

CutAt(i) == [wal EXCEPT !.records = SubSeq(@, 1, offsets[i] - 1)]

TruncateFrom(p) ==
    /\ Holds(p, "truncate")
    /\ LET i == task[p].index
           left == CutAt(i)
       IN  /\ i \in DOMAIN offsets
           /\ wal' = left
           /\ offsets' = [j \in {j \in DOMAIN offsets : j < i} |-> offsets[j]]
           /\ cached' = IF i - 1 <= cached.snapIndex
                        THEN [cached EXCEPT !.lastIndex = cached.snapIndex, !.lastTerm = cached.snapTerm]
                        ELSE [cached EXCEPT !.lastIndex = i - 1,
                                            !.lastTerm = wal.records[offsets[i - 1]].entry.term]
    /\ displaced' = FALSE
    /\ Done(p)
    /\ UNCHANGED <<tmp, rewriting, status, committed, acked, crashes>>

\* Mutant of KeptRecords: the first entry after the snapshot goes too.
KeptAfterNext(i) ==
    LET kept == {j \in DOMAIN offsets : i + 1 < j /\ j <= cached.lastIndex}
        Nth(k) == CHOOSE j \in kept : Cardinality({x \in kept : x <= j}) = k
    IN  [k \in 1 .. Cardinality(kept) |-> wal.records[offsets[Nth(k)]]]

\* The entries a compaction up to i rewrites: those getEntry finds.
KeptRecords(i) ==
    LET kept == {j \in DOMAIN offsets : i < j /\ j <= cached.lastIndex}
        Nth(k) == CHOOSE j \in kept : Cardinality({x \in kept : x <= j}) = k
    IN  [k \in 1 .. Cardinality(kept) |-> wal.records[offsets[Nth(k)]]]

\* compact and reset write the new file beside the old one and sync it.
WriteTmp(p) ==
    /\ Holds(p, "rewrite")
    /\ rewriting' = p
    /\ tmp' = File(task[p].index, task[p].term,
                   IF task[p].keep THEN KeptRecords(task[p].index) ELSE <<>>)
    /\ UNCHANGED <<wal, offsets, cached, task, status, committed, acked, displaced, crashes>>

\* compact leaves the cached tail alone, reset does not.
RenameTmp(p) ==
    /\ rewriting = p
    /\ wal' = tmp
    /\ tmp' = NoFile
    /\ offsets' = Offsets(tmp)
    /\ cached' = IF task[p].keep
                 THEN [cached EXCEPT !.snapIndex = tmp.snapIndex, !.snapTerm = tmp.snapTerm]
                 ELSE Cached(tmp)
    /\ displaced' = (/\ task[p].keep
                      /\ task[p].index = cached.lastIndex
                      /\ task[p].term # cached.lastTerm)
    /\ committed' = IF task[p].keep /\ task[p].index <= committed THEN committed ELSE task[p].index
    /\ rewriting' = Nil
    /\ Done(p)
    /\ UNCHANGED <<status, acked, crashes>>

-----------------------------------------------------------------------------
(* Crashes and restarts. *)

TornAfter(records) ==
    LET f == Extended(records) IN [f EXCEPT !.tear = Len(f.records) + 1]

\* What a crash may leave of the call of p, as <<wal, tmp>>.
LeftOf(p) ==
    IF task[p] = Nil THEN {}
    ELSE IF rewriting = p THEN {<<wal, tmp>>, <<tmp, NoFile>>}
    ELSE IF rewriting # Nil THEN {}
    ELSE CASE task[p].op = "append" ->
                  {<<Extended(SubSeq(task[p].records, 1, k)), tmp>> : k \in 0 .. Len(task[p].records)}
                  \cup {<<TornAfter(SubSeq(task[p].records, 1, k)), tmp>> :
                            k \in 0 .. Len(task[p].records) - 1}
                  \cup (IF wal.header = "none" THEN {<<TornFile, tmp>>} ELSE {})
           [] task[p].op = "truncate" -> {<<CutAt(task[p].index), tmp>>}
           [] task[p].op = "rewrite" -> {<<wal, TornFile>>}

Crash ==
    /\ crashes < MaxCrashes
    /\ status = "open"
    /\ \E left \in {files} \cup UNION {LeftOf(p) : p \in Process} :
          /\ wal' = left[1]
          /\ tmp' = left[2]
          \* an unacknowledged reset that took effect
          /\ committed' = IF committed < left[1].snapIndex THEN left[1].snapIndex ELSE committed
    /\ status' = "closed"
    /\ offsets' = [i \in {} |-> 0]
    /\ task' = [p \in Process |-> Nil]
    /\ rewriting' = Nil
    /\ crashes' = crashes + 1
    /\ UNCHANGED <<cached, acked, displaced>>

\* recover: a leftover temporary file counts only where there is no log.
Recovered == IF wal.header # "none" THEN wal ELSE tmp

Open ==
    /\ status = "closed"
    /\ tmp' = NoFile
    /\ LET f == Recovered IN
          IF f.header = "torn"
          THEN /\ status' = "broken"
               /\ wal' = f
               /\ UNCHANGED <<offsets, cached, displaced>>
          ELSE /\ status' = "open"
               /\ wal' = AfterScan(f)
               /\ offsets' = Offsets(f)
               /\ cached' = Cached(f)
               /\ displaced' = FALSE
    /\ UNCHANGED <<task, rewriting, committed, acked, crashes>>

\* Raft counts entries that are on disk as committed.
Commit ==
    /\ status = "open"
    /\ committed' \in committed + 1 .. cached.lastIndex
    /\ UNCHANGED <<files, memory, acked, displaced, crashes>>

Init ==
    /\ wal = NoFile
    /\ tmp = NoFile
    /\ offsets = [i \in {} |-> 0]
    /\ cached = Cached(NoFile)
    /\ task = [p \in Process |-> Nil]
    /\ rewriting = Nil
    /\ status = "open"
    /\ committed = 0
    /\ acked = {}
    /\ displaced = FALSE
    /\ crashes = 0

Next ==
    \/ \E p \in Process :
          \/ \E e \in LogEntry : AppendEntriesAt(p, <<e>>)
          \/ \E e, f \in LogEntry : AppendEntriesAt(p, <<e, f>>)
          \/ \E i \in 1 .. MaxIndex :
                DeleteFrom(p, i) \/ (\E t \in Term : DiscardUpTo(p, i, t) \/ ResetTo(p, i, t))
          \/ WriteRecords(p) \/ TruncateFrom(p) \/ WriteTmp(p) \/ RenameTmp(p)
    \/ Crash \/ Open \/ Commit

Spec == Init /\ [][Next]_vars

-----------------------------------------------------------------------------
(* Properties. *)

\* What append reported is what the file holds at that index, through every
\* crash, until the entry is truncated or a snapshot covers it.
AcknowledgedIsHeld ==
    \A a \in acked : a.index > wal.snapIndex =>
        /\ HasEntry(AsLog(wal), a.index)
        /\ Entry(AsLog(wal), a.index) = a.entry

\* The cached tail and the offset index say what a scan of the file would say;
\* only the term of a last entry that gave way to a snapshot of another term
\* stays as it was, until the log changes again or is opened anew (compact).
CacheIsFile ==
    status = "open" /\ rewriting = Nil =>
        /\ cached = IF displaced THEN [Cached(wal) EXCEPT !.lastTerm = cached.lastTerm]
                    ELSE Cached(wal)
        /\ displaced => cached.lastIndex = cached.snapIndex
        /\ offsets = Offsets(wal) /\ wal.tear = 0

\* "Term at lastIndex" (LogStorageMeta): the cached one is that of the file.
LastTermIsOnFile ==
    status = "open" /\ rewriting = Nil => cached.lastTerm = ScannedTail(wal).term

\* Only a crash in the first write of a new log leaves a file that open rejects.
BrokenOnlyIfNew == status = "broken" => acked = {} /\ committed = 0

Store == INSTANCE LogStore WITH store <- AsLog(wal)

\* The file is the log LogStore describes.
ImplementsLogStore == Store!Spec
=============================================================================
