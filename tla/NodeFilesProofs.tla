--------------------------- MODULE NodeFilesProofs ---------------------------
(***************************************************************************)
(* Proofs about the files of a Raft node.                                  *)
(*                                                                         *)
(* DiskLog, for logs of any length and any number of crashes, while one    *)
(* call at a time is under way (Alone): what append reported is in the     *)
(* file, the cached tail and offsets are those of the file, and the file   *)
(* implements LogStore.  All three rest on the shape of the file: the      *)
(* record at position k is that of index snapIndex + k, and nothing but    *)
(* the very last write can be torn.  Offsets and the scan then say what    *)
(* the positions say.                                                      *)
(*                                                                         *)
(* ReplacedFile, with one writer: what a write reported was synced before  *)
(* the rename, so that no crash tears it.                                  *)
(***************************************************************************)
EXTENDS NodeFiles, SequenceTheorems, FiniteSetTheorems, TLAPS

IndexedEntry == [index : Nat, entry : LogEntry]

FileType ==
    [header : {"none", "torn", "ok"}, snapIndex : Nat, snapTerm : Term \cup {0},
     records : Seq(IndexedEntry), tear : Nat]

\* The records follow the snapshot without a gap; only what is behind them is torn.
IsFile(f) ==
    /\ f \in FileType
    /\ \A k \in 1 .. Len(f.records) : f.records[k].index = f.snapIndex + k
    /\ f.tear \in {0, Len(f.records) + 1}
    /\ f.header = "none" => f = NoFile
    /\ f.header = "torn" => f = TornFile

EndOf(f) == f.snapIndex + Len(f.records)

LastTermOf(f) == IF Len(f.records) = 0 THEN f.snapTerm ELSE f.records[Len(f.records)].entry.term

\* The log in a file of that shape.
LogOf(f) ==
    [snapIndex |-> f.snapIndex, snapTerm |-> f.snapTerm,
     entries |-> [k \in 1 .. Len(f.records) |-> f.records[k].entry],
     lastTerm |-> LastTermOf(f)]

-----------------------------------------------------------------------------
(* The invariant. *)

\* A call to append that was checked continues the file f.
IsAppend(t, f) ==
    /\ t.op = "append"
    /\ t.records \in Seq(IndexedEntry)
    /\ Len(t.records) \in {1, 2}
    /\ EndOf(f) + Len(t.records) <= MaxIndex
    /\ \A k \in 1 .. Len(t.records) : t.records[k].index = EndOf(f) + k

\* One to truncate cuts nothing that is still acknowledged.
IsTruncate(t, f, reported) ==
    /\ t.op = "truncate"
    /\ t.index \in f.snapIndex + 1 .. EndOf(f)
    /\ \A a \in reported : a.index < t.index

\* One to compact keeps what follows an entry of the file.
IsCompact(t, f) ==
    /\ t.op = "rewrite" /\ t.keep = TRUE
    /\ t.index \in f.snapIndex + 1 .. EndOf(f)
    /\ t.term \in Term

\* One to reset drops a file of which nothing is acknowledged any more.
IsReset(t, f, reported) ==
    /\ t.op = "rewrite" /\ t.keep = FALSE
    /\ t.index \in f.snapIndex .. MaxIndex
    /\ t.term \in Term
    /\ reported = {}

IsTask(t, f, reported) ==
    IsAppend(t, f) \/ IsTruncate(t, f, reported) \/ IsCompact(t, f) \/ IsReset(t, f, reported)

\* The file of a snapshot at i, with what f holds after it.
Compacted(f, i, t) == File(i, t, SubSeq(f.records, i - f.snapIndex + 1, Len(f.records)))

\* What the rewrite t makes of the file f.
Rewritten(t, f) ==
    IF t.keep THEN Compacted(f, t.index, t.term) ELSE File(t.index, t.term, <<>>)

\* The memory is that of the file, but for the term of a displaced last entry.
Remembered(f) ==
    IF displaced THEN [Cached(f) EXCEPT !.lastTerm = cached.lastTerm] ELSE Cached(f)

Synced ==
    /\ IsFile(wal)
    /\ wal.header # "torn" /\ wal.tear = 0
    /\ cached = Remembered(wal) /\ offsets = Offsets(wal)
    /\ displaced => wal.snapIndex = EndOf(wal)

\* The record is in the file, or its snapshot covers it.
Held(f, a) ==
    a.index > f.snapIndex => a.index <= EndOf(f) /\ f.records[a.index - f.snapIndex] = a

TasksInv ==
    /\ task = [p \in Process |-> task[p]]
    /\ \A p \in Process : task[p] # Nil => status = "open" /\ IsTask(task[p], wal, acked)
    /\ \A p, q \in Process : task[p] # Nil /\ task[q] # Nil => p = q
    /\ rewriting # Nil =>
          /\ rewriting \in Process
          /\ task[rewriting] # Nil
          /\ task[rewriting].op = "rewrite"
          /\ tmp = Rewritten(task[rewriting], wal)

\* While the log is open its memory is that of the file; a temporary file that
\* is left over without a log is that of a reset.
FileInv ==
    /\ IsFile(wal)
    /\ status \in {"open", "closed", "broken"}
    /\ status = "open" => Synced /\ (rewriting = Nil => tmp = NoFile)
    /\ status = "broken" => wal.header = "torn"
    /\ status = "closed" /\ wal.header = "none" =>
          \/ tmp \in {NoFile, TornFile}
          \/ \E i \in 0 .. MaxIndex, t \in Term : tmp = File(i, t, <<>>)

AckedInv ==
    /\ committed \in Nat
    /\ acked \subseteq IndexedEntry
    /\ \A a \in acked : Held(wal, a)
    /\ wal.header # "ok" => acked = {} /\ committed = 0

DiskInv == TasksInv /\ FileInv /\ AckedInv

-----------------------------------------------------------------------------
(* A scan of a file of that shape. *)

LEMMA HighestOne ==
    ASSUME NEW n \in Nat
    PROVE  Highest({n}) = n
BY DEF Highest

LEMMA HighestOfRange ==
    ASSUME NEW n \in Nat \ {0}
    PROVE  Highest(1 .. n) = n
<1>1. n \in 1 .. n /\ \A y \in 1 .. n : y <= n
  OBVIOUS
<1>2. \A x \in 1 .. n : (\A y \in 1 .. n : y <= x) => x = n
  OBVIOUS
<1> QED
  BY <1>1, <1>2 DEF Highest

\* The scan reads every record, and puts each at its position.
LEMMA ScanReadsAll ==
    ASSUME NEW f, IsFile(f)
    PROVE  /\ Scanned(f) = 1 .. Len(f.records)
           /\ Offsets(f) = [i \in f.snapIndex + 1 .. EndOf(f) |-> i - f.snapIndex]
           /\ ScannedTail(f) = [index |-> EndOf(f), term |-> LastTermOf(f)]
<1> DEFINE n == Len(f.records)
<1>1. /\ f.records \in Seq(IndexedEntry) /\ n \in Nat /\ f.snapIndex \in Nat
      /\ \A k \in 1 .. n : f.records[k].index = f.snapIndex + k
      /\ f.tear \in {0, n + 1}
  BY LenProperties DEF IsFile, FileType
<1> HIDE DEF n
<1>2. Scanned(f) = 1 .. n
  <2>1. ASSUME NEW k \in 1 .. n
        PROVE  f.records[k].index > f.snapIndex /\ (f.tear # 0 => k < f.tear)
    BY <1>1
  <2> QED
    BY <2>1 DEF Scanned, n
<1>3. {f.records[k].index : k \in 1 .. n} = f.snapIndex + 1 .. f.snapIndex + n
  <2>1. ASSUME NEW i \in f.snapIndex + 1 .. f.snapIndex + n
        PROVE  \E k \in 1 .. n : f.records[k].index = i
    <3>1. i - f.snapIndex \in 1 .. n /\ f.snapIndex + (i - f.snapIndex) = i
      BY <1>1
    <3> QED
      BY <3>1, <1>1
  <2>2. ASSUME NEW k \in 1 .. n
        PROVE  f.records[k].index \in f.snapIndex + 1 .. f.snapIndex + n
    BY <1>1
  <2> QED
    BY <2>1, <2>2
<1>4. ASSUME NEW i \in f.snapIndex + 1 .. f.snapIndex + n
      PROVE  Highest({k \in 1 .. n : f.records[k].index = i}) = i - f.snapIndex
  <2>1. i - f.snapIndex \in 1 .. n /\ i - f.snapIndex \in Nat
    BY <1>1
  <2>2. \A k \in 1 .. n : f.records[k].index = i <=> k = i - f.snapIndex
    BY SMTT(30), <1>1
  <2>3. {k \in 1 .. n : f.records[k].index = i} = {i - f.snapIndex}
    BY <2>1, <2>2
  <2> QED
    BY <2>1, <2>3, HighestOne
<1>5. Offsets(f) = [i \in f.snapIndex + 1 .. f.snapIndex + n |-> i - f.snapIndex]
  <2>1. Offsets(f) = [i \in f.snapIndex + 1 .. f.snapIndex + n |->
                         Highest({k \in 1 .. n : f.records[k].index = i})]
    BY <1>2, <1>3 DEF Offsets
  <2> QED
    BY <2>1, <1>4
<1>6. ScannedTail(f) = [index |-> f.snapIndex + n, term |-> LastTermOf(f)]
  <2>1. CASE n = 0
    <3>1. 1 .. n = {}
      BY <2>1
    <3>2. ScannedTail(f) = [index |-> f.snapIndex, term |-> f.snapTerm]
      BY <1>2, <3>1 DEF ScannedTail
    <3>3. LastTermOf(f) = f.snapTerm /\ f.snapIndex + n = f.snapIndex
      BY <2>1, <1>1 DEF LastTermOf, n
    <3> QED
      BY <3>2, <3>3
  <2>2. CASE n # 0
    <3>1. 1 .. n # {} /\ Highest(1 .. n) = n /\ n \in 1 .. n
      BY <1>1, <2>2, HighestOfRange
    <3>2. ScannedTail(f) = [index |-> f.records[n].index, term |-> f.records[n].entry.term]
      BY <1>2, <3>1 DEF ScannedTail
    <3>3. LastTermOf(f) = f.records[n].entry.term /\ f.records[n].index = f.snapIndex + n
      BY <2>2, <1>1, <3>1 DEF LastTermOf, n
    <3> QED
      BY <3>2, <3>3
  <2> QED
    BY <2>1, <2>2
<1> QED
  BY <1>2, <1>5, <1>6 DEF n, EndOf

\* It caches the last record, and what it reads is the log.
LEMMA ScanIsLog ==
    ASSUME NEW f, IsFile(f)
    PROVE  /\ Cached(f) = [snapIndex |-> f.snapIndex, snapTerm |-> f.snapTerm,
                           lastIndex |-> EndOf(f), lastTerm |-> LastTermOf(f)]
           /\ AsLog(f) = LogOf(f)
<1> DEFINE n == Len(f.records)
           offs == [i \in f.snapIndex + 1 .. f.snapIndex + n |-> i - f.snapIndex]
<1>1. n \in Nat /\ f.snapIndex \in Nat
  BY LenProperties DEF IsFile, FileType
<1>2. /\ Offsets(f) = offs
      /\ ScannedTail(f) = [index |-> f.snapIndex + n, term |-> LastTermOf(f)]
  BY ScanReadsAll DEF EndOf
<1> HIDE DEF n, offs
<1>3. ASSUME NEW k \in 1 .. n
      PROVE  f.snapIndex + k \in DOMAIN offs /\ offs[f.snapIndex + k] = k
  BY <1>1 DEF offs
<1>4. f.snapIndex + n - f.snapIndex = n
  BY <1>1
<1>5. AsLog(f) =
        [snapIndex |-> f.snapIndex, snapTerm |-> f.snapTerm,
         entries |-> [k \in 1 .. n |->
            IF f.snapIndex + k \in DOMAIN offs THEN f.records[offs[f.snapIndex + k]].entry ELSE Hole],
         lastTerm |-> LastTermOf(f)]
  <2>1. ScannedTail(f).index - f.snapIndex = n /\ ScannedTail(f).term = LastTermOf(f)
    <3>1. ScannedTail(f).index = f.snapIndex + n
      BY <1>2
    <3>2. ScannedTail(f).term = LastTermOf(f)
      BY <1>2
    <3>3. ScannedTail(f).index - f.snapIndex = n
      BY <3>1, <1>1
    <3> QED
      BY <3>2, <3>3
  <2>2. AsLog(f) =
          [snapIndex |-> f.snapIndex, snapTerm |-> f.snapTerm,
           entries |-> [k \in 1 .. ScannedTail(f).index - f.snapIndex |->
              IF f.snapIndex + k \in DOMAIN Offsets(f)
              THEN f.records[Offsets(f)[f.snapIndex + k]].entry ELSE Hole],
           lastTerm |-> ScannedTail(f).term]
    BY Zenon DEF AsLog
  <2>3. Offsets(f) = offs
    BY <1>2
  <2> QED
    BY <2>1, <2>2, <2>3, Zenon
<1>6. AsLog(f) = LogOf(f)
  BY <1>3, <1>5 DEF LogOf, n
<1> QED
  BY <1>2, <1>6 DEF Cached, EndOf, n

-----------------------------------------------------------------------------
(* What each operation makes of a file, and of the log in it. *)

LEMMA FileFacts ==
    ASSUME NEW f, IsFile(f)
    PROVE  /\ f.records \in Seq(IndexedEntry) /\ Len(f.records) \in Nat
           /\ f.snapIndex \in Nat /\ EndOf(f) \in Nat
           /\ f.snapTerm \in Term \cup {0}
           /\ \A k \in 1 .. Len(f.records) :
                 f.records[k] \in IndexedEntry /\ f.records[k].index = f.snapIndex + k
           /\ f = [header |-> f.header, snapIndex |-> f.snapIndex, snapTerm |-> f.snapTerm,
                   records |-> f.records, tear |-> f.tear]
<1>1. f \in FileType /\ \A k \in 1 .. Len(f.records) : f.records[k].index = f.snapIndex + k
  BY DEF IsFile
<1>2. f.records \in Seq(IndexedEntry) /\ f.snapIndex \in Nat /\ f.snapTerm \in Term \cup {0}
  BY <1>1 DEF FileType
<1>3. Len(f.records) \in Nat /\ EndOf(f) \in Nat
  BY <1>2, LenProperties DEF EndOf
<1>4. \A k \in 1 .. Len(f.records) : f.records[k] \in IndexedEntry
  BY <1>2, ElementOfSeq
<1>5. f = [header |-> f.header, snapIndex |-> f.snapIndex, snapTerm |-> f.snapTerm,
           records |-> f.records, tear |-> f.tear]
  BY <1>1 DEF FileType
<1> QED
  BY <1>1, <1>2, <1>3, <1>4, <1>5

\* The file with more records, or with records of which the next was torn.
Appended(f, rs, tear) ==
    [header |-> "ok", snapIndex |-> f.snapIndex, snapTerm |-> f.snapTerm,
     records |-> f.records \o rs, tear |-> tear]

EntriesOf(rs) == [k \in 1 .. Len(rs) |-> rs[k].entry]

LEMMA EntriesOfRecords ==
    ASSUME NEW rs \in Seq(IndexedEntry)
    PROVE  /\ EntriesOf(rs) \in Seq(LogEntry) /\ Len(EntriesOf(rs)) = Len(rs)
           /\ \A k \in 1 .. Len(rs) : EntriesOf(rs)[k] = rs[k].entry
<1>1. Len(rs) \in Nat
  BY LenProperties
<1>2. ASSUME NEW k \in 1 .. Len(rs)
      PROVE  rs[k].entry \in LogEntry
  <2>1. rs[k] \in IndexedEntry
    BY ElementOfSeq
  <2> QED
    BY <2>1 DEF IndexedEntry
<1> QED
  BY <1>1, <1>2 DEF EntriesOf

LEMMA ConcatParts ==
    ASSUME NEW S, NEW s \in Seq(S), NEW t \in Seq(S)
    PROVE  /\ s \o t \in Seq(S) /\ Len(s \o t) = Len(s) + Len(t)
           /\ \A k \in 1 .. Len(s) : (s \o t)[k] = s[k]
           /\ \A k \in 1 .. Len(t) : (s \o t)[Len(s) + k] = t[k]
<1>1. Len(s) \in Nat /\ Len(t) \in Nat
  BY LenProperties
<1>2. \A i \in 1 .. Len(s) + Len(t) : (s \o t)[i] = IF i <= Len(s) THEN s[i] ELSE t[i - Len(s)]
  BY ConcatProperties
<1>3. s \o t \in Seq(S) /\ Len(s \o t) = Len(s) + Len(t)
  BY ConcatProperties
<1>4. ASSUME NEW k \in 1 .. Len(s)
      PROVE  (s \o t)[k] = s[k]
  <2>1. k \in 1 .. Len(s) + Len(t) /\ k <= Len(s)
    BY <1>1
  <2> QED
    BY <2>1, <1>2
<1>5. ASSUME NEW k \in 1 .. Len(t)
      PROVE  (s \o t)[Len(s) + k] = t[k]
  <2> DEFINE i == Len(s) + k
  <2>1. i \in 1 .. Len(s) + Len(t) /\ ~(i <= Len(s)) /\ i - Len(s) = k
    BY <1>1
  <2> HIDE DEF i
  <2>2. (s \o t)[i] = t[i - Len(s)]
    BY <2>1, <1>2
  <2> QED
    BY <2>1, <2>2 DEF i
<1> QED
  BY <1>3, <1>4, <1>5

\* Records that continue a file keep its shape, and extend its log.
LEMMA AppendedFile ==
    ASSUME NEW f, IsFile(f), NEW rs \in Seq(IndexedEntry),
           \A k \in 1 .. Len(rs) : rs[k].index = EndOf(f) + k,
           NEW tear \in {0, Len(f.records) + Len(rs) + 1}
    PROVE  /\ IsFile(Appended(f, rs, tear))
           /\ EndOf(Appended(f, rs, tear)) = EndOf(f) + Len(rs)
           /\ \A k \in 1 .. Len(f.records) : Appended(f, rs, tear).records[k] = f.records[k]
           /\ \A k \in 1 .. Len(rs) : Appended(f, rs, tear).records[Len(f.records) + k] = rs[k]
           /\ LastTermOf(Appended(f, rs, tear)) =
                 IF Len(rs) = 0 THEN LastTermOf(f) ELSE rs[Len(rs)].entry.term
           /\ LogOf(Appended(f, rs, tear)) = AppendEntries(LogOf(f), EntriesOf(rs))
<1> DEFINE g == Appended(f, rs, tear)
           all == f.records \o rs
           m == Len(f.records)
           n == Len(rs)
<1>1. /\ f.records \in Seq(IndexedEntry) /\ m \in Nat /\ f.snapIndex \in Nat
      /\ f.snapTerm \in Term \cup {0}
      /\ \A k \in 1 .. m : f.records[k].index = f.snapIndex + k
  BY FileFacts
<1>2. n \in Nat
  BY LenProperties
<1>3. all \in Seq(IndexedEntry) /\ Len(all) = m + n
  BY <1>1, ConcatProperties
<1>4. \A k \in 1 .. m + n : all[k] = IF k <= m THEN f.records[k] ELSE rs[k - m]
  BY <1>1, ConcatProperties
<1>5. /\ g.records = all /\ g.snapIndex = f.snapIndex /\ g.snapTerm = f.snapTerm
      /\ g.tear = tear /\ g.header = "ok"
      /\ g = [header |-> "ok", snapIndex |-> f.snapIndex, snapTerm |-> f.snapTerm,
              records |-> all, tear |-> tear]
  BY DEF Appended
<1>6. EndOf(f) = f.snapIndex + m
  BY DEF EndOf
<1>7. \A k \in 1 .. n : all[m + k] = rs[k]
  BY SMTT(30), <1>1, ConcatParts
<1>8. \A k \in 1 .. m : all[k] = f.records[k]
  BY <1>1, ConcatParts
<1> HIDE DEF g, all, m, n
<1>9. \A k \in 1 .. m + n : all[k].index = f.snapIndex + k
  <2> SUFFICES ASSUME NEW k \in 1 .. m + n
               PROVE  all[k].index = f.snapIndex + k
    OBVIOUS
  <2>1. CASE k <= m
    <3>1. k \in 1 .. m
      BY <2>1, <1>1, <1>2
    <3> QED
      BY <3>1, <1>1, <1>8
  <2>2. CASE ~(k <= m)
    <3>1. k - m \in 1 .. n /\ EndOf(f) + (k - m) = f.snapIndex + k
      BY <2>2, <1>1, <1>2, <1>6
    <3>2. all[k] = rs[k - m]
      BY <2>2, <1>4
    <3> QED
      BY <3>1, <3>2 DEF n
  <2> QED
    BY <2>1, <2>2
<1>10. IsFile(g)
  <2>1. tear \in {0, m + n + 1} /\ tear \in Nat
    BY <1>1, <1>2 DEF m, n
  <2>2. g \in FileType
    BY <1>1, <1>3, <1>5, <2>1 DEF FileType
  <2>3. g.tear \in {0, Len(g.records) + 1}
    BY <1>3, <1>5, <2>1
  <2>4. \A k \in 1 .. Len(g.records) : g.records[k].index = g.snapIndex + k
    BY <1>3, <1>5, <1>9
  <2> QED
    BY <2>2, <2>3, <2>4, <1>5 DEF IsFile
<1>11. EndOf(g) = EndOf(f) + n
  <2>1. EndOf(g) = f.snapIndex + (m + n)
    BY <1>3, <1>5 DEF EndOf
  <2> QED
    BY <2>1, <1>1, <1>2, <1>6
<1>12. LastTermOf(g) = IF n = 0 THEN LastTermOf(f) ELSE rs[n].entry.term
  <2>1. CASE n = 0
    <3>1. m + n = m
      BY <2>1, <1>1
    <3>2. m # 0 => all[m] = f.records[m]
      BY <1>1, <1>8
    <3> QED
      BY <2>1, <3>1, <3>2, <1>3, <1>5 DEF LastTermOf, m
  <2>2. CASE n # 0
    <3>1. n \in 1 .. n /\ m + n # 0
      BY <2>2, <1>1, <1>2
    <3> QED
      BY <2>2, <3>1, <1>3, <1>5, <1>7 DEF LastTermOf
  <2> QED
    BY <2>1, <2>2
<1>13. LogOf(g) = AppendEntries(LogOf(f), EntriesOf(rs))
  <2> DEFINE new == EntriesOf(rs)
             old == EntriesOf(f.records)
  <2>1. new \in Seq(LogEntry) /\ Len(new) = n /\ \A k \in 1 .. n : new[k] = rs[k].entry
    BY EntriesOfRecords DEF n
  <2>2. old \in Seq(LogEntry) /\ Len(old) = m /\ \A k \in 1 .. m : old[k] = f.records[k].entry
    BY <1>1, EntriesOfRecords DEF m
  <2> HIDE DEF old, new
  <2> DEFINE both == old \o new
  <2>3. /\ both \in Seq(LogEntry) /\ Len(both) = m + n
        /\ \A k \in 1 .. m + n : both[k] = IF k <= m THEN old[k] ELSE new[k - m]
    BY ZenonT(60), <2>1, <2>2, ConcatProperties
  <2> DEFINE entries == [k \in 1 .. m + n |-> all[k].entry]
  <2>4. ASSUME NEW k \in 1 .. m + n
        PROVE  both[k] = all[k].entry
    <3>1. CASE k <= m
      <4>1. k \in 1 .. m
        BY <3>1, <1>1, <1>2
      <4> QED
        BY <3>1, <4>1, <1>8, <2>2, <2>3
    <3>2. CASE ~(k <= m)
      <4>1. k - m \in 1 .. n
        BY <3>2, <1>1, <1>2
      <4> QED
        BY <3>2, <4>1, <1>4, <2>1, <2>3
    <3> QED
      BY <3>1, <3>2
  <2> HIDE DEF both
  <2>5. both = entries
    <3>1. both \in Seq(LogEntry) /\ Len(both) = m + n
      BY <2>3
    <3>2. both \in [1 .. m + n -> LogEntry]
      BY <3>1, LenProperties
    <3>3. both = [k \in 1 .. m + n |-> both[k]]
      BY <3>2
    <3> QED
      BY <3>3, <2>4
  <2> HIDE DEF entries
  <2>6. LogOf(f) = [snapIndex |-> f.snapIndex, snapTerm |-> f.snapTerm, entries |-> old,
                    lastTerm |-> LastTermOf(f)]
    BY DEF LogOf, EntriesOf, old
  <2>7. LogOf(g) = [snapIndex |-> f.snapIndex, snapTerm |-> f.snapTerm, entries |-> both,
                    lastTerm |-> LastTermOf(g)]
    BY <2>5, <1>3, <1>5 DEF LogOf, entries
  <2>8. CASE n = 0
    <3>1. new = <<>>
      BY <2>8, <2>1, EmptySeq
    <3>2. both = old
      BY <3>1, <2>2, ConcatEmptySeq DEF both
    <3> QED
      BY <3>1, <3>2, <2>6, <2>7, <2>8, <1>12 DEF AppendEntries, new
  <2>9. CASE n # 0
    <3>1. new # <<>> /\ new[Len(new)].term = rs[n].entry.term
      <4>1. n \in 1 .. n
        BY <2>9, <1>2
      <4> QED
        BY <4>1, <2>1, <2>9, EmptySeq
    <3> DEFINE l == LogOf(f)
    <3>2. l = [snapIndex |-> f.snapIndex, snapTerm |-> f.snapTerm, entries |-> old,
               lastTerm |-> LastTermOf(f)]
      BY <2>6
    <3> HIDE DEF l
    <3>3. AppendEntries(l, new) =
            [snapIndex |-> f.snapIndex, snapTerm |-> f.snapTerm, entries |-> old \o new,
             lastTerm |-> new[Len(new)].term]
      BY <3>1, <3>2 DEF AppendEntries
    <3>4. AppendEntries(l, new) =
            [snapIndex |-> f.snapIndex, snapTerm |-> f.snapTerm, entries |-> both,
             lastTerm |-> new[Len(new)].term]
      BY <3>3, Zenon DEF both
    <3> QED
      BY <3>1, <3>4, <2>7, <2>9, <1>12 DEF new, l
  <2> QED
    BY <2>8, <2>9
<1> QED
  BY <1>5, <1>8, <1>7, <1>10, <1>11, <1>12, <1>13 DEF g, m, n

\* The part of a sequence from position m on, or up to position n.
LEMMA PartOfSeq ==
    ASSUME NEW S, NEW s \in Seq(S), NEW m \in Nat \ {0}, NEW n \in Nat, n <= Len(s), m <= n + 1
    PROVE  /\ SubSeq(s, m, n) \in Seq(S) /\ Len(SubSeq(s, m, n)) = n - m + 1
           /\ \A k \in 1 .. n - m + 1 : SubSeq(s, m, n)[k] = s[m + k - 1]
<1>1. Len(s) \in Nat /\ m \in Int /\ n \in Int
  BY LenProperties
<1>2. ASSUME NEW i \in m .. n
      PROVE  s[i] \in S
  <2>1. i \in 1 .. Len(s)
    BY <1>1
  <2> QED
    BY <2>1, ElementOfSeq
<1> DEFINE piece == SubSeq(s, m, n)
<1>3. /\ piece \in Seq(S) /\ Len(piece) = IF m <= n THEN n - m + 1 ELSE 0
      /\ \A k \in 1 .. n - m + 1 : piece[k] = s[m + k - 1]
  BY <1>1, <1>2, SubSeqProperties
<1> HIDE DEF piece
<1>4. Len(piece) = n - m + 1
  BY <1>1, <1>3
<1> QED
  BY <1>3, <1>4 DEF piece

\* The entries of a part of the records are that part of the entries.
LEMMA PartOfEntries ==
    ASSUME NEW rs \in Seq(IndexedEntry), NEW m \in Nat \ {0}, NEW n \in Nat,
           n <= Len(rs), m <= n + 1
    PROVE  EntriesOf(SubSeq(rs, m, n)) = SubSeq(EntriesOf(rs), m, n)
<1> DEFINE piece == SubSeq(rs, m, n)
           es == EntriesOf(rs)
           kept == SubSeq(es, m, n)
           l == n - m + 1
<1>1. piece \in Seq(IndexedEntry) /\ Len(piece) = l /\ \A k \in 1 .. l : piece[k] = rs[m + k - 1]
  BY PartOfSeq
<1>2. es \in Seq(LogEntry) /\ Len(es) = Len(rs) /\ \A k \in 1 .. Len(rs) : es[k] = rs[k].entry
  BY EntriesOfRecords
<1>3. Len(rs) \in Nat
  BY LenProperties
<1> HIDE DEF es
<1>4. kept \in Seq(LogEntry) /\ Len(kept) = l /\ \A k \in 1 .. l : kept[k] = es[m + k - 1]
  BY <1>2, PartOfSeq
<1>5. EntriesOf(piece) \in Seq(LogEntry) /\ Len(EntriesOf(piece)) = l
      /\ \A k \in 1 .. l : EntriesOf(piece)[k] = piece[k].entry
  BY <1>1, EntriesOfRecords
<1> HIDE DEF piece, kept
<1>6. ASSUME NEW k \in 1 .. l
      PROVE  EntriesOf(piece)[k] = kept[k]
  <2>1. m + k - 1 \in 1 .. Len(rs)
    BY <1>3
  <2>2. es[m + k - 1] = rs[m + k - 1].entry
    BY <2>1, <1>2
  <2> QED
    BY <2>2, <1>1, <1>4, <1>5
<1> HIDE DEF l
<1>7. EntriesOf(piece) = kept
  BY <1>4, <1>5, <1>6, SeqEqual
<1> QED
  BY <1>7 DEF piece, kept, es

\* The file with its first n records.
Cut(f, n) ==
    [header |-> f.header, snapIndex |-> f.snapIndex, snapTerm |-> f.snapTerm,
     records |-> SubSeq(f.records, 1, n), tear |-> f.tear]

\* Cutting a file at an index keeps its shape, and truncates its log there.
LEMMA CutFile ==
    ASSUME NEW f, IsFile(f), f.header = "ok", f.tear = 0,
           NEW i \in f.snapIndex + 1 .. EndOf(f)
    PROVE  LET g == Cut(f, i - f.snapIndex - 1) IN
           /\ IsFile(g)
           /\ EndOf(g) = i - 1
           /\ \A k \in 1 .. i - f.snapIndex - 1 : g.records[k] = f.records[k]
           /\ LastTermOf(g) = IF i - 1 = f.snapIndex THEN f.snapTerm
                              ELSE f.records[i - 1 - f.snapIndex].entry.term
           /\ LogOf(g) = DeleteEntriesFrom(LogOf(f), i)
<1> DEFINE n == i - f.snapIndex - 1
           g == Cut(f, n)
           kept == SubSeq(f.records, 1, n)
<1>1. /\ f.records \in Seq(IndexedEntry) /\ Len(f.records) \in Nat /\ f.snapIndex \in Nat
      /\ f.snapTerm \in Term \cup {0} /\ EndOf(f) \in Nat
  BY FileFacts
<1>2. \A k \in 1 .. Len(f.records) : f.records[k].index = f.snapIndex + k
  BY FileFacts
<1>3. n \in Nat /\ n < Len(f.records) /\ i = f.snapIndex + n + 1 /\ i - 1 = f.snapIndex + n
  BY SMTT(20), <1>1 DEF EndOf
<1>4. i - 1 - f.snapIndex = n
  BY <1>1
<1>5. i - 1 = f.snapIndex <=> n = 0
  BY <1>1
<1> HIDE DEF n
<1>6. kept \in Seq(IndexedEntry) /\ Len(kept) = n /\ \A k \in 1 .. n : kept[k] = f.records[k]
  <2>1. Len(kept) = n - 1 + 1 /\ \A k \in 1 .. n - 1 + 1 : kept[k] = f.records[1 + k - 1]
    BY <1>1, <1>3, PartOfSeq
  <2>2. n - 1 + 1 = n /\ \A k \in 1 .. n : 1 + k - 1 = k
    BY <1>3
  <2>3. kept \in Seq(IndexedEntry)
    BY <1>1, <1>3, PartOfSeq
  <2> QED
    BY <2>1, <2>2, <2>3
<1>7. /\ g.records = kept /\ g.snapIndex = f.snapIndex /\ g.snapTerm = f.snapTerm
      /\ g.tear = 0 /\ g.header = "ok"
      /\ g = [header |-> "ok", snapIndex |-> f.snapIndex, snapTerm |-> f.snapTerm,
              records |-> kept, tear |-> 0]
  BY DEF Cut
<1>8. EntriesOf(kept) = SubSeq(EntriesOf(f.records), 1, n)
  BY SMTT(30), <1>1, <1>3, PartOfEntries
<1> HIDE DEF g, kept
<1>9. IsFile(g)
  <2>1. g \in FileType
    BY <1>1, <1>6, <1>7 DEF FileType
  <2>2. \A k \in 1 .. Len(g.records) : g.records[k].index = g.snapIndex + k
    <3>1. ASSUME NEW k \in 1 .. n
          PROVE  kept[k].index = f.snapIndex + k
      <4>1. k \in 1 .. Len(f.records)
        BY <1>1, <1>3
      <4> QED
        BY <4>1, <1>2, <1>6
    <3> QED
      BY <3>1, <1>6, <1>7
  <2> QED
    BY <2>1, <2>2, <1>7 DEF IsFile
<1>10. EndOf(g) = i - 1
  BY <1>3, <1>6, <1>7 DEF EndOf
<1>11. LastTermOf(g) = IF n = 0 THEN f.snapTerm ELSE f.records[n].entry.term
  <2>1. n # 0 => kept[n] = f.records[n]
    BY <1>3, <1>6
  <2> QED
    BY <2>1, <1>6, <1>7 DEF LastTermOf
<1>12. LogOf(g) = DeleteEntriesFrom(LogOf(f), i)
  <2> DEFINE es == EntriesOf(f.records)
             piece == SubSeq(es, 1, n)
             l == LogOf(f)
  <2>1. /\ es \in Seq(LogEntry) /\ Len(es) = Len(f.records)
        /\ \A k \in 1 .. Len(f.records) : es[k] = f.records[k].entry
    BY <1>1, EntriesOfRecords
  <2>2. l = [snapIndex |-> f.snapIndex, snapTerm |-> f.snapTerm, entries |-> es,
             lastTerm |-> LastTermOf(f)]
    BY DEF LogOf, EntriesOf
  <2>3. LogOf(g) = [snapIndex |-> f.snapIndex, snapTerm |-> f.snapTerm, entries |-> piece,
                    lastTerm |-> LastTermOf(g)]
    BY <1>7, <1>8 DEF LogOf, EntriesOf
  <2>4. piece \in Seq(LogEntry) /\ Len(piece) = n
    BY <1>6, <1>8, EntriesOfRecords
  <2>5. n # 0 => piece[n] = f.records[n].entry
    <3>1. ASSUME n # 0
          PROVE  n \in 1 .. n
      BY <3>1, <1>3
    <3> QED
      BY <3>1, <1>6, <1>8, EntriesOfRecords
  <2>6. piece = <<>> <=> n = 0
    BY <2>4, EmptySeq
  <2> HIDE DEF l, es
  <2>7. i - 1 - l.snapIndex = n /\ l.entries = es
    BY <1>4, <2>2
  <2> DEFINE p == piece
  <2> HIDE DEF piece
  <2>8. DeleteEntriesFrom(l, i) =
          [l EXCEPT !.entries = piece,
                    !.lastTerm = IF piece = <<>> THEN l.snapTerm ELSE piece[Len(piece)].term]
    BY <2>7 DEF DeleteEntriesFrom, piece
  <2> DEFINE last == IF piece = <<>> THEN l.snapTerm ELSE piece[Len(piece)].term
  <2>9. last = LastTermOf(g)
    BY <1>11, <2>2, <2>4, <2>5, <2>6
  <2>10. DeleteEntriesFrom(l, i) = [l EXCEPT !.entries = piece, !.lastTerm = last]
    BY <2>8
  <2> HIDE DEF last
  <2>11. DeleteEntriesFrom(l, i) =
          [snapIndex |-> f.snapIndex, snapTerm |-> f.snapTerm, entries |-> piece,
           lastTerm |-> last]
    BY <2>2, <2>10
  <2> QED
    BY <2>3, <2>9, <2>11 DEF l
<1>13. g = Cut(f, i - f.snapIndex - 1) /\ n = i - f.snapIndex - 1
  BY DEF g, n
<1> QED
  BY <1>4, <1>5, <1>6, <1>7, <1>9, <1>10, <1>11, <1>12, <1>13

\* Compaction up to an index keeps the shape, the end and the term of what follows,
\* and discards a prefix.
LEMMA CompactedFile ==
    ASSUME NEW f, IsFile(f), NEW i \in f.snapIndex + 1 .. EndOf(f), NEW term \in Term
    PROVE  LET g == Compacted(f, i, term) IN
           /\ IsFile(g)
           /\ EndOf(g) = EndOf(f)
           /\ \A j \in i + 1 .. EndOf(f) : g.records[j - i] = f.records[j - f.snapIndex]
           /\ LastTermOf(g) = IF i = EndOf(f) THEN term ELSE LastTermOf(f)
           /\ LogOf(g) = Reload(DiscardEntriesUpTo(LogOf(f), i, term))
<1> DEFINE n == i - f.snapIndex
           g == Compacted(f, i, term)
           m == Len(f.records)
           kept == SubSeq(f.records, n + 1, m)
<1>1. /\ f.records \in Seq(IndexedEntry) /\ m \in Nat /\ f.snapIndex \in Nat
      /\ f.snapTerm \in Term \cup {0} /\ EndOf(f) \in Nat
  BY FileFacts
<1>2. \A k \in 1 .. m : f.records[k].index = f.snapIndex + k
  BY FileFacts
<1>3. EndOf(f) = f.snapIndex + m
  BY DEF EndOf
<1>4. n \in 1 .. m /\ n \in Nat /\ i = f.snapIndex + n /\ i \in Nat /\ i # f.snapIndex /\ i > f.snapIndex
  BY <1>1, <1>3
<1>6. /\ g.records = kept /\ g.snapIndex = i /\ g.snapTerm = term
      /\ g.tear = 0 /\ g.header = "ok"
      /\ g = [header |-> "ok", snapIndex |-> i, snapTerm |-> term, records |-> kept, tear |-> 0]
  BY DEF Compacted, File
<1> HIDE DEF n, m
<1>7. kept \in Seq(IndexedEntry) /\ Len(kept) = m - n /\ \A k \in 1 .. m - n : kept[k] = f.records[n + k]
  <2>1. n + 1 \in Nat \ {0} /\ m <= m /\ n + 1 <= m + 1
    BY SMTT(30), <1>1, <1>4
  <2>2. kept \in Seq(IndexedEntry)
    BY <2>1, <1>1, PartOfSeq DEF m
  <2>3. Len(kept) = m - (n + 1) + 1
    BY <2>1, <1>1, PartOfSeq DEF m
  <2>4. \A k \in 1 .. m - (n + 1) + 1 : kept[k] = f.records[n + 1 + k - 1]
    BY <2>1, <1>1, PartOfSeq DEF m
  <2>5. m - (n + 1) + 1 = m - n /\ \A k \in 1 .. m - n : n + 1 + k - 1 = n + k
    BY <1>1, <1>4
  <2> QED
    BY <2>2, <2>3, <2>4, <2>5
<1>8. EntriesOf(kept) = SubSeq(EntriesOf(f.records), n + 1, m)
  <2>1. n + 1 \in Nat \ {0} /\ m <= m /\ n + 1 <= m + 1
    BY <1>1, <1>4
  <2> QED
    BY <2>1, <1>1, PartOfEntries DEF m
<1> HIDE DEF g, kept
<1>9. IsFile(g)
  <2>1. g \in FileType
    BY <1>4, <1>6, <1>7 DEF FileType
  <2>2. \A k \in 1 .. Len(g.records) : g.records[k].index = g.snapIndex + k
    <3>1. ASSUME NEW k \in 1 .. m - n
          PROVE  kept[k].index = i + k
      <4>1. n + k \in 1 .. m /\ f.snapIndex + (n + k) = i + k
        BY <1>1, <1>4
      <4>2. f.records[n + k].index = f.snapIndex + (n + k)
        BY <4>1, <1>2
      <4> QED
        BY <4>1, <4>2, <1>7
    <3> QED
      BY <3>1, <1>6, <1>7
  <2> QED
    BY <2>1, <2>2, <1>6 DEF IsFile
<1>10. EndOf(g) = EndOf(f)
  <2>1. EndOf(g) = i + (m - n)
    BY <1>6, <1>7 DEF EndOf
  <2> QED
    BY <2>1, <1>1, <1>3, <1>4
<1>11. ASSUME NEW j \in i + 1 .. EndOf(f)
       PROVE  g.records[j - i] = f.records[j - f.snapIndex]
  <2>1. j - i \in 1 .. m - n /\ n + (j - i) = j - f.snapIndex
    BY SMTT(20), <1>1, <1>3, <1>4
  <2>2. kept[j - i] = f.records[n + (j - i)]
    BY <2>1, <1>7
  <2> QED
    BY <2>1, <2>2, <1>6
<1>12. LastTermOf(g) = IF i = EndOf(f) THEN term ELSE LastTermOf(f)
  <2>1. CASE m = n
    <3>1. m - n = 0 /\ i = EndOf(f)
      BY <2>1, <1>1, <1>3, <1>4
    <3> QED
      BY <3>1, <1>6, <1>7 DEF LastTermOf
  <2>2. CASE m # n
    <3>1. m # 0 /\ m - n # 0 /\ m - n \in 1 .. m - n /\ n + (m - n) = m /\ i # EndOf(f)
      BY <2>2, <1>1, <1>3, <1>4
    <3>2. kept[m - n] = f.records[m]
      BY <3>1, <1>7
    <3>3. LastTermOf(g) = kept[m - n].entry.term
      BY <3>1, <1>6, <1>7 DEF LastTermOf
    <3>4. LastTermOf(f) = f.records[m].entry.term
      BY <3>1 DEF LastTermOf, m
    <3> QED
      BY <3>1, <3>2, <3>3, <3>4
  <2> QED
    BY <2>1, <2>2
<1>13. LogOf(g) = Reload(DiscardEntriesUpTo(LogOf(f), i, term))
  <2> DEFINE es == EntriesOf(f.records)
             piece == SubSeq(es, n + 1, m)
             l == LogOf(f)
             d == DiscardEntriesUpTo(l, i, term)
             last == IF piece = <<>> THEN term ELSE piece[Len(piece)].term
  <2>1. /\ es \in Seq(LogEntry) /\ Len(es) = m /\ \A k \in 1 .. m : es[k] = f.records[k].entry
    BY <1>1, EntriesOfRecords DEF m
  <2>2. l = [snapIndex |-> f.snapIndex, snapTerm |-> f.snapTerm, entries |-> es,
             lastTerm |-> LastTermOf(f)]
    BY DEF LogOf, EntriesOf
  <2>3. LogOf(g) = [snapIndex |-> i, snapTerm |-> term, entries |-> piece,
                    lastTerm |-> LastTermOf(g)]
    BY <1>6, <1>8 DEF LogOf, EntriesOf
  <2>4. piece = EntriesOf(kept) /\ Len(piece) = m - n /\ \A k \in 1 .. m - n : piece[k] = kept[k].entry
    BY <1>7, <1>8, EntriesOfRecords
  <2> HIDE DEF l, es, piece
  <2>5. l.snapIndex = f.snapIndex /\ l.entries = es
    BY <2>2
  <2>6. ~(i <= l.snapIndex) /\ i - l.snapIndex + 1 = n + 1
    BY <2>5, <1>1, <1>4
  <2>7. d = [l EXCEPT !.snapIndex = i, !.snapTerm = term,
                      !.entries = SubSeq(@, i - l.snapIndex + 1, Len(@))]
    BY <2>6 DEF DiscardEntriesUpTo
  <2>8. d = [l EXCEPT !.snapIndex = i, !.snapTerm = term, !.entries = piece]
    BY <2>1, <2>5, <2>6, <2>7 DEF piece
  <2>9. d = [snapIndex |-> i, snapTerm |-> term, entries |-> piece, lastTerm |-> LastTermOf(f)]
    BY <2>2, <2>8
  <2> HIDE DEF d
  <2>10. Reload(d) = [d EXCEPT !.lastTerm = last]
    BY <2>9 DEF Reload
  <2> HIDE DEF last
  <2>11. Reload(d) = [snapIndex |-> i, snapTerm |-> term, entries |-> piece, lastTerm |-> last]
    BY <2>9, <2>10
  <2>12. last = LastTermOf(g)
    <3>1. CASE m - n = 0
      <4>1. piece = <<>>
        <5>1. piece \in Seq(LogEntry)
          BY <2>4, <1>7, EntriesOfRecords
        <5> QED
          BY <5>1, <2>4, <3>1, EmptySeq
      <4> QED
        BY <4>1, <3>1, <1>6, <1>7 DEF last, LastTermOf
    <3>2. CASE m - n # 0
      <4>1. piece # <<>> /\ m - n \in 1 .. m - n
        BY <3>2, <2>4, <1>1, <1>4, <1>7, EmptySeq
      <4> QED
        BY <4>1, <3>2, <2>4, <1>6, <1>7 DEF last, LastTermOf
    <3> QED
      BY <3>1, <3>2
  <2> QED
    BY <2>3, <2>11, <2>12 DEF l, d
<1> QED
  BY <1>9, <1>10, <1>11, <1>12, <1>13 DEF g

\* Resetting leaves a file with nothing but the snapshot.
LEMMA ResetFile ==
    ASSUME NEW i \in Nat, NEW t \in Term
    PROVE  LET g == File(i, t, <<>>) IN
           /\ IsFile(g)
           /\ EndOf(g) = i
           /\ LastTermOf(g) = t
           /\ LogOf(g) = ResetToSnapshot(i, t)
<1> DEFINE g == File(i, t, <<>>)
<1>1. <<>> \in Seq(IndexedEntry) /\ Len(<<>>) = 0
  BY EmptySeq
<1>2. /\ g.records = <<>> /\ g.snapIndex = i /\ g.snapTerm = t /\ g.tear = 0 /\ g.header = "ok"
      /\ g = [header |-> "ok", snapIndex |-> i, snapTerm |-> t, records |-> <<>>, tear |-> 0]
  BY DEF File
<1> HIDE DEF g
<1>3. IsFile(g)
  <2>1. g \in FileType
    BY <1>1, <1>2 DEF FileType
  <2> QED
    BY <2>1, <1>1, <1>2 DEF IsFile
<1>4. EndOf(g) = i /\ LastTermOf(g) = t
  BY <1>1, <1>2 DEF EndOf, LastTermOf
<1>5. [k \in 1 .. Len(g.records) |-> g.records[k].entry] = <<>>
  BY <1>1, <1>2
<1>6. LogOf(g) = ResetToSnapshot(i, t)
  BY <1>2, <1>4, <1>5 DEF LogOf, ResetToSnapshot
<1> QED
  BY <1>3, <1>4, <1>6 DEF g

\* A file that is not there, or whose header is torn, is an empty log.
LEMMA NoFileIsEmpty ==
    ASSUME NEW f \in {NoFile, TornFile}
    PROVE  IsFile(f) /\ EndOf(f) = 0 /\ f.snapIndex = 0 /\ f.records = <<>> /\ LogOf(f) = EmptyLog
<1>1. <<>> \in Seq(IndexedEntry) /\ Len(<<>>) = 0
  BY EmptySeq
<1>2. /\ f.records = <<>> /\ f.snapIndex = 0 /\ f.snapTerm = 0 /\ f.tear = 0
      /\ f.header \in {"none", "torn"}
      /\ f = [header |-> f.header, snapIndex |-> 0, snapTerm |-> 0, records |-> <<>>, tear |-> 0]
  BY DEF NoFile, TornFile
<1>3. IsFile(f)
  <2>1. f \in FileType
    <3> DEFINE header == f.header
    <3> HIDE DEF header
    <3>1. header \in {"none", "torn", "ok"}
      BY <1>2 DEF header
    <3>2. f = [header |-> header, snapIndex |-> 0, snapTerm |-> 0, records |-> <<>>, tear |-> 0]
      BY <1>2 DEF header
    <3> QED
      BY <1>1, <3>1, <3>2 DEF FileType
  <2> QED
    BY <2>1, <1>1, <1>2 DEF IsFile, NoFile, TornFile
<1>4. EndOf(f) = 0 /\ LastTermOf(f) = 0
  BY <1>1, <1>2 DEF EndOf, LastTermOf
<1>5. [k \in 1 .. Len(f.records) |-> f.records[k].entry] = <<>>
  BY <1>1, <1>2
<1>6. LogOf(f) = EmptyLog
  BY <1>2, <1>4, <1>5 DEF LogOf, EmptyLog
<1> QED
  BY <1>2, <1>3, <1>4, <1>6

-----------------------------------------------------------------------------
(* The operations, where the memory is that of the file. *)

LEMMA SyncedFacts ==
    ASSUME Synced
    PROVE  /\ cached = [snapIndex |-> wal.snapIndex, snapTerm |-> wal.snapTerm,
                        lastIndex |-> EndOf(wal), lastTerm |-> cached.lastTerm]
           /\ ~displaced => cached.lastTerm = LastTermOf(wal)
           /\ displaced => wal.snapIndex = EndOf(wal)
           /\ offsets = [i \in wal.snapIndex + 1 .. EndOf(wal) |-> i - wal.snapIndex]
           /\ wal.snapIndex \in Nat /\ EndOf(wal) \in Nat /\ wal.snapIndex <= EndOf(wal)
<1>1. wal.snapIndex \in Nat /\ EndOf(wal) \in Nat /\ Len(wal.records) \in Nat
  BY FileFacts DEF Synced
<1>2. wal.snapIndex <= EndOf(wal)
  BY <1>1 DEF EndOf
<1>3. Cached(wal) = [snapIndex |-> wal.snapIndex, snapTerm |-> wal.snapTerm,
                     lastIndex |-> EndOf(wal), lastTerm |-> LastTermOf(wal)]
  BY ScanIsLog DEF Synced
<1>4. cached = IF displaced THEN [Cached(wal) EXCEPT !.lastTerm = cached.lastTerm] ELSE Cached(wal)
  BY DEF Synced, Remembered
<1>5. /\ cached = [snapIndex |-> wal.snapIndex, snapTerm |-> wal.snapTerm,
                   lastIndex |-> EndOf(wal), lastTerm |-> cached.lastTerm]
      /\ ~displaced => cached.lastTerm = LastTermOf(wal)
  BY <1>3, <1>4
<1> QED
  BY <1>1, <1>2, <1>5, ScanReadsAll DEF Synced

\* Appending writes the file, and the header of one that is not there yet.
LEMMA ExtendedIsAppended ==
    ASSUME Synced, NEW rs
    PROVE  /\ Extended(rs) = Appended(wal, rs, 0) \/ (wal = NoFile /\ Extended(rs) = File(0, 0, rs))
           /\ rs \in Seq(IndexedEntry) => Extended(rs) = Appended(wal, rs, 0)
<1>1. CASE wal.header = "none"
  <2>1. wal = NoFile
    BY <1>1 DEF Synced, IsFile
  <2>2. cached.snapIndex = 0 /\ cached.snapTerm = 0
    BY <2>1, SyncedFacts DEF NoFile
  <2>3. Extended(rs) = File(0, 0, rs)
    BY <1>1, <2>2 DEF Extended
  <2>4. ASSUME rs \in Seq(IndexedEntry)
        PROVE  <<>> \o rs = rs
    BY <2>4, ConcatEmptySeq
  <2> QED
    BY <2>1, <2>3, <2>4 DEF NoFile, File, Appended
<1>2. CASE wal.header # "none"
  <2> DEFINE all == wal.records \o rs
  <2>1. wal.header = "ok" /\ wal.tear = 0
    BY <1>2 DEF Synced, IsFile, FileType
  <2>2. wal = [header |-> "ok", snapIndex |-> wal.snapIndex, snapTerm |-> wal.snapTerm,
               records |-> wal.records, tear |-> 0]
    BY <2>1, FileFacts DEF Synced
  <2>3. Extended(rs) = [wal EXCEPT !.records = all]
    BY <1>2 DEF Extended
  <2>4. Appended(wal, rs, 0) =
          [header |-> "ok", snapIndex |-> wal.snapIndex, snapTerm |-> wal.snapTerm,
           records |-> all, tear |-> 0]
    BY DEF Appended
  <2> HIDE DEF all
  <2> QED
    BY <2>2, <2>3, <2>4
<1> QED
  BY <1>1, <1>2

LEMMA CutAtIsCut ==
    ASSUME Synced, NEW i \in wal.snapIndex + 1 .. EndOf(wal)
    PROVE  /\ CutAt(i) = Cut(wal, i - wal.snapIndex - 1)
           /\ wal.header = "ok"
<1> DEFINE n == offsets[i] - 1
           kept == SubSeq(wal.records, 1, n)
<1>1. offsets[i] = i - wal.snapIndex /\ n = i - wal.snapIndex - 1
  BY SyncedFacts
<1>2. wal = [header |-> wal.header, snapIndex |-> wal.snapIndex, snapTerm |-> wal.snapTerm,
             records |-> wal.records, tear |-> wal.tear]
  BY FileFacts DEF Synced
<1>3. CutAt(i) = [wal EXCEPT !.records = kept]
  BY DEF CutAt
<1> HIDE DEF kept
<1>4. CutAt(i) = [header |-> wal.header, snapIndex |-> wal.snapIndex, snapTerm |-> wal.snapTerm,
                  records |-> kept, tear |-> wal.tear]
  BY <1>2, <1>3
<1>5. kept = SubSeq(wal.records, 1, i - wal.snapIndex - 1)
  BY <1>1 DEF kept
<1>6. wal.header = "ok"
  <2>1. wal.header = "none" => wal = NoFile
    BY DEF Synced, IsFile
  <2>2. wal = NoFile => EndOf(wal) = 0 /\ wal.snapIndex = 0
    BY NoFileIsEmpty
  <2>3. EndOf(wal) # 0 \/ wal.snapIndex # 0
    BY SyncedFacts
  <2>4. wal.header # "torn" /\ wal.header \in {"none", "torn", "ok"}
    BY DEF Synced, IsFile, FileType
  <2> QED
    BY <2>1, <2>2, <2>3, <2>4
<1> QED
  BY <1>4, <1>5, <1>6 DEF Cut

\* What a compaction keeps is the rest of the file.
LEMMA KeptIsRest ==
    ASSUME Synced, NEW i \in wal.snapIndex + 1 .. EndOf(wal)
    PROVE  KeptRecords(i) = SubSeq(wal.records, i - wal.snapIndex + 1, Len(wal.records))
<1> DEFINE last == EndOf(wal)
           m == last - i
           kept == {j \in DOMAIN offsets : i < j /\ j <= cached.lastIndex}
           Nth(k) == CHOOSE j \in kept : Cardinality({x \in kept : x <= j}) = k
           n == i - wal.snapIndex
           rest == SubSeq(wal.records, n + 1, Len(wal.records))
<1>1. /\ wal.snapIndex \in Nat /\ last \in Nat /\ cached.lastIndex = last
      /\ offsets = [j \in wal.snapIndex + 1 .. last |-> j - wal.snapIndex]
  BY SyncedFacts
<1>2. i \in Nat /\ m \in Nat /\ n \in Nat
  BY <1>1
<1>3. kept = i + 1 .. last
  <2>1. DOMAIN offsets = wal.snapIndex + 1 .. last
    BY <1>1
  <2> QED
    BY <2>1, <1>1, <1>2
<1>4. Cardinality(kept) = m
  <2>1. Cardinality(i + 1 .. last) = IF i + 1 > last THEN 0 ELSE last - (i + 1) + 1
    <3>1. i + 1 \in Int /\ last \in Int
      BY <1>1, <1>2
    <3> HIDE DEF last
    <3> QED
      BY <3>1, FS_Interval
  <2>2. (IF i + 1 > last THEN 0 ELSE last - (i + 1) + 1) = last - i
    BY <1>1, <1>2
  <2> QED
    BY <2>1, <2>2, <1>3
<1>5. ASSUME NEW k \in 1 .. m
      PROVE  Nth(k) = i + k
  <2>1. ASSUME NEW j \in kept
        PROVE  Cardinality({x \in kept : x <= j}) = j - i
    <3>1. j \in Int /\ i + 1 <= j /\ j <= last
      BY <1>1, <1>2, <1>3
    <3>2. {x \in kept : x <= j} = i + 1 .. j
      BY <1>1, <1>2, <1>3, <3>1
    <3>3. Cardinality(i + 1 .. j) = IF i + 1 > j THEN 0 ELSE j - (i + 1) + 1
      BY <1>2, <3>1, FS_Interval
    <3>4. (IF i + 1 > j THEN 0 ELSE j - (i + 1) + 1) = j - i
      BY <1>2, <3>1
    <3> QED
      BY <3>2, <3>3, <3>4
  <2>2. i + k \in kept /\ i + k - i = k
    BY <1>1, <1>2, <1>3
  <2>3. \A j \in kept : Cardinality({x \in kept : x <= j}) = k <=> j = i + k
    <3>1. ASSUME NEW j \in kept
          PROVE  j - i = k <=> j = i + k
      BY <1>1, <1>2, <1>3
    <3> QED
      BY <2>1, <3>1
  <2> HIDE DEF kept
  <2> QED
    BY <2>2, <2>3
<1>6. KeptRecords(i) = [k \in 1 .. Cardinality(kept) |-> wal.records[offsets[Nth(k)]]]
  BY DEF KeptRecords
<1> HIDE DEF kept, Nth
<1>7. KeptRecords(i) = [k \in 1 .. m |-> wal.records[offsets[i + k]]]
  BY <1>4, <1>5, <1>6
<1>8. ASSUME NEW k \in 1 .. m
      PROVE  offsets[i + k] = n + k
  <2>1. i + k \in wal.snapIndex + 1 .. last /\ i + k - wal.snapIndex = n + k
    BY SMTT(20), <1>1, <1>2
  <2> QED
    BY <2>1, <1>1
<1>9. rest \in Seq(IndexedEntry) /\ Len(rest) = m /\ \A k \in 1 .. m : rest[k] = wal.records[n + k]
  <2> DEFINE size == Len(wal.records)
  <2>1. wal.records \in Seq(IndexedEntry) /\ size \in Nat /\ last = wal.snapIndex + size
    BY FileFacts DEF Synced, EndOf
  <2> HIDE DEF size
  <2>2. n + 1 \in Nat \ {0} /\ n + 1 <= size + 1
    BY SMTT(20), <1>1, <1>2, <2>1
  <2>3. rest \in Seq(IndexedEntry)
    BY <2>1, <2>2, PartOfSeq DEF size
  <2>4. Len(rest) = size - (n + 1) + 1
    BY <2>1, <2>2, PartOfSeq DEF size
  <2>5. \A k \in 1 .. size - (n + 1) + 1 : rest[k] = wal.records[n + 1 + k - 1]
    BY <2>1, <2>2, PartOfSeq DEF size
  <2>6. size - (n + 1) + 1 = m /\ \A k \in 1 .. m : n + 1 + k - 1 = n + k
    BY SMTT(20), <1>1, <1>2, <2>1
  <2> QED
    BY <2>3, <2>4, <2>5, <2>6
<1> HIDE DEF rest
<1>10. rest = [k \in 1 .. m |-> wal.records[n + k]]
  <2>1. rest \in [1 .. m -> IndexedEntry]
    BY <1>9, LenProperties
  <2>2. rest = [k \in 1 .. m |-> rest[k]]
    BY <2>1
  <2> QED
    BY <2>2, <1>9
<1>11. KeptRecords(i) = rest
  BY <1>7, <1>8, <1>10
<1> QED
  BY <1>11 DEF rest

\* What the file holds stays in it when records are added, when it is cut
\* behind them, and when it is compacted.
LEMMA HeldStays ==
    ASSUME NEW f, IsFile(f), NEW a \in IndexedEntry, Held(f, a)
    PROVE  /\ \A rs \in Seq(IndexedEntry) : \A tear : Held(Appended(f, rs, tear), a)
           /\ \A i \in f.snapIndex + 1 .. EndOf(f) :
                 /\ f.header = "ok" /\ f.tear = 0 /\ a.index < i => Held(Cut(f, i - f.snapIndex - 1), a)
                 /\ \A t \in Term : Held(Compacted(f, i, t), a)
<1> DEFINE n == a.index - f.snapIndex
<1>1. /\ f.records \in Seq(IndexedEntry) /\ Len(f.records) \in Nat /\ f.snapIndex \in Nat
      /\ EndOf(f) \in Nat
  BY FileFacts
<1>2. a.index \in Nat
  BY DEF IndexedEntry
<1>3. ASSUME NEW rs \in Seq(IndexedEntry), NEW tear
      PROVE  Held(Appended(f, rs, tear), a)
  <2> DEFINE g == Appended(f, rs, tear)
             all == f.records \o rs
  <2>1. g.snapIndex = f.snapIndex /\ g.records = all
    BY DEF Appended
  <2>2. Len(all) = Len(f.records) + Len(rs) /\ \A k \in 1 .. Len(f.records) : all[k] = f.records[k]
    BY <1>1, ConcatParts
  <2>3. Len(rs) \in Nat
    BY LenProperties
  <2> HIDE DEF g, all
  <2>4. EndOf(g) = f.snapIndex + (Len(f.records) + Len(rs))
    BY <2>1, <2>2 DEF EndOf
  <2>5. ASSUME a.index > f.snapIndex
        PROVE  a.index <= EndOf(g) /\ g.records[n] = a
    <3>1. a.index <= f.snapIndex + Len(f.records) /\ f.records[n] = a
      BY <2>5 DEF Held, EndOf
    <3>2. n \in 1 .. Len(f.records)
      BY <3>1, <2>5, <1>1, <1>2
    <3>3. a.index <= EndOf(g)
      BY <3>1, <2>3, <2>4, <1>1, <1>2
    <3> QED
      BY <3>1, <3>2, <3>3, <2>1, <2>2
  <2>6. Held(g, a)
    BY <2>1, <2>5 DEF Held
  <2> QED
    BY <2>6 DEF g
<1>4. ASSUME NEW i \in f.snapIndex + 1 .. EndOf(f), f.header = "ok", f.tear = 0, a.index < i
      PROVE  Held(Cut(f, i - f.snapIndex - 1), a)
  <2> DEFINE m == i - f.snapIndex - 1
             g == Cut(f, m)
  <2>1. EndOf(g) = i - 1 /\ \A k \in 1 .. m : g.records[k] = f.records[k]
    BY <1>4, CutFile
  <2>2. g.snapIndex = f.snapIndex
    BY DEF Cut
  <2> HIDE DEF g
  <2>3. ASSUME a.index > f.snapIndex
        PROVE  a.index <= EndOf(g) /\ g.records[n] = a
    <3>1. f.records[n] = a
      BY <2>3 DEF Held
    <3>2. n \in 1 .. m /\ a.index <= i - 1
      BY <2>3, <1>1, <1>2, <1>4
    <3> QED
      BY <3>1, <3>2, <2>1
  <2>4. Held(g, a)
    BY <2>2, <2>3 DEF Held
  <2> QED
    BY <2>4 DEF g
<1>5. ASSUME NEW i \in f.snapIndex + 1 .. EndOf(f), NEW t \in Term
      PROVE  Held(Compacted(f, i, t), a)
  <2> DEFINE g == Compacted(f, i, t)
  <2>1. EndOf(g) = EndOf(f) /\ \A j \in i + 1 .. EndOf(f) : g.records[j - i] = f.records[j - f.snapIndex]
    BY CompactedFile
  <2>2. g.snapIndex = i
    BY DEF Compacted, File
  <2> HIDE DEF g
  <2>3. ASSUME a.index > i
        PROVE  a.index <= EndOf(g) /\ g.records[a.index - i] = a
    <3>1. a.index > f.snapIndex
      BY <2>3, <1>1, <1>2
    <3>2. a.index <= EndOf(f) /\ f.records[n] = a
      BY <3>1 DEF Held
    <3>3. a.index \in i + 1 .. EndOf(f)
      BY <3>2, <2>3, <1>1, <1>2
    <3> QED
      BY <3>2, <3>3, <2>1
  <2>4. Held(g, a)
    BY <2>2, <2>3 DEF Held
  <2> QED
    BY <2>4 DEF g
<1> QED
  BY <1>3, <1>4, <1>5

-----------------------------------------------------------------------------
(* Every step keeps the invariant. *)

LEMMA InitDisk == Init => DiskInv
<1> SUFFICES ASSUME Init PROVE DiskInv
  OBVIOUS
<1> USE DEF Init
<1>1. IsFile(wal) /\ wal.header = "none" /\ wal.tear = 0 /\ EndOf(wal) = 0 /\ wal.snapIndex = 0
  BY NoFileIsEmpty DEF NoFile
<1>2. offsets = Offsets(wal)
  <2>1. Offsets(wal) = [i \in 0 + 1 .. 0 |-> i - 0]
    BY <1>1, ScanReadsAll
  <2> QED
    BY <2>1
<1>3. TasksInv
  BY DEF TasksInv
<1>4. FileInv
  BY <1>1, <1>2 DEF FileInv, Synced, Remembered
<1>5. AckedInv
  BY <1>1 DEF AckedInv
<1> QED
  BY <1>3, <1>4, <1>5 DEF DiskInv

\* Alone, a process calls when no other call and no rewrite is under way.
LEMMA CallStep ==
    ASSUME Alone, DiskInv, NEW p \in Process, NEW t, Call(p, t), acked' \subseteq acked, IsTask(t, wal', acked')
    PROVE  DiskInv'
<1>1. \A q \in Process : task[q] = Nil
  BY DEF Call, MayCall
<1>2. status = "open" /\ rewriting = Nil
  BY <1>1 DEF Call, MayCall, DiskInv, TasksInv
<1>3. /\ wal' = wal /\ tmp' = tmp /\ offsets' = offsets /\ cached' = cached
      /\ rewriting' = rewriting /\ status' = status /\ committed' = committed
      /\ displaced' = displaced
      /\ task' = [task EXCEPT ![p] = t]
  BY DEF Call, files
<1>4. task' = [q \in Process |-> IF q = p THEN t ELSE Nil]
  BY <1>1, <1>3 DEF DiskInv, TasksInv
<1>5. TasksInv'
  BY <1>2, <1>3, <1>4 DEF TasksInv
<1>6. FileInv'
  BY <1>3 DEF DiskInv, FileInv, Synced, Remembered
<1>7. AckedInv'
  BY <1>3 DEF DiskInv, AckedInv
<1> QED
  BY <1>5, <1>6, <1>7 DEF DiskInv

LEMMA AppendCall ==
    ASSUME Alone, DiskInv, NEW p \in Process, NEW es \in Seq(LogEntry), Len(es) \in {1, 2},
           AppendEntriesAt(p, es)
    PROVE  DiskInv'
<1> DEFINE rs == [k \in 1 .. Len(es) |-> Record(NextIndex + k - 1, es[k])]
<1>1. PICK t : t = [op |-> "append", records |-> rs]
  OBVIOUS
<1>2. /\ cached.lastIndex + Len(es) <= MaxIndex
      /\ Call(p, t) /\ acked' = acked
  BY <1>1 DEF AppendEntriesAt
<1>3. status = "open" /\ Synced /\ wal' = wal
  BY <1>2 DEF Call, MayCall, DiskInv, FileInv, files
<1>4. cached.lastIndex = EndOf(wal) /\ EndOf(wal) \in Nat
  BY <1>3, SyncedFacts
<1>5. Len(es) \in Nat
  OBVIOUS
<1>6. ASSUME NEW k \in 1 .. Len(es)
      PROVE  Record(NextIndex + k - 1, es[k]) \in IndexedEntry
             /\ Record(NextIndex + k - 1, es[k]).index = EndOf(wal) + k
  <2>1. es[k] \in LogEntry
    BY ElementOfSeq
  <2>2. NextIndex + k - 1 = EndOf(wal) + k /\ EndOf(wal) + k \in Nat
    BY <1>4, <1>5 DEF NextIndex
  <2> QED
    BY <2>1, <2>2 DEF Record, IndexedEntry
<1>7. /\ rs \in Seq(IndexedEntry) /\ Len(rs) = Len(es)
      /\ \A k \in 1 .. Len(es) : rs[k].index = EndOf(wal) + k
  BY <1>5, <1>6
<1> HIDE DEF rs
<1>8. IsAppend(t, wal')
  <2>1. EndOf(wal') = EndOf(wal)
    BY <1>3
  <2> QED
    BY <1>2, <1>3, <1>4, <1>7, <1>1, <2>1 DEF IsAppend
<1> QED
  BY <1>2, <1>8, CallStep DEF IsTask

LEMMA DeleteCall ==
    ASSUME Alone, DiskInv, NEW p \in Process, NEW i \in 1 .. MaxIndex, DeleteFrom(p, i)
    PROVE  DiskInv'
<1>1. PICK t : t = [op |-> "truncate", index |-> i]
  OBVIOUS
<1>2. /\ cached.snapIndex < i /\ i <= cached.lastIndex
      /\ Call(p, t) /\ acked' = {a \in acked : a.index < i}
  BY <1>1 DEF DeleteFrom
<1>3. status = "open" /\ Synced /\ wal' = wal
  BY <1>2 DEF Call, MayCall, DiskInv, FileInv, files
<1>4. i \in wal.snapIndex + 1 .. EndOf(wal)
  BY <1>2, <1>3, SyncedFacts
<1>5. IsTruncate(t, wal', acked')
  BY <1>2, <1>3, <1>4, <1>1 DEF IsTruncate
<1> QED
  BY <1>2, <1>5, CallStep DEF IsTask

LEMMA DiscardCall ==
    ASSUME Alone, DiskInv, NEW p \in Process, NEW i \in 1 .. MaxIndex, NEW term \in Term,
           DiscardUpTo(p, i, term)
    PROVE  DiskInv'
<1>1. PICK t : t = [op |-> "rewrite", keep |-> TRUE, index |-> i, term |-> term]
  OBVIOUS
<1>2. /\ cached.snapIndex < i /\ i <= cached.lastIndex
      /\ Call(p, t) /\ acked' = acked
  BY <1>1 DEF DiscardUpTo
<1>3. status = "open" /\ Synced /\ wal' = wal
  BY <1>2 DEF Call, MayCall, DiskInv, FileInv, files
<1>4. i \in wal.snapIndex + 1 .. EndOf(wal)
  BY <1>2, <1>3, SyncedFacts
<1>5. IsCompact(t, wal')
  BY <1>3, <1>4, <1>1 DEF IsCompact
<1> QED
  BY <1>2, <1>5, CallStep DEF IsTask

LEMMA ResetCall ==
    ASSUME Alone, DiskInv, NEW p \in Process, NEW i \in 1 .. MaxIndex, NEW term \in Term,
           ResetTo(p, i, term)
    PROVE  DiskInv'
<1>1. PICK t : t = [op |-> "rewrite", keep |-> FALSE, index |-> i, term |-> term]
  OBVIOUS
<1>2. cached.snapIndex <= i /\ Call(p, t) /\ acked' = {}
  BY <1>1 DEF ResetTo
<1>3. status = "open" /\ Synced /\ wal' = wal
  BY <1>2 DEF Call, MayCall, DiskInv, FileInv, files
<1>4. i \in wal.snapIndex .. MaxIndex
  BY <1>2, <1>3, SyncedFacts, DiskLogAssumption
<1>5. IsReset(t, wal', acked')
  BY <1>2, <1>3, <1>4, <1>1 DEF IsReset
<1> QED
  BY <1>2, <1>5, CallStep DEF IsTask

\* The one call that is under way ends.
LEMMA DoneStep ==
    ASSUME TasksInv, NEW p \in Process, task[p] # Nil, Done(p), rewriting' = Nil
    PROVE  TasksInv'
<1>1. task' = [q \in Process |-> IF q = p THEN Nil ELSE task[q]]
  BY DEF Done, TasksInv
<1>2. \A q \in Process : task[q] # Nil => q = p
  BY DEF TasksInv
<1>3. task' = [q \in Process |-> Nil]
  BY <1>1, <1>2
<1> QED
  BY <1>3 DEF TasksInv

\* The storage's turn: which call it is, and that the memory is that of the file.
LEMMA TurnFacts ==
    ASSUME DiskInv, NEW p \in Process, NEW op, Holds(p, op)
    PROVE  /\ status = "open" /\ rewriting = Nil /\ task[p] # Nil /\ tmp = NoFile /\ Synced
           /\ op = "append" => IsAppend(task[p], wal)
           /\ op = "truncate" => IsTruncate(task[p], wal, acked)
           /\ op = "rewrite" => IsCompact(task[p], wal) \/ IsReset(task[p], wal, acked)
<1>1. status = "open" /\ rewriting = Nil /\ task[p] # Nil /\ task[p].op = op
  BY DEF Holds
<1>2. tmp = NoFile /\ Synced
  BY <1>1 DEF DiskInv, FileInv
<1>3. IsTask(task[p], wal, acked)
  BY <1>1 DEF DiskInv, TasksInv
<1> QED
  BY <1>1, <1>2, <1>3 DEF IsTask, IsAppend, IsTruncate, IsCompact, IsReset

\* Appending adds the records at the end of the file.
LEMMA WriteRecordsStep ==
    ASSUME DiskInv, NEW p \in Process, WriteRecords(p)
    PROVE  /\ DiskInv'
           /\ IsAppend(task[p], wal) /\ wal' = Appended(wal, task[p].records, 0)
<1> DEFINE rs == task[p].records
           n == Len(rs)
           m == Len(wal.records)
           new == Appended(wal, rs, 0)
           base == Len(new.records) - n
           at == [i \in {rs[k].index : k \in 1 .. n} |-> base + i - rs[1].index + 1]
<1>1. /\ status = "open" /\ rewriting = Nil /\ task[p] # Nil /\ tmp = NoFile /\ Synced
      /\ IsAppend(task[p], wal)
  BY TurnFacts DEF WriteRecords
<1>2. /\ rs \in Seq(IndexedEntry) /\ n \in {1, 2} /\ n \in Nat
      /\ EndOf(wal) + n <= MaxIndex
      /\ \A k \in 1 .. n : rs[k].index = EndOf(wal) + k
  BY <1>1 DEF IsAppend
<1>3. Extended(rs) = new
  BY <1>1, <1>2, ExtendedIsAppended
<1>4. IsFile(wal) /\ wal.snapIndex \in Nat /\ m \in Nat /\ EndOf(wal) \in Nat /\ EndOf(wal) = wal.snapIndex + m
  BY <1>1, FileFacts DEF Synced, EndOf
<1>5. /\ IsFile(new) /\ EndOf(new) = EndOf(wal) + n
      /\ \A k \in 1 .. m : new.records[k] = wal.records[k]
      /\ \A k \in 1 .. n : new.records[m + k] = rs[k]
      /\ LastTermOf(new) = rs[n].entry.term
  <2>1. 0 \in {0, Len(wal.records) + Len(rs) + 1} /\ Len(rs) # 0
    BY SMTT(20), <1>2
  <2>2. \A k \in 1 .. Len(rs) : rs[k].index = EndOf(wal) + k
    BY <1>2
  <2>3. IsFile(Appended(wal, rs, 0)) /\ EndOf(Appended(wal, rs, 0)) = EndOf(wal) + Len(rs)
    BY ZenonT(60), <2>1, <2>2, <1>2, <1>4, AppendedFile
  <2>4. /\ \A k \in 1 .. Len(wal.records) : Appended(wal, rs, 0).records[k] = wal.records[k]
        /\ \A k \in 1 .. Len(rs) : Appended(wal, rs, 0).records[Len(wal.records) + k] = rs[k]
    BY ZenonT(60), <2>1, <2>2, <1>2, <1>4, AppendedFile
  <2>5. LastTermOf(Appended(wal, rs, 0)) =
           IF Len(rs) = 0 THEN LastTermOf(wal) ELSE rs[Len(rs)].entry.term
    BY ZenonT(60), <2>1, <2>2, <1>2, <1>4, AppendedFile
  <2> QED
    BY <2>1, <2>3, <2>4, <2>5
<1>6. /\ new.snapIndex = wal.snapIndex /\ new.snapTerm = wal.snapTerm /\ new.header = "ok" /\ new.tear = 0
      /\ new.records = wal.records \o rs
  BY DEF Appended
<1>7. Len(new.records) = m + n
  <2>1. wal.records \in Seq(IndexedEntry)
    BY <1>4, FileFacts
  <2>2. Len(wal.records \o rs) = Len(wal.records) + Len(rs)
    BY <2>1, <1>2, ConcatProperties
  <2> QED
    BY <2>2, <1>6
<1>8. /\ wal' = new
      /\ offsets' = [i \in DOMAIN offsets \cup DOMAIN at |-> IF i \in DOMAIN at THEN at[i] ELSE offsets[i]]
      /\ cached' = [cached EXCEPT !.lastIndex = rs[n].index, !.lastTerm = rs[n].entry.term]
      /\ acked' = acked \cup {rs[k] : k \in 1 .. n} /\ displaced' = FALSE
      /\ Done(p) /\ tmp' = tmp /\ rewriting' = rewriting /\ status' = status /\ committed' = committed
  BY <1>3 DEF WriteRecords
<1>9. base = m
  <2> DEFINE size == Len(new.records)
  <2>1. size = m + n /\ m \in Nat /\ n \in Nat
    BY <1>2, <1>4, <1>7
  <2> HIDE DEF size, m, n
  <2>2. size - n = m
    BY <2>1
  <2> QED
    BY <2>2 DEF size
<1> HIDE DEF new, n, m, base
<1>10. cached' = Cached(new)
  <2>1. Cached(new) = [snapIndex |-> wal.snapIndex, snapTerm |-> wal.snapTerm,
                       lastIndex |-> EndOf(wal) + n, lastTerm |-> rs[n].entry.term]
    BY <1>5, <1>6, ScanIsLog
  <2>2. n \in 1 .. n
    BY <1>2
  <2>3. rs[n].index = EndOf(wal) + n
    BY <2>2, <1>2
  <2>4. PICK before : cached = [snapIndex |-> wal.snapIndex, snapTerm |-> wal.snapTerm,
                                lastIndex |-> EndOf(wal), lastTerm |-> before]
    BY <1>1, SyncedFacts
  <2> DEFINE last == EndOf(wal) + n
             term == rs[n].entry.term
  <2>5. cached' = [cached EXCEPT !.lastIndex = last, !.lastTerm = term]
    BY <2>3, <1>8
  <2>6. Cached(new) = [snapIndex |-> wal.snapIndex, snapTerm |-> wal.snapTerm,
                       lastIndex |-> last, lastTerm |-> term]
    BY <2>1
  <2> HIDE DEF last, term
  <2>7. cached' = [snapIndex |-> wal.snapIndex, snapTerm |-> wal.snapTerm,
                   lastIndex |-> last, lastTerm |-> term]
    BY <2>4, <2>5
  <2> QED
    BY <2>6, <2>7
<1>11. offsets' = Offsets(new)
  <2> DEFINE first == wal.snapIndex + 1
             end == EndOf(wal)
  <2>1. Offsets(new) = [i \in first .. end + n |-> i - wal.snapIndex]
    BY <1>5, <1>6, ScanReadsAll
  <2>2. offsets = [i \in first .. end |-> i - wal.snapIndex]
    BY <1>1, SyncedFacts
  <2>3. {rs[k].index : k \in 1 .. n} = end + 1 .. end + n
    <3>1. ASSUME NEW i \in end + 1 .. end + n
          PROVE  \E k \in 1 .. n : rs[k].index = i
      <4>1. i - end \in 1 .. n /\ end + (i - end) = i
        <5>1. end \in Nat /\ n \in Nat
          BY <1>2, <1>4
        <5> HIDE DEF end
        <5> QED
          BY <5>1
      <4> QED
        BY <4>1, <1>2
    <3>2. ASSUME NEW k \in 1 .. n
          PROVE  rs[k].index \in end + 1 .. end + n
      <4>1. rs[k].index = end + k
        BY <1>2
      <4>2. end \in Nat /\ n \in Nat
        BY <1>2, <1>4
      <4> HIDE DEF end
      <4> QED
        BY <4>1, <4>2
    <3> QED
      BY <3>1, <3>2
  <2>4. ASSUME NEW i \in end + 1 .. end + n
        PROVE  at[i] = i - wal.snapIndex
    <3>1. 1 \in 1 .. n
      BY <1>2
    <3>2. rs[1].index = end + 1
      BY <3>1, <1>2
    <3>3. at[i] = base + i - rs[1].index + 1
      BY <2>3
    <3>4. m + i - (end + 1) + 1 = i - wal.snapIndex
      BY SMTT(30), <1>2, <1>4
    <3>5. at[i] = m + i - (end + 1) + 1
      BY <3>2, <3>3, <1>9
    <3> QED
      BY <3>4, <3>5
  <2>5. DOMAIN at = end + 1 .. end + n /\ DOMAIN offsets = first .. end
    BY <2>2, <2>3
  <2>6. (first .. end) \cup (end + 1 .. end + n) = first .. end + n
    <3>1. ASSUME NEW i \in first .. end + n
          PROVE  i \in first .. end \/ i \in end + 1 .. end + n
      BY <1>2, <1>4
    <3>2. ASSUME NEW i \in (first .. end) \cup (end + 1 .. end + n)
          PROVE  i \in first .. end + n
      BY SMTT(30), <1>2, <1>4
    <3> QED
      BY <3>1, <3>2
  <2> HIDE DEF at
  <2>7. offsets' = [i \in first .. end + n |-> IF i \in DOMAIN at THEN at[i] ELSE offsets[i]]
    BY <2>5, <2>6, <1>8
  <2>8. ASSUME NEW i \in first .. end + n
        PROVE  (IF i \in DOMAIN at THEN at[i] ELSE offsets[i]) = i - wal.snapIndex
    <3>1. CASE i \in DOMAIN at
      BY <3>1, <2>4, <2>5
    <3>2. CASE i \notin DOMAIN at
      <4>1. i \in first .. end
        BY <3>2, <2>5, <2>6
      <4> QED
        BY <3>2, <4>1, <2>2
    <3> QED
      BY <3>1, <3>2
  <2> HIDE DEF first, end
  <2> QED
    BY <2>1, <2>7, <2>8
<1>12. TasksInv'
  BY <1>1, <1>8, DoneStep DEF DiskInv
<1>13. FileInv'
  BY <1>1, <1>5, <1>6, <1>8, <1>10, <1>11 DEF FileInv, Synced, Remembered
<1>14. AckedInv'
  <2>1. \A k \in 1 .. n : rs[k] \in IndexedEntry
    BY <1>2, ElementOfSeq DEF n
  <2>2. acked \subseteq IndexedEntry /\ committed \in Nat /\ \A a \in acked : Held(wal, a)
    BY DEF DiskInv, AckedInv
  <2>3. \A a \in acked : Held(new, a)
    BY <2>2, <1>2, <1>4, HeldStays DEF new
  <2>4. ASSUME NEW k \in 1 .. n
        PROVE  Held(new, rs[k])
    <3>1. rs[k].index = EndOf(wal) + k
      BY <1>2
    <3>2. rs[k].index - new.snapIndex = m + k /\ rs[k].index <= EndOf(new)
      BY SMTT(20), <3>1, <1>2, <1>4, <1>5, <1>6
    <3>3. new.records[m + k] = rs[k]
      BY <1>5
    <3> QED
      BY <3>2, <3>3 DEF Held
  <2> QED
    BY <2>1, <2>2, <2>3, <2>4, <1>6, <1>8 DEF AckedInv
<1> QED
  BY <1>1, <1>8, <1>12, <1>13, <1>14 DEF DiskInv, new

\* Truncating cuts the file where the call says.
LEMMA TruncateStep ==
    ASSUME DiskInv, NEW p \in Process, TruncateFrom(p)
    PROVE  /\ DiskInv'
           /\ IsTruncate(task[p], wal, acked)
           /\ wal.header = "ok" /\ wal' = Cut(wal, task[p].index - wal.snapIndex - 1)
<1> DEFINE i == task[p].index
           new == Cut(wal, i - wal.snapIndex - 1)
<1>1. /\ status = "open" /\ rewriting = Nil /\ task[p] # Nil /\ tmp = NoFile /\ Synced
      /\ IsTruncate(task[p], wal, acked)
  BY TurnFacts DEF TruncateFrom
<1>2. i \in wal.snapIndex + 1 .. EndOf(wal) /\ \A a \in acked : a.index < i
  BY <1>1 DEF IsTruncate
<1>3. CutAt(i) = new /\ wal.header = "ok"
  BY <1>1, <1>2, CutAtIsCut
<1>4. IsFile(wal) /\ wal.tear = 0
  BY <1>1 DEF Synced
<1>5. /\ IsFile(new) /\ EndOf(new) = i - 1
      /\ LastTermOf(new) = IF i - 1 = wal.snapIndex THEN wal.snapTerm
                           ELSE wal.records[i - 1 - wal.snapIndex].entry.term
  BY <1>2, <1>3, <1>4, CutFile
<1>6. new.snapIndex = wal.snapIndex /\ new.snapTerm = wal.snapTerm /\ new.header = "ok" /\ new.tear = 0
  BY <1>3, <1>4 DEF Cut
<1>7. PICK before :
      /\ wal.snapIndex \in Nat /\ EndOf(wal) \in Nat
      /\ cached = [snapIndex |-> wal.snapIndex, snapTerm |-> wal.snapTerm,
                   lastIndex |-> EndOf(wal), lastTerm |-> before]
      /\ offsets = [j \in wal.snapIndex + 1 .. EndOf(wal) |-> j - wal.snapIndex]
  BY <1>1, SyncedFacts
<1>8. /\ wal' = new
      /\ offsets' = [j \in {j \in DOMAIN offsets : j < i} |-> offsets[j]]
      /\ cached' = IF i - 1 <= cached.snapIndex
                   THEN [cached EXCEPT !.lastIndex = cached.snapIndex, !.lastTerm = cached.snapTerm]
                   ELSE [cached EXCEPT !.lastIndex = i - 1,
                                       !.lastTerm = wal.records[offsets[i - 1]].entry.term]
      /\ Done(p) /\ tmp' = tmp /\ rewriting' = rewriting /\ status' = status /\ committed' = committed
      /\ acked' = acked /\ displaced' = FALSE
  BY <1>3 DEF TruncateFrom
<1> HIDE DEF new
<1>9. offsets' = Offsets(new)
  <2>1. Offsets(new) = [j \in wal.snapIndex + 1 .. i - 1 |-> j - wal.snapIndex]
    BY <1>5, <1>6, ScanReadsAll
  <2>2. {j \in DOMAIN offsets : j < i} = wal.snapIndex + 1 .. i - 1
    BY <1>2, <1>7
  <2>3. \A j \in wal.snapIndex + 1 .. i - 1 : offsets[j] = j - wal.snapIndex
    BY <1>2, <1>7
  <2> QED
    BY <2>1, <2>2, <2>3, <1>8
<1>10. cached' = Cached(new)
  <2>1. Cached(new) = [snapIndex |-> wal.snapIndex, snapTerm |-> wal.snapTerm,
                       lastIndex |-> i - 1, lastTerm |-> LastTermOf(new)]
    BY <1>5, <1>6, ScanIsLog
  <2>2. CASE i - 1 = wal.snapIndex
    <3>1. cached' = [cached EXCEPT !.lastIndex = wal.snapIndex, !.lastTerm = wal.snapTerm]
      BY SMTT(20), <2>2, <1>7, <1>8
    <3>2. cached' = [snapIndex |-> wal.snapIndex, snapTerm |-> wal.snapTerm,
                     lastIndex |-> wal.snapIndex, lastTerm |-> wal.snapTerm]
      BY <3>1, <1>7
    <3>3. LastTermOf(new) = wal.snapTerm
      BY <2>2, <1>5
    <3> QED
      BY <2>1, <2>2, <3>2, <3>3
  <2>3. CASE i - 1 # wal.snapIndex
    <3> DEFINE term == wal.records[i - 1 - wal.snapIndex].entry.term
    <3>1. i - 1 \in wal.snapIndex + 1 .. EndOf(wal) /\ ~(i - 1 <= wal.snapIndex)
      BY <2>3, <1>2, <1>7
    <3>2. offsets[i - 1] = i - 1 - wal.snapIndex
      BY <3>1, <1>7
    <3>3. cached' = [cached EXCEPT !.lastIndex = i - 1, !.lastTerm = term]
      BY <3>1, <3>2, <1>7, <1>8
    <3>4. LastTermOf(new) = term
      BY <2>3, <1>5
    <3> HIDE DEF term
    <3>5. cached' = [snapIndex |-> wal.snapIndex, snapTerm |-> wal.snapTerm,
                     lastIndex |-> i - 1, lastTerm |-> term]
      <4> DEFINE last == i - 1
      <4>1. cached' = [cached EXCEPT !.lastIndex = last, !.lastTerm = term]
        BY <3>3
      <4> HIDE DEF last
      <4>2. cached' = [snapIndex |-> wal.snapIndex, snapTerm |-> wal.snapTerm,
                       lastIndex |-> last, lastTerm |-> term]
        BY <4>1, <1>7
      <4> QED
        BY <4>2 DEF last
    <3> QED
      BY <2>1, <3>4, <3>5
  <2> QED
    BY <2>2, <2>3
<1>11. TasksInv'
  BY <1>1, <1>8, DoneStep DEF DiskInv
<1>12. FileInv'
  BY <1>1, <1>5, <1>6, <1>8, <1>9, <1>10 DEF FileInv, Synced, Remembered
<1>13. AckedInv'
  <2>1. acked \subseteq IndexedEntry /\ committed \in Nat /\ \A a \in acked : Held(wal, a)
    BY DEF DiskInv, AckedInv
  <2>2. \A a \in acked : Held(new, a)
    BY <2>1, <1>2, <1>3, <1>4, HeldStays DEF new
  <2> QED
    BY <2>1, <2>2, <1>6, <1>8 DEF AckedInv
<1> QED
  BY <1>1, <1>3, <1>8, <1>11, <1>12, <1>13 DEF DiskInv, new

\* A rewrite leaves a file of the same shape, of which nothing is lost that is
\* acknowledged.
LEMMA RewrittenFile ==
    ASSUME DiskInv, Synced, NEW t, IsCompact(t, wal) \/ IsReset(t, wal, acked)
    PROVE  LET g == Rewritten(t, wal) IN
           /\ IsFile(g) /\ g.header = "ok" /\ g.tear = 0 /\ g.snapIndex = t.index
           /\ t.index \in Nat
           /\ \A a \in acked : Held(g, a)
           /\ IsCompact(t, wal) =>
                 /\ g = Compacted(wal, t.index, t.term) /\ g.snapTerm = t.term
                 /\ EndOf(g) = EndOf(wal)
                 /\ LastTermOf(g) = IF t.index = EndOf(wal) THEN t.term ELSE LastTermOf(wal)
           /\ IsReset(t, wal, acked) => g = File(t.index, t.term, <<>>)
<1> DEFINE g == Rewritten(t, wal)
<1>1. IsFile(wal) /\ wal.snapIndex \in Nat /\ EndOf(wal) \in Nat
  BY FileFacts DEF Synced
<1>2. CASE IsCompact(t, wal)
  <2>1. t.keep = TRUE /\ t.index \in wal.snapIndex + 1 .. EndOf(wal) /\ t.term \in Term
    BY <1>2 DEF IsCompact
  <2>2. g = Compacted(wal, t.index, t.term)
    BY <2>1 DEF Rewritten
  <2>3. /\ IsFile(g) /\ EndOf(g) = EndOf(wal)
        /\ LastTermOf(g) = IF t.index = EndOf(wal) THEN t.term ELSE LastTermOf(wal)
    BY <2>1, <2>2, <1>1, CompactedFile
  <2>4. g.header = "ok" /\ g.tear = 0 /\ g.snapIndex = t.index /\ g.snapTerm = t.term
    BY <2>2 DEF Compacted, File
  <2>5. \A a \in acked : Held(g, a)
    <3>1. acked \subseteq IndexedEntry /\ \A a \in acked : Held(wal, a)
      BY DEF DiskInv, AckedInv
    <3> QED
      BY <3>1, <2>1, <2>2, <1>1, HeldStays
  <2>6. t.index \in Nat /\ ~IsReset(t, wal, acked)
    BY <2>1, <1>1 DEF IsReset
  <2> HIDE DEF g
  <2> QED
    BY <2>2, <2>3, <2>4, <2>5, <2>6 DEF g
<1>3. CASE IsReset(t, wal, acked)
  <2>1. t.keep = FALSE /\ t.index \in wal.snapIndex .. MaxIndex /\ t.term \in Term /\ acked = {}
    BY <1>3 DEF IsReset
  <2>2. g = File(t.index, t.term, <<>>)
    BY <2>1 DEF Rewritten
  <2>3. t.index \in Nat
    BY <2>1, <1>1, DiskLogAssumption
  <2>4. IsFile(g)
    BY <2>1, <2>2, <2>3, ResetFile
  <2>5. g.header = "ok" /\ g.tear = 0 /\ g.snapIndex = t.index
    BY <2>2 DEF File
  <2>6. ~IsCompact(t, wal)
    BY <2>1 DEF IsCompact
  <2> HIDE DEF g
  <2> QED
    BY <2>1, <2>2, <2>3, <2>4, <2>5, <2>6 DEF g
<1> QED
  BY <1>2, <1>3

LEMMA WriteTmpStep ==
    ASSUME DiskInv, NEW p \in Process, WriteTmp(p)
    PROVE  DiskInv' /\ wal' = wal
<1> DEFINE t == task[p]
<1>1. /\ status = "open" /\ rewriting = Nil /\ t # Nil /\ tmp = NoFile /\ Synced
      /\ IsCompact(t, wal) \/ IsReset(t, wal, acked)
  BY TurnFacts DEF WriteTmp
<1>2. /\ rewriting' = p /\ task' = task /\ wal' = wal /\ status' = status
      /\ offsets' = offsets /\ cached' = cached /\ committed' = committed /\ acked' = acked
      /\ displaced' = displaced
      /\ tmp' = File(t.index, t.term, IF t.keep THEN KeptRecords(t.index) ELSE <<>>)
  BY DEF WriteTmp
<1>3. tmp' = Rewritten(t, wal)
  <2>1. CASE IsCompact(t, wal)
    <3>1. t.keep = TRUE /\ t.index \in wal.snapIndex + 1 .. EndOf(wal)
      BY <2>1 DEF IsCompact
    <3>2. KeptRecords(t.index) = SubSeq(wal.records, t.index - wal.snapIndex + 1, Len(wal.records))
      BY <3>1, <1>1, KeptIsRest
    <3> QED
      BY <3>1, <3>2, <1>2 DEF Rewritten, Compacted
  <2>2. CASE IsReset(t, wal, acked)
    BY <2>2, <1>2 DEF IsReset, Rewritten
  <2> QED
    BY <2>1, <2>2, <1>1
<1>4. t.op = "rewrite"
  BY <1>1 DEF IsCompact, IsReset
<1>5. TasksInv'
  BY <1>1, <1>2, <1>3, <1>4 DEF DiskInv, TasksInv
<1>6. FileInv'
  BY <1>1, <1>2, DiskLogAssumption DEF DiskInv, FileInv, Synced, Remembered
<1>7. AckedInv'
  BY <1>2 DEF DiskInv, AckedInv
<1> QED
  BY <1>2, <1>5, <1>6, <1>7 DEF DiskInv

\* The rewrite under way, and the file it has written beside the log.
LEMMA RewriteFacts ==
    ASSUME DiskInv, rewriting # Nil
    PROVE  /\ rewriting \in Process /\ task[rewriting] # Nil
           /\ status = "open" /\ Synced
           /\ IsCompact(task[rewriting], wal) \/ IsReset(task[rewriting], wal, acked)
           /\ tmp = Rewritten(task[rewriting], wal)
<1>1. /\ rewriting \in Process /\ task[rewriting] # Nil /\ task[rewriting].op = "rewrite"
      /\ tmp = Rewritten(task[rewriting], wal)
  BY DEF DiskInv, TasksInv
<1>2. status = "open" /\ IsTask(task[rewriting], wal, acked)
  BY <1>1 DEF DiskInv, TasksInv
<1>3. Synced
  BY <1>2 DEF DiskInv, FileInv
<1> QED
  BY <1>1, <1>2, <1>3 DEF IsTask, IsAppend, IsTruncate

\* The rewritten file takes the place of the log.
LEMMA RenameTmpStep ==
    ASSUME DiskInv, NEW p \in Process, RenameTmp(p)
    PROVE  DiskInv' /\ rewriting = p /\ wal' = tmp
<1> DEFINE t == task[p]
           new == Rewritten(t, wal)
<1>1. rewriting = p /\ p # Nil
  BY DiskLogAssumption DEF RenameTmp
<1>2. /\ t # Nil /\ status = "open" /\ Synced /\ tmp = new
      /\ IsCompact(t, wal) \/ IsReset(t, wal, acked)
  BY <1>1, RewriteFacts
<1>3. /\ IsFile(new) /\ new.header = "ok" /\ new.tear = 0 /\ new.snapIndex = t.index /\ t.index \in Nat
      /\ \A a \in acked : Held(new, a)
  BY <1>2, RewrittenFile
<1>4. IsCompact(t, wal) =>
         /\ EndOf(new) = EndOf(wal) /\ new.snapTerm = t.term
         /\ LastTermOf(new) = IF t.index = EndOf(wal) THEN t.term ELSE LastTermOf(wal)
  BY <1>2, RewrittenFile
<1> HIDE DEF new
<1>5. /\ wal' = new /\ tmp' = NoFile /\ offsets' = Offsets(new)
      /\ cached' = IF t.keep THEN [cached EXCEPT !.snapIndex = new.snapIndex, !.snapTerm = new.snapTerm]
                   ELSE Cached(new)
      /\ committed' \in {committed, t.index}
      /\ displaced' = (t.keep /\ t.index = cached.lastIndex /\ t.term # cached.lastTerm)
      /\ rewriting' = Nil /\ Done(p) /\ status' = status /\ acked' = acked
  BY <1>2 DEF RenameTmp
<1>6. /\ cached' = IF displaced' THEN [Cached(new) EXCEPT !.lastTerm = cached'.lastTerm]
                 ELSE Cached(new)
      /\ displaced' => new.snapIndex = EndOf(new)
  <2>1. CASE IsCompact(t, wal)
    <3> DEFINE last == EndOf(wal)
               term == cached.lastTerm
    <3>1. cached' = [cached EXCEPT !.snapIndex = new.snapIndex, !.snapTerm = new.snapTerm]
      BY <2>1, <1>5 DEF IsCompact
    <3>2. /\ cached = [snapIndex |-> wal.snapIndex, snapTerm |-> wal.snapTerm,
                       lastIndex |-> last, lastTerm |-> term]
          /\ ~displaced => term = LastTermOf(wal)
          /\ displaced => wal.snapIndex = last
      BY <1>2, SyncedFacts
    <3>3. t.index \in wal.snapIndex + 1 .. last /\ wal.snapIndex \in Nat /\ last \in Nat
      BY <2>1, <1>2, SyncedFacts DEF IsCompact
    <3>4. ~displaced
      BY <3>2, <3>3
    <3>5. Cached(new) = [snapIndex |-> new.snapIndex, snapTerm |-> new.snapTerm,
                         lastIndex |-> last, lastTerm |-> LastTermOf(new)]
      BY <2>1, <1>3, <1>4, ScanIsLog
    <3>6. displaced' = (t.index = last /\ t.term # term)
      BY <2>1, <3>2, <1>5 DEF IsCompact
    <3>7. LastTermOf(new) = IF t.index = last THEN t.term ELSE term
      BY <2>1, <3>2, <3>4, <1>4
    <3>8. new.snapIndex = t.index /\ EndOf(new) = last
      BY <2>1, <1>3, <1>4
    <3> HIDE DEF last, term
    <3>9. cached' = [snapIndex |-> new.snapIndex, snapTerm |-> new.snapTerm,
                     lastIndex |-> last, lastTerm |-> term]
      BY <3>1, <3>2
    <3>10. cached'.lastTerm = term
      BY <3>9
    <3>11. [Cached(new) EXCEPT !.lastTerm = term] = cached'
      BY <3>5, <3>9
    <3>12. ~displaced' => cached' = Cached(new)
      BY <3>5, <3>6, <3>7, <3>9
    <3> QED
      BY <3>6, <3>8, <3>10, <3>11, <3>12
  <2>2. CASE IsReset(t, wal, acked)
    BY <2>2, <1>5 DEF IsReset
  <2> QED
    BY <2>1, <2>2, <1>2
<1>7. TasksInv'
  BY <1>2, <1>5, DoneStep DEF DiskInv
<1>8. FileInv'
  BY <1>2, <1>3, <1>5, <1>6 DEF FileInv, Synced, Remembered
<1>9. AckedInv'
  <2>1. acked \subseteq IndexedEntry /\ committed \in Nat
    BY DEF DiskInv, AckedInv
  <2>2. committed' \in Nat
    BY <2>1, <1>3, <1>5
  <2> QED
    BY <2>1, <2>2, <1>3, <1>5 DEF AckedInv
<1> QED
  BY <1>1, <1>2, <1>5, <1>7, <1>8, <1>9 DEF DiskInv

\* What a crash leaves of an append: some of its records, the next perhaps torn.
PartlyAppended(f) ==
    \E p \in Process, rs \in Seq(IndexedEntry), tear \in Nat :
        /\ IsAppend(task[p], wal)
        /\ Len(rs) <= Len(task[p].records)
        /\ \A k \in 1 .. Len(rs) : rs[k] = task[p].records[k]
        /\ tear \in {0, Len(wal.records) + Len(rs) + 1}
        /\ f = Appended(wal, rs, tear)

Truncated(f) ==
    \E p \in Process :
        /\ IsTruncate(task[p], wal, acked)
        /\ wal.header = "ok"
        /\ f = Cut(wal, task[p].index - wal.snapIndex - 1)

\* The files a crash leaves are those before or after the step under way, or
\* between them where it adds records or writes a new file.
LEMMA CrashLeaves ==
    ASSUME DiskInv, status = "open",
           NEW left \in {files} \cup UNION {LeftOf(p) : p \in Process}
    PROVE  \/ left[1] = wal /\ left[2] \in {tmp, TornFile}
           \/ left[1] = tmp /\ rewriting # Nil
           \/ left[1] = TornFile /\ wal = NoFile
           \/ PartlyAppended(left[1])
           \/ Truncated(left[1])
<1>1. CASE left = files
  BY <1>1 DEF files
<1>2. ASSUME NEW p \in Process, left \in LeftOf(p), task[p] # Nil, rewriting = p
      PROVE  (left[1] = wal /\ left[2] = tmp) \/ (left[1] = tmp /\ rewriting # Nil)
  <2>1. left \in {<<wal, tmp>>, <<tmp, NoFile>>}
    BY <1>2 DEF LeftOf
  <2> QED
    BY <2>1, <1>2, DiskLogAssumption
<1>3. ASSUME NEW p \in Process, left \in LeftOf(p), task[p] # Nil, rewriting = Nil
      PROVE  \/ left[1] = wal /\ left[2] = TornFile
             \/ left[1] = TornFile /\ wal = NoFile
             \/ PartlyAppended(left[1])
             \/ Truncated(left[1])
  <2> DEFINE t == task[p]
             rs == t.records
  <2>1. rewriting # p
    BY <1>3, DiskLogAssumption
  <2>2. Synced /\ IsTask(t, wal, acked)
    BY <1>3 DEF DiskInv, FileInv, TasksInv
  <2>3. IsFile(wal) /\ wal.header \in {"none", "ok"}
    BY <2>2 DEF Synced, IsFile, FileType
  <2>4. CASE IsAppend(t, wal)
    <3>1. t.op = "append" /\ rs \in Seq(IndexedEntry) /\ Len(rs) \in Nat
      BY <2>4 DEF IsAppend
    <3>2. left \in {<<Extended(SubSeq(rs, 1, k)), tmp>> : k \in 0 .. Len(rs)}
                   \cup {<<TornAfter(SubSeq(rs, 1, k)), tmp>> : k \in 0 .. Len(rs) - 1}
                   \cup (IF wal.header = "none" THEN {<<TornFile, tmp>>} ELSE {})
      BY <3>1, <2>1, <1>3 DEF LeftOf
    <3>3. ASSUME NEW k \in 0 .. Len(rs)
          PROVE  /\ SubSeq(rs, 1, k) \in Seq(IndexedEntry) /\ Len(SubSeq(rs, 1, k)) = k
                 /\ \A j \in 1 .. k : SubSeq(rs, 1, k)[j] = rs[j]
      <4> DEFINE piece == SubSeq(rs, 1, k)
      <4>1. piece \in Seq(IndexedEntry) /\ Len(piece) = k - 1 + 1
        BY <3>1, PartOfSeq
      <4>2. \A j \in 1 .. k - 1 + 1 : piece[j] = rs[1 + j - 1]
        BY <3>1, PartOfSeq
      <4> HIDE DEF piece
      <4>3. k - 1 + 1 = k /\ \A j \in 1 .. k : 1 + j - 1 = j
        OBVIOUS
      <4>4. Len(piece) = k /\ \A j \in 1 .. k : piece[j] = rs[j]
        BY <4>1, <4>2, <4>3
      <4> QED
        BY <4>1, <4>4 DEF piece
    <3>4. ASSUME NEW k \in 0 .. Len(rs), left = <<Extended(SubSeq(rs, 1, k)), tmp>>
          PROVE  PartlyAppended(left[1])
      <4> DEFINE piece == SubSeq(rs, 1, k)
      <4>1. piece \in Seq(IndexedEntry) /\ Len(piece) = k /\ \A j \in 1 .. k : piece[j] = rs[j]
        BY <3>3
      <4>2. left[1] = Appended(wal, piece, 0)
        BY <4>1, <3>4, <2>2, ExtendedIsAppended
      <4> HIDE DEF piece
      <4>3. k <= Len(rs)
        BY <3>1
      <4> QED
        BY <4>1, <4>2, <4>3, <2>4 DEF PartlyAppended
    <3>5. ASSUME NEW k \in 0 .. Len(rs) - 1, left = <<TornAfter(SubSeq(rs, 1, k)), tmp>>
          PROVE  PartlyAppended(left[1])
      <4> DEFINE piece == SubSeq(rs, 1, k)
                 size == Len(wal.records)
                 all == wal.records \o piece
      <4>1. k \in 0 .. Len(rs) /\ k <= Len(rs) /\ k \in Nat
        BY <3>1
      <4>2. piece \in Seq(IndexedEntry) /\ Len(piece) = k /\ \A j \in 1 .. k : piece[j] = rs[j]
        BY <4>1, <3>3
      <4>3. Extended(piece) = Appended(wal, piece, 0)
        BY <4>2, <2>2, ExtendedIsAppended
      <4>4. size \in Nat /\ wal.records \in Seq(IndexedEntry)
        BY <2>3, FileFacts
      <4>5. Len(all) = size + k
        <5> HIDE DEF piece
        <5>1. Len(wal.records \o piece) = Len(wal.records) + Len(piece)
          BY <4>2, <4>4, ConcatProperties
        <5> QED
          BY <5>1, <4>2
      <4>6. Appended(wal, piece, 0) =
              [header |-> "ok", snapIndex |-> wal.snapIndex, snapTerm |-> wal.snapTerm,
               records |-> all, tear |-> 0]
        BY DEF Appended
      <4>7. TornAfter(piece) = [Appended(wal, piece, 0) EXCEPT !.tear = Len(Appended(wal, piece, 0).records) + 1]
        BY <4>3, Zenon DEF TornAfter
      <4>8. Appended(wal, piece, size + k + 1) =
              [header |-> "ok", snapIndex |-> wal.snapIndex, snapTerm |-> wal.snapTerm,
               records |-> all, tear |-> size + k + 1]
        BY DEF Appended
      <4> HIDE DEF piece, all, size
      <4>9. Len(Appended(wal, piece, 0).records) + 1 = size + k + 1
        BY <4>5, <4>6
      <4>10. TornAfter(piece) = Appended(wal, piece, size + k + 1)
        BY <4>6, <4>7, <4>8, <4>9
      <4>11. left[1] = Appended(wal, piece, size + k + 1)
        BY <4>10, <3>5 DEF piece
      <4>12. size + k + 1 \in Nat /\ size + k + 1 \in {0, Len(wal.records) + Len(piece) + 1}
        BY <4>1, <4>2, <4>4 DEF size
      <4> QED
        BY <4>1, <4>2, <4>11, <4>12, <2>4 DEF PartlyAppended
    <3>6. ASSUME wal.header = "none", left = <<TornFile, tmp>>
          PROVE  left[1] = TornFile /\ wal = NoFile
      BY <3>6, <2>3 DEF IsFile
    <3> QED
      BY <3>2, <3>4, <3>5, <3>6
  <2>5. CASE IsTruncate(t, wal, acked)
    <3>1. t.op = "truncate" /\ t.index \in wal.snapIndex + 1 .. EndOf(wal)
      BY <2>5 DEF IsTruncate
    <3>2. left = <<CutAt(t.index), tmp>>
      BY <3>1, <2>1, <1>3 DEF LeftOf
    <3>3. left[1] = Cut(wal, t.index - wal.snapIndex - 1) /\ wal.header = "ok"
      BY <3>1, <3>2, <2>2, CutAtIsCut
    <3> QED
      BY <3>3, <2>5 DEF Truncated
  <2>6. CASE IsCompact(t, wal) \/ IsReset(t, wal, acked)
    <3>1. t.op = "rewrite"
      BY <2>6 DEF IsCompact, IsReset
    <3>2. left = <<wal, TornFile>>
      BY <3>1, <2>1, <1>3 DEF LeftOf
    <3> QED
      BY <3>2
  <2> QED
    BY <2>2, <2>4, <2>5, <2>6 DEF IsTask
<1>4. ASSUME NEW p \in Process, left \in LeftOf(p)
      PROVE  task[p] # Nil /\ rewriting \in {p, Nil}
  BY <1>4 DEF LeftOf
<1> QED
  BY <1>1, <1>2, <1>3, <1>4

LEMMA CrashStep ==
    ASSUME DiskInv, Crash
    PROVE  /\ DiskInv'
           /\ \/ wal' = wal
              \/ wal' = tmp /\ rewriting # Nil
              \/ wal' = TornFile /\ wal = NoFile
              \/ PartlyAppended(wal')
              \/ Truncated(wal')
<1>1. /\ status = "open" /\ status' = "closed"
      /\ task' = [p \in Process |-> Nil] /\ rewriting' = Nil /\ acked' = acked
  BY DEF Crash
<1>2. PICK left \in {files} \cup UNION {LeftOf(p) : p \in Process} :
         /\ wal' = left[1] /\ tmp' = left[2]
         /\ committed' = IF committed < left[1].snapIndex THEN left[1].snapIndex ELSE committed
  BY DEF Crash
<1>3. /\ Synced /\ IsFile(wal) /\ wal.header # "torn" /\ wal.tear = 0
      /\ rewriting = Nil => tmp = NoFile
  BY <1>1 DEF DiskInv, FileInv, Synced
<1>4. \/ wal' = wal /\ tmp' \in {tmp, TornFile}
      \/ wal' = tmp /\ rewriting # Nil
      \/ wal' = TornFile /\ wal = NoFile
      \/ PartlyAppended(wal')
      \/ Truncated(wal')
  <2>1. \/ left[1] = wal /\ left[2] \in {tmp, TornFile}
        \/ left[1] = tmp /\ rewriting # Nil
        \/ left[1] = TornFile /\ wal = NoFile
        \/ PartlyAppended(left[1])
        \/ Truncated(left[1])
    BY <1>1, CrashLeaves
  <2> QED
    BY <2>1, <1>2
<1>5. /\ committed \in Nat /\ acked \subseteq IndexedEntry /\ \A a \in acked : Held(wal, a)
      /\ wal.header # "ok" => acked = {} /\ committed = 0
  BY DEF DiskInv, AckedInv
<1>6. /\ IsFile(wal') /\ \A a \in acked : Held(wal', a)
      /\ wal'.header = "ok" \/ (wal.header # "ok" /\ wal'.snapIndex = 0)
  <2>1. CASE wal' = wal
    <3>1. wal.header # "ok" => wal = NoFile
      BY <1>3 DEF IsFile, FileType
    <3> QED
      BY <2>1, <3>1, <1>3, <1>5 DEF NoFile
  <2>2. CASE wal' = tmp /\ rewriting # Nil
    <3>1. /\ IsCompact(task[rewriting], wal) \/ IsReset(task[rewriting], wal, acked)
          /\ tmp = Rewritten(task[rewriting], wal)
      BY <2>2, RewriteFacts
    <3>2. IsFile(tmp) /\ tmp.header = "ok" /\ \A a \in acked : Held(tmp, a)
      BY <3>1, <1>3, RewrittenFile
    <3> QED
      BY <2>2, <3>2
  <2>3. CASE wal' = TornFile /\ wal = NoFile
    <3>1. wal.header = "none" /\ acked = {}
      BY <2>3, <1>5 DEF NoFile
    <3>2. IsFile(TornFile) /\ TornFile.snapIndex = 0
      BY NoFileIsEmpty
    <3> QED
      BY <2>3, <3>1, <3>2
  <2>4. CASE PartlyAppended(wal')
    <3>1. PICK p \in Process, rs \in Seq(IndexedEntry), tear \in Nat :
             /\ IsAppend(task[p], wal)
             /\ Len(rs) <= Len(task[p].records)
             /\ \A k \in 1 .. Len(rs) : rs[k] = task[p].records[k]
             /\ tear \in {0, Len(wal.records) + Len(rs) + 1}
             /\ wal' = Appended(wal, rs, tear)
      BY <2>4 DEF PartlyAppended
    <3>2. \A k \in 1 .. Len(rs) : rs[k].index = EndOf(wal) + k
      <4>1. ASSUME NEW k \in 1 .. Len(rs)
            PROVE  rs[k].index = EndOf(wal) + k
        <5>1. Len(rs) \in Nat
          BY LenProperties
        <5>2. Len(task[p].records) \in Nat
          BY <3>1 DEF IsAppend
        <5>3. k \in 1 .. Len(task[p].records)
          BY <3>1, <5>1, <5>2
        <5> QED
          BY <3>1, <5>3 DEF IsAppend
      <4> QED
        BY <4>1
    <3> DEFINE new == Appended(wal, rs, tear)
    <3>3. IsFile(new)
      BY <3>1, <3>2, <1>3, AppendedFile
    <3>4. \A a \in acked : Held(new, a)
      BY <1>3, <1>5, HeldStays
    <3>5. new.header = "ok"
      BY DEF Appended
    <3> HIDE DEF new
    <3>6. wal' = new
      BY <3>1 DEF new
    <3> QED
      BY <3>3, <3>4, <3>5, <3>6
  <2>5. CASE Truncated(wal')
    <3>1. PICK p \in Process :
             /\ IsTruncate(task[p], wal, acked)
             /\ wal.header = "ok"
             /\ wal' = Cut(wal, task[p].index - wal.snapIndex - 1)
      BY <2>5 DEF Truncated
    <3> DEFINE i == task[p].index
               new == Cut(wal, i - wal.snapIndex - 1)
    <3>2. i \in wal.snapIndex + 1 .. EndOf(wal) /\ \A a \in acked : a.index < i
      BY <3>1 DEF IsTruncate
    <3>3. IsFile(new)
      BY <3>1, <3>2, <1>3, CutFile
    <3>4. \A a \in acked : Held(new, a)
      BY <3>1, <3>2, <1>3, <1>5, HeldStays
    <3>5. new.header = "ok"
      BY <3>1 DEF Cut
    <3> HIDE DEF new
    <3>6. wal' = new
      BY <3>1 DEF new
    <3> QED
      BY <3>3, <3>4, <3>5, <3>6
  <2> QED
    BY <2>1, <2>2, <2>3, <2>4, <2>5, <1>4
<1>7. committed' \in Nat /\ (wal'.header # "ok" => committed' = 0)
  <2>1. wal'.snapIndex \in Nat
    BY <1>6, FileFacts
  <2>2. committed' = IF committed < wal'.snapIndex THEN wal'.snapIndex ELSE committed
    BY <1>2
  <2>3. committed' \in Nat
    BY <2>1, <2>2, <1>5
  <2>4. ASSUME wal'.header # "ok"
        PROVE  committed' = 0
    <3>1. committed = 0 /\ wal'.snapIndex = 0
      BY <2>4, <1>5, <1>6
    <3> QED
      BY <3>1, <2>2
  <2> QED
    BY <2>3, <2>4
<1>8. wal'.header = "none" =>
         \/ tmp' \in {NoFile, TornFile}
         \/ \E i \in 0 .. MaxIndex, t \in Term : tmp' = File(i, t, <<>>)
  <2> SUFFICES ASSUME wal'.header = "none"
               PROVE  \/ tmp' \in {NoFile, TornFile}
                      \/ \E i \in 0 .. MaxIndex, t \in Term : tmp' = File(i, t, <<>>)
    OBVIOUS
  <2>1. ~PartlyAppended(wal') /\ ~Truncated(wal')
    BY DEF PartlyAppended, Truncated, Appended, Cut
  <2>2. TornFile.header = "torn"
    BY DEF TornFile, NoFile
  <2>3. ASSUME rewriting # Nil
        PROVE  wal' # tmp /\ (wal' = wal => \E i \in 0 .. MaxIndex, t \in Term : tmp = File(i, t, <<>>))
    <3> DEFINE t == task[rewriting]
    <3>1. (IsCompact(t, wal) \/ IsReset(t, wal, acked)) /\ tmp = Rewritten(t, wal)
      BY <2>3, RewriteFacts
    <3>2. tmp.header = "ok"
      BY <3>1, <1>3, RewrittenFile
    <3>3. ASSUME wal' = wal
          PROVE  \E i \in 0 .. MaxIndex, term \in Term : tmp = File(i, term, <<>>)
      <4>1. wal = NoFile
        BY <3>3, <1>3 DEF IsFile
      <4>2. wal.snapIndex = 0 /\ EndOf(wal) = 0
        BY <4>1, NoFileIsEmpty
      <4>3. ~IsCompact(t, wal)
        BY <4>2 DEF IsCompact
      <4>4. t.index \in 0 .. MaxIndex /\ t.term \in Term /\ tmp = File(t.index, t.term, <<>>)
        BY <3>1, <4>2, <4>3 DEF IsReset, Rewritten
      <4> QED
        BY <4>4
    <3> QED
      BY <3>2, <3>3
  <2>4. wal' = wal /\ tmp' \in {tmp, TornFile}
    BY <2>1, <2>2, <2>3, <1>4
  <2> QED
    BY <2>3, <2>4, <1>3
<1>9. TasksInv'
  BY <1>1 DEF TasksInv
<1>10. FileInv'
  BY <1>1, <1>6, <1>8 DEF FileInv
<1>11. AckedInv'
  BY <1>1, <1>5, <1>6, <1>7 DEF AckedInv
<1> QED
  BY <1>4, <1>9, <1>10, <1>11 DEF DiskInv

\* Opening cuts what is torn, or finds the file a reset has written.
LEMMA OpenStep ==
    ASSUME DiskInv, Open
    PROVE  /\ DiskInv'
           /\ \/ wal' = AfterScan(wal)
              \/ wal = NoFile /\ wal' = TornFile
              \/ wal = NoFile /\ \E i \in 0 .. MaxIndex, t \in Term : wal' = File(i, t, <<>>)
<1>1. /\ status = "closed" /\ tmp' = NoFile
      /\ task' = task /\ rewriting' = rewriting /\ committed' = committed /\ acked' = acked
  BY DEF Open
<1>2. \A p \in Process : task[p] = Nil
  BY <1>1 DEF DiskInv, TasksInv
<1>3. rewriting = Nil
  BY <1>2 DEF DiskInv, TasksInv
<1>4. TasksInv'
  BY <1>1, <1>2, <1>3 DEF DiskInv, TasksInv
<1>5. IsFile(wal)
  BY DEF DiskInv, FileInv
<1>6. /\ committed \in Nat /\ acked \subseteq IndexedEntry /\ \A a \in acked : Held(wal, a)
      /\ wal.header # "ok" => acked = {} /\ committed = 0
  BY DEF DiskInv, AckedInv
<1> DEFINE f == Recovered
           scanned == AfterScan(f)
<1>7. \/ f.header = "torn" /\ status' = "broken" /\ wal' = f
      \/ /\ f.header # "torn" /\ status' = "open" /\ wal' = scanned
         /\ offsets' = Offsets(f) /\ cached' = Cached(f) /\ displaced' = FALSE
  BY DEF Open
<1>8. \/ f = wal
      \/ wal = NoFile /\ f \in {NoFile, TornFile}
      \/ wal = NoFile /\ \E i \in 0 .. MaxIndex, t \in Term : f = File(i, t, <<>>)
  <2>1. CASE wal.header # "none"
    BY <2>1 DEF Recovered
  <2>2. CASE wal.header = "none"
    <3>1. wal = NoFile
      BY <2>2, <1>5 DEF IsFile
    <3>2. f = tmp
      BY <2>2 DEF Recovered
    <3> QED
      BY <2>2, <3>1, <3>2, <1>1 DEF DiskInv, FileInv
  <2> QED
    BY <2>1, <2>2
<1> HIDE DEF f
<1>9. /\ IsFile(f) /\ \A a \in acked : Held(f, a)
      /\ f.header # "ok" => acked = {} /\ committed = 0
  <2>1. CASE f = wal
    BY <2>1, <1>5, <1>6
  <2>2. CASE wal = NoFile /\ f \in {NoFile, TornFile}
    <3>1. IsFile(f)
      BY <2>2, NoFileIsEmpty
    <3>2. acked = {} /\ committed = 0
      BY <2>2, <1>6 DEF NoFile
    <3> QED
      BY <3>1, <3>2
  <2>3. CASE wal = NoFile /\ \E i \in 0 .. MaxIndex, t \in Term : f = File(i, t, <<>>)
    <3>1. IsFile(f)
      BY <2>3, ResetFile, DiskLogAssumption
    <3>2. acked = {} /\ committed = 0
      BY <2>3, <1>6 DEF NoFile
    <3> QED
      BY <3>1, <3>2
  <2> QED
    BY <2>1, <2>2, <2>3, <1>8
<1>10. /\ IsFile(scanned) /\ scanned.tear = 0 /\ scanned.header = f.header
       /\ Offsets(scanned) = Offsets(f) /\ Cached(scanned) = Cached(f)
       /\ \A a \in acked : Held(scanned, a)
       /\ f.tear = 0 => scanned = f
  <2>1. /\ f = [header |-> f.header, snapIndex |-> f.snapIndex, snapTerm |-> f.snapTerm,
                records |-> f.records, tear |-> f.tear]
        /\ f \in FileType
    BY <1>9, FileFacts DEF IsFile
  <2>2. scanned = [header |-> f.header, snapIndex |-> f.snapIndex, snapTerm |-> f.snapTerm,
                   records |-> f.records, tear |-> 0]
    BY <2>1 DEF AfterScan
  <2> HIDE DEF scanned
  <2>3. /\ scanned.header = f.header /\ scanned.snapIndex = f.snapIndex
        /\ scanned.snapTerm = f.snapTerm /\ scanned.records = f.records /\ scanned.tear = 0
    BY <2>2
  <2>4. f.tear = 0 => scanned = f
    BY <2>1, <2>2
  <2>5. f.header # "ok" => f.tear = 0
    BY <1>9 DEF IsFile, FileType, NoFile, TornFile
  <2>6. IsFile(scanned)
    <3>1. scanned \in FileType
      BY <2>1, <2>2 DEF FileType
    <3> QED
      BY <3>1, <2>3, <2>4, <2>5, <1>9 DEF IsFile
  <2>7. EndOf(scanned) = EndOf(f) /\ LastTermOf(scanned) = LastTermOf(f)
    BY <2>3 DEF EndOf, LastTermOf
  <2>8. Offsets(scanned) = Offsets(f)
    BY <2>3, <2>6, <2>7, <1>9, ScanReadsAll
  <2>9. Cached(scanned) = Cached(f)
    BY <2>3, <2>6, <2>7, <1>9, ScanIsLog
  <2>10. \A a \in acked : Held(scanned, a)
    BY <2>3, <2>7, <1>9 DEF Held
  <2> QED
    BY <2>3, <2>4, <2>6, <2>8, <2>9, <2>10
<1> HIDE DEF scanned
<1>11. FileInv'
  <2>1. CASE status' = "open"
    BY <2>1, <1>1, <1>7, <1>9, <1>10 DEF FileInv, Synced, Remembered
  <2>2. CASE status' = "broken"
    BY <2>2, <1>7, <1>9 DEF FileInv
  <2> QED
    BY <2>1, <2>2, <1>7
<1>12. AckedInv'
  BY <1>1, <1>6, <1>7, <1>9, <1>10 DEF AckedInv
<1>13. \/ wal' = AfterScan(wal)
       \/ wal = NoFile /\ wal' = TornFile
       \/ wal = NoFile /\ \E i \in 0 .. MaxIndex, t \in Term : wal' = File(i, t, <<>>)
  <2>1. NoFile.tear = 0 /\ TornFile.tear = 0 /\ NoFile.header = "none" /\ TornFile.header = "torn"
    BY DEF NoFile, TornFile
  <2>2. \A i, t : File(i, t, <<>>).tear = 0 /\ File(i, t, <<>>).header = "ok"
    BY DEF File
  <2>3. AfterScan(NoFile) = NoFile
    BY DEF AfterScan, NoFile
  <2>4. f.header = "torn" => AfterScan(f) = f
    <3>1. f.header = "torn" => f = TornFile
      BY <1>9 DEF IsFile
    <3>2. AfterScan(TornFile) = TornFile
      <4>1. TornFile = [header |-> "torn", snapIndex |-> 0, snapTerm |-> 0, records |-> <<>>,
                        tear |-> 0]
        BY DEF TornFile, NoFile
      <4> QED
        BY <4>1 DEF AfterScan
    <3> QED
      BY <3>1, <3>2
  <2>5. CASE f = wal
    BY <2>4, <2>5, <1>7 DEF scanned
  <2>6. CASE wal = NoFile /\ f \in {NoFile, TornFile}
    BY <2>1, <2>3, <2>6, <1>7 DEF scanned
  <2>7. CASE wal = NoFile /\ \E i \in 0 .. MaxIndex, t \in Term : f = File(i, t, <<>>)
    <3>1. f.tear = 0 /\ f.header = "ok"
      BY <2>2, <2>7
    <3> QED
      BY <3>1, <2>7, <1>7, <1>10
  <2> QED
    BY <2>5, <2>6, <2>7, <1>8
<1> QED
  BY <1>4, <1>11, <1>12, <1>13 DEF DiskInv

LEMMA EntriesArePairs ==
    ASSUME NEW e \in LogEntry, NEW f \in LogEntry
    PROVE  /\ <<e>> \in Seq(LogEntry) /\ Len(<<e>>) = 1
           /\ <<e, f>> \in Seq(LogEntry) /\ Len(<<e, f>>) = 2
OBVIOUS

LEMMA NextDisk ==
    ASSUME Alone, DiskInv, [Next]_vars
    PROVE  DiskInv'
<1>1. ASSUME NEW p \in Process, NEW e \in LogEntry, AppendEntriesAt(p, <<e>>)
      PROVE  DiskInv'
  <2>1. <<e>> \in Seq(LogEntry) /\ Len(<<e>>) \in {1, 2}
    BY EntriesArePairs
  <2> QED
    BY <2>1, <1>1, AppendCall
<1>2. ASSUME NEW p \in Process, NEW e \in LogEntry, NEW f \in LogEntry,
             AppendEntriesAt(p, <<e, f>>)
      PROVE  DiskInv'
  <2>1. <<e, f>> \in Seq(LogEntry) /\ Len(<<e, f>>) \in {1, 2}
    BY EntriesArePairs
  <2> QED
    BY <2>1, <1>2, AppendCall
<1>3. ASSUME NEW p \in Process, NEW i \in 1 .. MaxIndex,
             DeleteFrom(p, i) \/ \E t \in Term : DiscardUpTo(p, i, t) \/ ResetTo(p, i, t)
      PROVE  DiskInv'
  BY <1>3, DeleteCall, DiscardCall, ResetCall
<1>4. ASSUME NEW p \in Process, WriteRecords(p) \/ TruncateFrom(p) \/ WriteTmp(p) \/ RenameTmp(p)
      PROVE  DiskInv'
  BY <1>4, WriteRecordsStep, TruncateStep, WriteTmpStep, RenameTmpStep
<1>5. CASE Crash
  BY <1>5, CrashStep
<1>6. CASE Open
  BY <1>6, OpenStep
<1>7. CASE Commit
  <2>1. /\ committed' \in committed + 1 .. cached.lastIndex /\ status = "open"
        /\ UNCHANGED <<files, memory, acked, displaced>>
    BY <1>7 DEF Commit
  <2>2. TasksInv'
    BY <2>1 DEF DiskInv, TasksInv, files, memory
  <2>3. FileInv'
    BY <2>1 DEF DiskInv, FileInv, Synced, Remembered, files, memory
  <2>4. cached.lastIndex = EndOf(wal) /\ EndOf(wal) \in Nat /\ committed \in Nat
    BY <2>1, SyncedFacts DEF DiskInv, FileInv, AckedInv
  <2>5. committed' \in Nat /\ committed' <= EndOf(wal) /\ committed' # 0
    BY <2>1, <2>4
  <2>6. wal.header = "ok"
    <3>1. IsFile(wal) /\ (wal.header # "ok" => wal \in {NoFile, TornFile})
      BY DEF DiskInv, FileInv, IsFile, FileType
    <3>2. wal \in {NoFile, TornFile} => EndOf(wal) = 0
      BY NoFileIsEmpty
    <3> QED
      BY <3>1, <3>2, <2>5
  <2>7. AckedInv'
    BY <2>1, <2>5, <2>6 DEF DiskInv, AckedInv, files
  <2> QED
    BY <2>2, <2>3, <2>7 DEF DiskInv
<1>8. CASE UNCHANGED vars
  <2>1. TasksInv'
    BY <1>8 DEF DiskInv, TasksInv, vars, files, memory
  <2>2. FileInv'
    BY <1>8 DEF DiskInv, FileInv, Synced, Remembered, vars, files, memory
  <2>3. AckedInv'
    BY <1>8 DEF DiskInv, AckedInv, vars, files
  <2> QED
    BY <2>1, <2>2, <2>3 DEF DiskInv
<1> QED
  BY <1>1, <1>2, <1>3, <1>4, <1>5, <1>6, <1>7, <1>8 DEF Next

-----------------------------------------------------------------------------
(* The theorems. *)

\* The invariant: the file has its shape, the memory of an open log is that of
\* the file, and every call that is under way still fits the file.
THEOREM DiskInvariant ==
    ASSUME Alone
    PROVE  Spec => []DiskInv
<1>1. Init => DiskInv
  BY InitDisk
<1>2. DiskInv /\ [Next]_vars => DiskInv'
  BY NextDisk
<1> QED
  BY <1>1, <1>2, PTL DEF Spec

\* A record that append reported is read at its index as long as it is neither
\* truncated nor covered by a snapshot, whatever crashes.
THEOREM AcknowledgedIsRead ==
    ASSUME Alone
    PROVE  Spec => []AcknowledgedIsHeld
<1>1. DiskInv => AcknowledgedIsHeld
  <2> SUFFICES ASSUME DiskInv, NEW a \in acked, a.index > wal.snapIndex
               PROVE  HasEntry(AsLog(wal), a.index) /\ Entry(AsLog(wal), a.index) = a.entry
    BY DEF AcknowledgedIsHeld
  <2> DEFINE n == a.index - wal.snapIndex
             m == Len(wal.records)
             l == AsLog(wal)
  <2>1. IsFile(wal) /\ a \in IndexedEntry /\ Held(wal, a)
    BY DEF DiskInv, FileInv, AckedInv
  <2>2. m \in Nat /\ wal.snapIndex \in Nat /\ wal.records \in Seq(IndexedEntry) /\ a.index \in Nat
    BY <2>1, FileFacts DEF IndexedEntry
  <2>3. a.index <= wal.snapIndex + m /\ wal.records[n] = a
    BY <2>1 DEF Held, EndOf
  <2>4. n \in 1 .. m
    BY <2>2, <2>3
  <2>5. l.snapIndex = wal.snapIndex /\ l.entries = EntriesOf(wal.records)
    BY <2>1, ScanIsLog DEF LogOf, EntriesOf
  <2>6. Len(l.entries) = m /\ l.entries[n] = wal.records[n].entry
    BY <2>2, <2>4, <2>5, EntriesOfRecords
  <2> HIDE DEF l, m
  <2>7. HasEntry(l, a.index)
    BY <2>2, <2>3, <2>5, <2>6 DEF HasEntry, LastIndex
  <2>8. Entry(l, a.index) = a.entry
    BY <2>3, <2>5, <2>6 DEF Entry
  <2> QED
    BY <2>7, <2>8 DEF l
<1> QED
  BY <1>1, DiskInvariant, PTL

\* The cached tail and the offset index never differ from what a scan of the file
\* would give, but for the term of a last entry that a snapshot of another term
\* replaced.
THEOREM CacheIsRight ==
    ASSUME Alone
    PROVE  Spec => []CacheIsFile
<1>1. ASSUME DiskInv, status = "open", rewriting = Nil
      PROVE  /\ cached = IF displaced THEN [Cached(wal) EXCEPT !.lastTerm = cached.lastTerm]
                         ELSE Cached(wal)
             /\ displaced => cached.lastIndex = cached.snapIndex
             /\ offsets = Offsets(wal) /\ wal.tear = 0
  <2>1. Synced
    BY <1>1 DEF DiskInv, FileInv
  <2>2. displaced => cached.lastIndex = cached.snapIndex
    BY <2>1, SyncedFacts
  <2> QED
    BY <2>1, <2>2 DEF Synced, Remembered
<1>2. DiskInv => CacheIsFile
  BY <1>1 DEF CacheIsFile
<1> QED
  BY <1>2, DiskInvariant, PTL

\* A log that open refuses was new: nothing in it was acknowledged or committed.
THEOREM BrokenIsNew ==
    ASSUME Alone
    PROVE  Spec => []BrokenOnlyIfNew
<1>1. DiskInv => BrokenOnlyIfNew
  BY DEF DiskInv, FileInv, AckedInv, BrokenOnlyIfNew
<1> QED
  BY <1>1, DiskInvariant, PTL

-----------------------------------------------------------------------------
(* The file implements LogStore. *)

LEMMA StoreOperators ==
    /\ Store!LogEntry = LogEntry
    /\ Store!EmptyLog = EmptyLog
    /\ \A l : Store!LastIndex(l) = LastIndex(l)
    /\ \A l, es : Store!AppendEntries(l, es) = AppendEntries(l, es)
    /\ \A l, i : Store!DeleteEntriesFrom(l, i) = DeleteEntriesFrom(l, i)
    /\ \A l, i, t : Store!DiscardEntriesUpTo(l, i, t) = DiscardEntriesUpTo(l, i, t)
    /\ \A l : Store!Reload(l) = Reload(l)
    /\ \A i, t : Store!ResetToSnapshot(i, t) = ResetToSnapshot(i, t)
<1>1. Store!LogEntry = LogEntry /\ Store!EmptyLog = EmptyLog
  BY DEF Store!LogEntry, LogEntry, Store!EmptyLog, EmptyLog
<1>2. \A l : Store!LastIndex(l) = LastIndex(l)
  BY DEF Store!LastIndex, LastIndex
<1>3. \A l, es : Store!AppendEntries(l, es) = AppendEntries(l, es)
  BY DEF Store!AppendEntries, AppendEntries
<1>4. \A l, i : Store!DeleteEntriesFrom(l, i) = DeleteEntriesFrom(l, i)
  BY Zenon DEF Store!DeleteEntriesFrom, DeleteEntriesFrom
<1>5. \A l : Store!Reload(l) = Reload(l)
  BY Zenon DEF Store!Reload, Reload
<1>6. \A l, i, t : Store!DiscardEntriesUpTo(l, i, t) = DiscardEntriesUpTo(l, i, t)
  BY Zenon DEF Store!DiscardEntriesUpTo, DiscardEntriesUpTo
<1>7. \A i, t : Store!ResetToSnapshot(i, t) = ResetToSnapshot(i, t)
  BY DEF Store!ResetToSnapshot, ResetToSnapshot
<1> QED
  BY <1>1, <1>2, <1>3, <1>4, <1>5, <1>6, <1>7

StoreStep == [Store!Next]_(AsLog(wal))

LEMMA LogFacts ==
    ASSUME NEW f, IsFile(f)
    PROVE  AsLog(f) = LogOf(f) /\ LogOf(f).snapIndex = f.snapIndex /\ LastIndex(LogOf(f)) = EndOf(f)
<1>1. f.records \in Seq(IndexedEntry) /\ Len(f.records) \in Nat
  BY FileFacts
<1>2. LogOf(f).snapIndex = f.snapIndex /\ LogOf(f).entries = EntriesOf(f.records)
  BY DEF LogOf, EntriesOf
<1>3. Len(EntriesOf(f.records)) = Len(f.records)
  BY <1>1, EntriesOfRecords
<1> QED
  BY <1>2, <1>3, ScanIsLog DEF LastIndex, EndOf

LEMMA SameLogStep ==
    ASSUME IsFile(wal), IsFile(wal'), LogOf(wal') = LogOf(wal)
    PROVE  StoreStep
<1>1. AsLog(wal') = LogOf(wal') /\ AsLog(wal) = LogOf(wal)
  BY LogFacts
<1> QED
  BY <1>1 DEF StoreStep

LEMMA ExtendStep ==
    ASSUME IsFile(wal), IsFile(wal'), NEW rs \in Seq(IndexedEntry), Len(rs) <= 2,
           EndOf(wal) + Len(rs) <= MaxIndex,
           LogOf(wal') = AppendEntries(LogOf(wal), EntriesOf(rs))
    PROVE  StoreStep
<1> DEFINE es == EntriesOf(rs)
           n == Len(rs)
<1>1. es \in Seq(LogEntry) /\ Len(es) = n /\ n \in Nat
  BY EntriesOfRecords, LenProperties
<1>2. AsLog(wal') = AppendEntries(AsLog(wal), es)
  BY LogFacts
<1>3. LastIndex(AsLog(wal)) = EndOf(wal) /\ EndOf(wal) \in Nat
  BY LogFacts, FileFacts
<1> HIDE DEF es
<1>4. CASE n = 0
  <2>1. es = <<>>
    BY <1>1, <1>4, EmptySeq
  <2>2. AsLog(wal') = AsLog(wal)
    BY <2>1, <1>2 DEF AppendEntries
  <2> QED
    BY <2>2 DEF StoreStep
<1>5. CASE n # 0
  <2>1. n \in {1, 2} /\ EndOf(wal) < MaxIndex
    <3>1. n \in Nat /\ n <= 2 /\ EndOf(wal) + n <= MaxIndex
      BY <1>1
    <3> HIDE DEF n
    <3> QED
      BY <3>1, <1>3, <1>5, DiskLogAssumption
  <2>2. es \in {<<e>> : e \in LogEntry} \cup {<<e, f>> : e, f \in LogEntry}
    <3>1. CASE n = 1
      <4>1. es[1] \in LogEntry
        BY <1>1, <3>1, ElementOfSeq
      <4>2. es = <<es[1]>>
        BY <1>1, <3>1
      <4> QED
        BY <4>1, <4>2
    <3>2. CASE n = 2
      <4>1. es[1] \in LogEntry /\ es[2] \in LogEntry
        <5>1. 1 \in 1 .. Len(es) /\ 2 \in 1 .. Len(es)
          BY <1>1, <3>2
        <5> QED
          BY <5>1, <1>1, ElementOfSeq
      <4>2. es = <<es[1], es[2]>>
        BY <1>1, <3>2
      <4> QED
        BY <4>1, <4>2
    <3> QED
      BY <3>1, <3>2, <2>1
  <2>3. Store!Extend
    BY <2>1, <2>2, <1>2, <1>3, StoreOperators DEF Store!Extend
  <2> QED
    BY <2>3 DEF StoreStep, Store!Next
<1> QED
  BY <1>4, <1>5

LEMMA CutStep ==
    ASSUME IsFile(wal), IsFile(wal'), NEW i \in wal.snapIndex + 1 .. EndOf(wal),
           LogOf(wal') = DeleteEntriesFrom(LogOf(wal), i)
    PROVE  StoreStep
<1>1. /\ AsLog(wal') = DeleteEntriesFrom(AsLog(wal), i)
      /\ AsLog(wal).snapIndex = wal.snapIndex /\ LastIndex(AsLog(wal)) = EndOf(wal)
  BY LogFacts
<1>2. Store!TruncateFrom
  BY <1>1, StoreOperators DEF Store!TruncateFrom
<1> QED
  BY <1>2 DEF StoreStep, Store!Next

LEMMA CompactStep ==
    ASSUME IsFile(wal), IsFile(wal'), NEW i \in wal.snapIndex + 1 .. EndOf(wal),
           NEW t \in Term, LogOf(wal') = Reload(DiscardEntriesUpTo(LogOf(wal), i, t))
    PROVE  StoreStep
<1>1. /\ AsLog(wal') = Reload(DiscardEntriesUpTo(AsLog(wal), i, t))
      /\ AsLog(wal).snapIndex = wal.snapIndex /\ LastIndex(AsLog(wal)) = EndOf(wal)
  BY LogFacts
<1>2. Store!Compact
  BY <1>1, StoreOperators DEF Store!Compact
<1> QED
  BY <1>2 DEF StoreStep, Store!Next

LEMMA ResetStep ==
    ASSUME IsFile(wal), NEW i \in wal.snapIndex .. MaxIndex, NEW t \in Term,
           wal' = File(i, t, <<>>)
    PROVE  StoreStep
<1>1. wal.snapIndex \in Nat /\ AsLog(wal).snapIndex = wal.snapIndex
  BY LogFacts, FileFacts
<1>2. i \in Nat
  BY <1>1, DiskLogAssumption
<1>3. IsFile(wal') /\ LogOf(wal') = ResetToSnapshot(i, t)
  BY <1>2, ResetFile
<1>4. AsLog(wal') = ResetToSnapshot(i, t)
  BY <1>3, LogFacts
<1>5. Store!Reset
  BY <1>1, <1>4, StoreOperators DEF Store!Reset
<1> QED
  BY <1>5 DEF StoreStep, Store!Next

LEMMA RewriteStep ==
    ASSUME IsFile(wal), IsFile(wal'), NEW t, IsCompact(t, wal) \/ IsReset(t, wal, acked),
           wal' = Rewritten(t, wal)
    PROVE  StoreStep
<1>1. CASE IsCompact(t, wal)
  <2>1. t.keep = TRUE /\ t.index \in wal.snapIndex + 1 .. EndOf(wal) /\ t.term \in Term
    BY <1>1 DEF IsCompact
  <2>2. wal' = Compacted(wal, t.index, t.term)
    BY <2>1 DEF Rewritten
  <2>3. LogOf(wal') = Reload(DiscardEntriesUpTo(LogOf(wal), t.index, t.term))
    BY <2>1, <2>2, CompactedFile
  <2> QED
    BY <2>1, <2>3, CompactStep
<1>2. CASE IsReset(t, wal, acked)
  <2>1. t.keep = FALSE /\ t.index \in wal.snapIndex .. MaxIndex /\ t.term \in Term
    BY <1>2 DEF IsReset
  <2>2. wal' = File(t.index, t.term, <<>>)
    BY <2>1 DEF Rewritten
  <2> QED
    BY <2>1, <2>2, ResetStep
<1> QED
  BY <1>1, <1>2

LEMMA TruncatedStep ==
    ASSUME IsFile(wal), IsFile(wal'), wal.tear = 0, wal.header = "ok", NEW t,
           IsTruncate(t, wal, acked), wal' = Cut(wal, t.index - wal.snapIndex - 1)
    PROVE  StoreStep
<1>1. t.index \in wal.snapIndex + 1 .. EndOf(wal)
  BY DEF IsTruncate
<1>2. LogOf(wal') = DeleteEntriesFrom(LogOf(wal), t.index)
  BY <1>1, CutFile
<1> QED
  BY <1>1, <1>2, CutStep

LEMMA AppendedStep ==
    ASSUME IsFile(wal), IsFile(wal'), NEW t, IsAppend(t, wal),
           NEW rs \in Seq(IndexedEntry), Len(rs) <= Len(t.records),
           \A k \in 1 .. Len(rs) : rs[k] = t.records[k],
           NEW tear \in {0, Len(wal.records) + Len(rs) + 1},
           wal' = Appended(wal, rs, tear)
    PROVE  StoreStep
<1>1. /\ Len(t.records) \in {1, 2} /\ EndOf(wal) + Len(t.records) <= MaxIndex
      /\ \A k \in 1 .. Len(t.records) : t.records[k].index = EndOf(wal) + k
  BY DEF IsAppend
<1>2. Len(rs) \in Nat /\ EndOf(wal) \in Nat
  BY LenProperties, FileFacts
<1>3. Len(rs) <= 2 /\ EndOf(wal) + Len(rs) <= MaxIndex
  <2> DEFINE a == Len(rs)
             c == Len(t.records)
             e == EndOf(wal)
  <2>1. a \in Nat /\ e \in Nat /\ MaxIndex \in Nat /\ a <= c
    BY <1>2, DiskLogAssumption
  <2>2. c \in {1, 2} /\ e + c <= MaxIndex
    BY <1>1
  <2> HIDE DEF a, c, e
  <2>3. a <= 2 /\ e + a <= MaxIndex
    BY <2>1, <2>2
  <2> QED
    BY <2>3 DEF a, c, e
<1>4. ASSUME NEW k \in 1 .. Len(rs)
      PROVE  rs[k].index = EndOf(wal) + k
  <2>1. k \in 1 .. Len(t.records)
    BY <1>1, <1>2
  <2> QED
    BY <2>1, <1>1
<1>5. LogOf(wal') = AppendEntries(LogOf(wal), EntriesOf(rs))
  BY <1>4, AppendedFile
<1> QED
  BY <1>3, <1>5, ExtendStep

\* Every step of the file is one of LogStore, or leaves the log as it was.
LEMMA NextStore ==
    ASSUME Alone, DiskInv, DiskInv', [Next]_vars
    PROVE  StoreStep
<1>1. IsFile(wal) /\ IsFile(wal')
  BY DEF DiskInv, FileInv
<1>2. ASSUME wal' = wal
      PROVE  StoreStep
  BY <1>1, <1>2, SameLogStep
<1>3. ASSUME NEW p \in Process, WriteRecords(p)
      PROVE  StoreStep
  <2>1. IsAppend(task[p], wal) /\ wal' = Appended(wal, task[p].records, 0)
    BY <1>3, WriteRecordsStep
  <2>2. task[p].records \in Seq(IndexedEntry) /\ Len(task[p].records) \in Nat
    BY <2>1 DEF IsAppend
  <2> DEFINE t == task[p]
             rs == t.records
  <2>3. Len(rs) <= Len(rs)
    BY <2>2
  <2> HIDE DEF t
  <2> QED
    BY <2>1, <2>2, <2>3, <1>1, AppendedStep DEF t
<1>4. ASSUME NEW p \in Process, TruncateFrom(p)
      PROVE  StoreStep
  <2>1. /\ IsTruncate(task[p], wal, acked) /\ wal.header = "ok"
        /\ wal' = Cut(wal, task[p].index - wal.snapIndex - 1)
    BY <1>4, TruncateStep
  <2>2. wal.tear = 0
    BY <1>4, TurnFacts DEF TruncateFrom, Synced
  <2> QED
    BY <2>1, <2>2, <1>1, TruncatedStep
<1>5. ASSUME rewriting # Nil, wal' = tmp
      PROVE  StoreStep
  <2>1. /\ IsCompact(task[rewriting], wal) \/ IsReset(task[rewriting], wal, acked)
        /\ tmp = Rewritten(task[rewriting], wal)
    BY <1>5, RewriteFacts
  <2> QED
    BY <2>1, <1>1, <1>5, RewriteStep
<1>6. ASSUME NEW p \in Process, WriteTmp(p) \/ RenameTmp(p)
      PROVE  StoreStep
  <2>1. CASE WriteTmp(p)
    BY <2>1, <1>2, WriteTmpStep
  <2>2. CASE RenameTmp(p)
    <3>1. rewriting # Nil /\ wal' = tmp
      BY <2>2, RenameTmpStep, DiskLogAssumption
    <3> QED
      BY <3>1, <1>5
  <2> QED
    BY <1>6, <2>1, <2>2
<1>7. ASSUME wal = NoFile, wal' = TornFile
      PROVE  StoreStep
  <2>1. LogOf(wal) = EmptyLog /\ LogOf(wal') = EmptyLog
    BY <1>7, NoFileIsEmpty
  <2> QED
    BY <2>1, <1>1, SameLogStep
<1>8. CASE Crash
  <2>1. status = "open" /\ wal.tear = 0
    BY <1>8 DEF Crash, DiskInv, FileInv, Synced
  <2>2. CASE PartlyAppended(wal')
    <3>1. PICK p \in Process, rs \in Seq(IndexedEntry), tear \in Nat :
             /\ IsAppend(task[p], wal)
             /\ Len(rs) <= Len(task[p].records)
             /\ \A k \in 1 .. Len(rs) : rs[k] = task[p].records[k]
             /\ tear \in {0, Len(wal.records) + Len(rs) + 1}
             /\ wal' = Appended(wal, rs, tear)
      BY <2>2 DEF PartlyAppended
    <3> QED
      BY <3>1, <1>1, AppendedStep
  <2>3. CASE Truncated(wal')
    <3>1. PICK p \in Process :
             /\ IsTruncate(task[p], wal, acked)
             /\ wal.header = "ok"
             /\ wal' = Cut(wal, task[p].index - wal.snapIndex - 1)
      BY <2>3 DEF Truncated
    <3> QED
      BY <3>1, <2>1, <1>1, TruncatedStep
  <2> QED
    BY <2>2, <2>3, <1>2, <1>5, <1>7, <1>8, CrashStep
<1>9. CASE Open
  <2>1. ASSUME wal' = AfterScan(wal)
        PROVE  StoreStep
    <3>1. wal' = [wal EXCEPT !.tear = 0]
      BY <2>1 DEF AfterScan
    <3>2. wal = [header |-> wal.header, snapIndex |-> wal.snapIndex, snapTerm |-> wal.snapTerm,
                 records |-> wal.records, tear |-> wal.tear]
      BY <1>1, FileFacts
    <3>3. /\ wal'.snapIndex = wal.snapIndex /\ wal'.snapTerm = wal.snapTerm
          /\ wal'.records = wal.records
      BY <3>1, <3>2
    <3>4. LogOf(wal') = LogOf(wal)
      BY <3>3 DEF LogOf, LastTermOf
    <3> QED
      BY <3>4, <1>1, SameLogStep
  <2>2. ASSUME wal = NoFile, NEW i \in 0 .. MaxIndex, NEW t \in Term, wal' = File(i, t, <<>>)
        PROVE  StoreStep
    <3>1. i \in wal.snapIndex .. MaxIndex
      BY <2>2, NoFileIsEmpty
    <3> QED
      BY <3>1, <2>2, <1>1, ResetStep
  <2> QED
    BY <2>1, <2>2, <1>7, <1>9, OpenStep
<1>10. ASSUME UNCHANGED wal
       PROVE  StoreStep
  BY <1>2, <1>10
<1>11. ASSUME NEW p \in Process, NEW t, Call(p, t)
       PROVE  UNCHANGED wal
  BY <1>11 DEF Call, files
<1>12. CASE Commit \/ UNCHANGED vars
  BY <1>10, <1>12 DEF Commit, vars, files
<1>13. ASSUME NEW p \in Process, NEW es, AppendEntriesAt(p, es)
       PROVE  StoreStep
  BY <1>10, <1>11, <1>13 DEF AppendEntriesAt
<1>14. ASSUME NEW p \in Process, NEW i \in 1 .. MaxIndex,
              DeleteFrom(p, i) \/ \E t \in Term : DiscardUpTo(p, i, t) \/ ResetTo(p, i, t)
       PROVE  StoreStep
  BY <1>10, <1>11, <1>14 DEF DeleteFrom, DiscardUpTo, ResetTo
<1> QED
  BY <1>3, <1>4, <1>6, <1>8, <1>9, <1>12, <1>13, <1>14 DEF Next

\* The file grows at its end, loses a suffix to a truncation or a prefix to a
\* snapshot, and changes in no other way, whatever a crash leaves of a write.
THEOREM FileIsLogStore ==
    ASSUME Alone
    PROVE  Spec => ImplementsLogStore
<1>1. Init => Store!Init
  <2> SUFFICES ASSUME Init PROVE Store!Init
    OBVIOUS
  <2>1. wal = NoFile
    BY DEF Init
  <2>2. IsFile(wal) /\ LogOf(wal) = EmptyLog
    BY <2>1, NoFileIsEmpty
  <2> QED
    BY <2>2, LogFacts, StoreOperators DEF Store!Init
<1>2. DiskInv /\ DiskInv' /\ [Next]_vars => [Store!Next]_(AsLog(wal))
  BY NextStore DEF StoreStep
<1> QED
  BY <1>1, <1>2, DiskInvariant, PTL DEF Spec, ImplementsLogStore, Store!Spec

-----------------------------------------------------------------------------
(* The files that are replaced whole, with one writer. *)

ReplacedTypeInv ==
    /\ replaced \in [value : FileContent \cup {"torn"}, synced : BOOLEAN] \cup {Nil}
    /\ replacement \in [value : FileContent \cup {"torn"}, synced : BOOLEAN] \cup {Nil}
    /\ call \in [Writer -> [value : FileContent, step : {"fill", "sync", "rename"}] \cup {Nil}]
    /\ opened \in BOOLEAN /\ everAcked \in BOOLEAN

\* What the writer has put beside the file, as far as it has come.
WriterInv ==
    \A w \in Writer : call[w] # Nil =>
        /\ opened /\ replacement # Nil
        /\ call[w].step # "fill" => replacement.value = call[w].value
        /\ call[w].step = "rename" => replacement.synced

\* A write that has returned is on disk; a file that a first write left unsynced
\* may be lost, but nobody was told of it.
ReplacedInv ==
    /\ ReplacedTypeInv /\ WriterInv
    /\ opened => NodeFile!ValueOf(replaced) = known /\ NodeFile!ValueOf(replaced) # "torn"
    /\ everAcked => replaced # Nil /\ replaced.synced /\ replaced.value # "torn"

\* What is written beside the file is a content, not the lack of one.
LEMMA ContentIsThere ==
    ASSUME NEW v \in FileContent \cup {"torn"}, NEW b \in BOOLEAN
    PROVE  /\ [value |-> v, synced |-> b] \in [value : FileContent \cup {"torn"}, synced : BOOLEAN]
           /\ [value |-> v, synced |-> b] # Nil
<1>1. [value |-> v, synced |-> b] \in [value : FileContent \cup {"torn"}, synced : BOOLEAN]
  OBVIOUS
<1> QED BY <1>1, NodeFilesAssumption

\* There is no file at first.
LEMMA ReplacedInit == NodeFile!Init => ReplacedInv
BY NodeFilesAssumption DEF NodeFile!Init, ReplacedInv, ReplacedTypeInv, WriterInv, NodeFile!ValueOf

\* Every step keeps this; a crash tears the file only if nobody was told of it.
LEMMA ReplacedNext ==
    ASSUME \A v, w \in Writer : v = w, ReplacedInv, NodeFile!Next
    PROVE  ReplacedInv'
<1> USE NodeFilesAssumption DEF ReplacedInv, ReplacedTypeInv, WriterInv
<1>1. ASSUME NEW w \in Writer, NodeFile!Truncate(w) PROVE ReplacedInv'
  <2>1. PICK v \in FileContent : call' = [call EXCEPT ![w] = [value |-> v, step |-> "fill"]]
    BY <1>1 DEF NodeFile!Truncate
  <2>2. replacement' = [value |-> "torn", synced |-> FALSE] /\ opened
        /\ UNCHANGED <<replaced, known, everAcked, opened>>
    BY <1>1 DEF NodeFile!Truncate, NodeFile!Content
  <2>3. ReplacedTypeInv'
    BY <2>1, <2>2
  <2>4. WriterInv'
    <3> SUFFICES ASSUME NEW x \in Writer
                 PROVE  opened' /\ replacement' # Nil /\ call'[x].step = "fill"
      OBVIOUS
    <3>1. x = w /\ call'[w] = [value |-> v, step |-> "fill"]
      BY <2>1
    <3>2. replacement' # Nil
      BY <2>2, ContentIsThere
    <3> QED BY <2>2, <3>1, <3>2
  <2> QED BY <2>2, <2>3, <2>4 DEF NodeFile!ValueOf
<1>2. ASSUME NEW w \in Writer, NodeFile!Fill(w) PROVE ReplacedInv'
  <2>1. /\ call[w] # Nil /\ call[w] \in [value : FileContent, step : {"fill", "sync", "rename"}]
        /\ call' = [call EXCEPT ![w] = [call[w] EXCEPT !.step = "sync"]]
        /\ UNCHANGED <<replaced, known, everAcked, opened>>
    BY <1>2 DEF NodeFile!Fill, NodeFile!At, NodeFile!Goto
  <2>2. replacement' = [value |-> call[w].value, synced |-> FALSE]
    BY <1>2, <2>1 DEF NodeFile!Fill, NodeFile!Content
  <2>3. ReplacedTypeInv'
    BY <2>1, <2>2
  <2>4. WriterInv'
    <3> SUFFICES ASSUME NEW x \in Writer
                 PROVE  /\ opened' /\ replacement' # Nil /\ call'[x].step = "sync"
                        /\ replacement'.value = call'[x].value
      OBVIOUS
    <3>1. x = w /\ call'[w].step = "sync" /\ call'[w].value = call[w].value
      BY <2>1
    <3>2. replacement' # Nil
      BY <2>1, <2>2, ContentIsThere
    <3> QED BY <2>1, <2>2, <3>1, <3>2
  <2> QED BY <2>1, <2>3, <2>4 DEF NodeFile!ValueOf
<1>3. ASSUME NEW w \in Writer, NodeFile!Sync(w) PROVE ReplacedInv'
  <2>1. /\ call[w] # Nil /\ call[w] \in [value : FileContent, step : {"fill", "sync", "rename"}]
        /\ call[w].step = "sync" /\ replacement # Nil
        /\ call' = [call EXCEPT ![w] = [call[w] EXCEPT !.step = "rename"]]
        /\ replacement' = [replacement EXCEPT !.synced = TRUE]
        /\ UNCHANGED <<replaced, known, everAcked, opened>>
    BY <1>3 DEF NodeFile!Sync, NodeFile!At, NodeFile!Goto, NodeFile!Synced
  <2>2. ReplacedTypeInv'
    BY <2>1
  <2>3. WriterInv'
    BY <2>1
  <2> QED BY <2>1, <2>2, <2>3 DEF NodeFile!ValueOf
<1>4. ASSUME NEW w \in Writer, NodeFile!Rename(w) PROVE ReplacedInv'
  <2>1. /\ call[w] # Nil /\ call[w] \in [value : FileContent, step : {"fill", "sync", "rename"}]
        /\ call[w].step = "rename" /\ opened
        /\ call' = [call EXCEPT ![w] = Nil]
        /\ opened' = opened
    BY <1>4 DEF NodeFile!Rename, NodeFile!At, NodeFile!Return
  <2>2. replacement # Nil /\ replacement.value = call[w].value /\ replacement.synced
    BY <2>1
  <2>3. replaced' = replacement /\ replacement' = Nil /\ known' = call[w].value /\ everAcked' = TRUE
    BY <1>4, <2>2 DEF NodeFile!Rename
  <2>4. ReplacedTypeInv'
    BY <2>1, <2>3
  <2>5. WriterInv'
    BY <2>1
  <2> QED BY <2>1, <2>2, <2>3, <2>4, <2>5 DEF NodeFile!ValueOf
<1>5. CASE NodeFile!Crash
  <2>1. opened' = FALSE /\ call' = [w \in Writer |-> Nil] /\ UNCHANGED <<known, everAcked>>
    BY <1>5 DEF NodeFile!Crash
  <2>2. PICK f \in NodeFile!MayTear(replaced), t \in NodeFile!MayTear(replacement) :
          \/ replaced' = f /\ replacement' = t
          \/ (\E w \in Writer : NodeFile!At(w, "rename")) /\ t # Nil /\ replaced' = t /\ replacement' = Nil
    BY <1>5 DEF NodeFile!Crash
  <2> DEFINE Torn == [value |-> "torn", synced |-> FALSE]
  <2>3. /\ f = replaced \/ (f = Torn /\ replaced # Nil /\ ~replaced.synced)
        /\ t = replacement \/ (t = Torn /\ replacement # Nil /\ ~replacement.synced)
    BY DEF NodeFile!MayTear, NodeFile!Content
  <2>4. WriterInv'
    BY <2>1
  <2>5. CASE replaced' = f /\ replacement' = t
    <3>1. Torn \in [value : FileContent \cup {"torn"}, synced : BOOLEAN] /\ Torn # Nil
      BY ContentIsThere
    <3>2. ReplacedTypeInv'
      BY <2>1, <2>3, <2>5, <3>1
    <3>3. everAcked => f = replaced
      BY <2>3
    <3>4. everAcked' => replaced' # Nil /\ replaced'.synced /\ replaced'.value # "torn"
      BY <2>1, <2>5, <3>3
    <3> QED BY <2>1, <2>4, <3>2, <3>4
  <2>6. CASE (\E w \in Writer : NodeFile!At(w, "rename")) /\ t # Nil /\ replaced' = t /\ replacement' = Nil
    <3>1. PICK w \in Writer : call[w] # Nil /\ call[w].step = "rename"
      BY <2>6 DEF NodeFile!At
    <3>2. t = replacement /\ replacement.synced /\ replacement.value = call[w].value /\ replacement # Nil
      BY <2>3, <3>1
    <3>3. replacement.value # "torn"
      BY <3>1, <3>2
    <3> QED BY <2>1, <2>4, <2>6, <3>2, <3>3
  <2> QED BY <2>2, <2>5, <2>6
<1>6. CASE NodeFile!Open
  <2>1. /\ ~opened /\ replacement' = Nil /\ everAcked' = everAcked /\ call' = call
        /\ replaced' = IF replaced = Nil THEN replacement ELSE replaced
        /\ opened' = (NodeFile!ValueOf(replaced') # "torn")
        /\ opened' => known' = NodeFile!ValueOf(replaced')
    BY <1>6 DEF NodeFile!Open, NodeFile!Recovered
  <2>2. \A w \in Writer : call'[w] = Nil
    BY <2>1
  <2>3. ReplacedTypeInv'
    BY <2>1
  <2>4. NodeFile!ValueOf(replaced)' = NodeFile!ValueOf(replaced')
    BY DEF NodeFile!ValueOf
  <2> QED BY <2>1, <2>2, <2>3, <2>4
<1> QED BY <1>1, <1>2, <1>3, <1>4, <1>5, <1>6 DEF NodeFile!Next

\* With one writer, what a write or a start has reported is what the file holds,
\* through any number of crashes.
THEOREM KnownIsOnFile ==
    ASSUME \A v, w \in Writer : v = w
    PROVE  FilesSpec => []KnownIsRead
<1>1. FilesInit => ReplacedInv
  BY ReplacedInit DEF FilesInit
<1>2. ReplacedInv /\ [FilesNext]_filesVars => ReplacedInv'
  <2> SUFFICES ASSUME ReplacedInv, [FilesNext]_filesVars PROVE ReplacedInv'
    OBVIOUS
  <2>1. CASE NodeFile!Next
    BY <2>1, ReplacedNext
  <2>2. CASE UNCHANGED nodeFileVars
    BY <2>2 DEF nodeFileVars, ReplacedInv, ReplacedTypeInv, WriterInv, NodeFile!ValueOf
  <2> QED BY <2>1, <2>2 DEF FilesNext, OfLog, OfNodeFile, filesVars
<1>3. ReplacedInv => KnownIsRead
  BY DEF ReplacedInv, ReplacedTypeInv, KnownIsRead, NodeFile!KnownIsRead, NodeFile!ValueOf
<1> QED BY <1>1, <1>2, <1>3, PTL DEF FilesSpec
=============================================================================
