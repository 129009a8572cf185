----------------------------- MODULE StorageProofs -----------------------------
(***************************************************************************)
(* Theorems about the files of a database.                                 *)
(*                                                                         *)
(* AtomicFile: what makes a crash harmless is that between the journal and *)
(* the database file one is always right: the two files differ from their  *)
(* synced contents only where a committed record says what the block is to *)
(* hold, and the journal is emptied only once they agree.                  *)
(*                                                                         *)
(* FreeBlockFile: the free blocks are a chain from the head of the free    *)
(* list that shares no block with the blobs, with those to free or with    *)
(* those of the file as it was last committed, and all other blocks are in *)
(* use but those that a failed commit abandoned.                           *)
(***************************************************************************)
EXTENDS AtomicFile, FreeBlockFile, FiniteSetTheorems, SequenceTheorems, WellFoundedInduction, TLAPS

Contents == [Block -> Value]

\* Recovery, from the opening of the database to its end.
Recovering == after = "opened"

\* A process that has recovered is running.
Running == pc # "down" /\ ~Recovering

\* A checkpoint that makes room inside a transaction.
MakingRoom == pc \in {"copy", "truncate", "empty"} /\ after \in {"journal", "mark"}

PcInv ==
    /\ pc \in {"idle", "journal", "mark", "seal", "checkpoint", "down"} => after = "idle"
    /\ pc # "copy" => replay = {}
    /\ pc # "journal" /\ after # "journal" => unjournalled = {}

\* A commit marker stands in the journal beyond what was last synced.
UnsyncedMark == \E m \in Marks(wal) : m > Len(walDisk)

\* The last sync left a beginning of the journal, unless the journal was cut
\* since; at most one marker was appended after it, that of the running commit
\* or one in doubt, and none is while the journal is copied.
JournalInv ==
    /\ SizeOf(walDisk) <= WalSizeLimit
    /\ pc = "empty" => cut /\ wal = <<>>
    /\ cut => \A i \in 1 .. Len(wal) : wal[i].type = "WRITE"
    /\ ~cut =>
          /\ Len(walDisk) <= Len(wal)
          /\ \A i \in 1 .. Len(walDisk) : wal[i] = walDisk[i]
    /\ \A i, j \in Len(walDisk) + 1 .. Len(wal) :
          wal[i].type = "COMMIT" /\ wal[j].type = "COMMIT" => i = j
    /\ pc = "seal" => Len(wal) = Len(walDisk) + 1 /\ wal[Len(wal)] = CommitRecord
    /\ pc \in {"mark", "seal", "checkpoint"} => ~cut
    /\ pc \in {"mark", "checkpoint"} => wal = walDisk
    /\ pc = "down" => IF cut THEN wal = <<>> ELSE wal = walDisk
    /\ Recovering /\ pc # "empty" => ~cut /\ wal = walDisk
    /\ pc \in {"copy", "truncate"} \/ ~SealFails => ~InDoubt

\* A running process reads a journal it wrote itself, of blocks it still holds.
RunningInv ==
    Running =>
        /\ db \in Contents
        /\ \A i \in 1 .. Len(wal) :
              wal[i].intact /\ (wal[i].type = "WRITE" => wal[i].block \in DOMAIN staged)

\* Only blocks that a committed record restores may not be on disk yet, or torn.
FileInv ==
    /\ DiskContents \in Contents
    /\ \A b \in Block :
          WritesTo(b, walDisk, CommittedWrites(walDisk)) = {} => db[b] = dbDisk[b]
    /\ pc = "copy" =>
          /\ replay \subseteq CommittedWrites(wal)
          /\ Copied(db, wal, replay) = DiskContents
    /\ pc = "truncate" \/ cut => db = dbDisk /\ db = DiskContents

\* The contents that the running transaction asks for.
GoalInv ==
    pc \in {"journal", "mark", "seal", "checkpoint"} \/ MakingRoom =>
        \A b \in Block : goal[b] = Over(staged, db)[b]

IInv == TypeOK /\ PcInv /\ JournalInv /\ RunningInv /\ FileInv /\ GoalInv

\* No checkpoint makes room in a journal that holds a marker in doubt: that one
\* copies what is not synced yet.
NoRoomInDoubt == SealFails => ~(pc = "copy" /\ InDoubt)

\* No checkpoint has made room in the middle of a transaction: that one would
\* have dropped the blocks the transaction had journalled.
NoSplit ==
    /\ after = "journal" => unjournalled = DOMAIN staged
    /\ after # "mark"

\* The last record of block b in the journal says what is staged for it.
Journalled(b) ==
    \E i \in 1 .. Len(wal) :
        /\ wal[i] = WriteRecord(b, staged[b])
        /\ \A j \in i + 1 .. Len(wal) : wal[j].type = "WRITE" => wal[j].block # b

\* A commit has journalled the blocks it does not have to journal any more.
WholeInv ==
    pc \in {"journal", "mark", "seal", "checkpoint"} =>
        \A b \in DOMAIN staged \ unjournalled : Journalled(b)


-----------------------------------------------------------------------------
(* Least and greatest elements of sets of numbers. *)

\* A set of natural numbers has a least element.
LEMMA LeastExists ==
    ASSUME NEW S \in SUBSET Nat, S # {}
    PROVE  \E i \in S : \A j \in S : i <= j
<1> DEFINE R == OpToRel(<, Nat)
<1>1. IsWellFoundedOn(R, Nat)
  BY NatLessThanWellFounded
<1>2. ASSUME NEW x \in Nat, NEW y \in Nat, x < y PROVE <<x, y>> \in R
  BY <1>2 DEF OpToRel
<1> HIDE DEF R
<1>3. PICK x \in S : \A y \in S : ~(<<y, x>> \in R)
  BY <1>1, WFMin
<1>4. ASSUME NEW y \in S PROVE x <= y
  <2>1. x \in Nat /\ y \in Nat
    OBVIOUS
  <2>2. ~(y < x)
    BY <1>2, <1>3, <2>1
  <2> QED
    BY <2>1, <2>2
<1> QED
  BY <1>4

\* And a greatest one if it is bounded.
LEMMA GreatestExists ==
    ASSUME NEW n \in Nat, NEW S \in SUBSET (0 .. n), S # {}
    PROVE  \E i \in S : \A j \in S : j <= i
<1> DEFINE T == {n - i : i \in S}
<1>1. T \subseteq Nat
  <2>1. \A i \in S : n - i \in Nat
    OBVIOUS
  <2> QED
    BY <2>1
<1>2. T # {}
  OBVIOUS
<1>3. PICK k \in T : \A j \in T : k <= j
  BY <1>1, <1>2, LeastExists
<1>4. PICK i \in S : k = n - i
  BY <1>3
<1>5. ASSUME NEW j \in S PROVE j <= i
  <2>1. n - j \in T
    OBVIOUS
  <2>2. n - i <= n - j
    BY <1>3, <1>4, <2>1
  <2> QED
    BY <2>2
<1> QED
  BY <1>5

-----------------------------------------------------------------------------
(* The records of a journal and what copying them does. *)

Journal == Seq(Record)

\* A crash damages a record without making another of it.
LEMMA DamagedRecord ==
    ASSUME NEW r \in Record
    PROVE  Damaged(r) \in Record /\ ~Damaged(r).intact /\ Damaged(r).type = r.type
<1>1. CASE r.type = "WRITE"
  <2>1. PICK b \in Block, v \in Value, t \in BOOLEAN :
           r = [type |-> "WRITE", block |-> b, value |-> v, intact |-> t]
    BY <1>1 DEF Record
  <2> DEFINE d == [type |-> "WRITE", block |-> b, value |-> v, intact |-> FALSE]
  <2>2. Damaged(r) = [[type |-> "WRITE", block |-> b, value |-> v, intact |-> t]
                         EXCEPT !.intact = FALSE]
    BY <2>1, Zenon DEF Damaged
  <2>3. Damaged(r) = d
    BY <2>2
  <2>4. d \in [type : {"WRITE"}, block : Block, value : Value, intact : BOOLEAN]
    OBVIOUS
  <2>5. ~d.intact /\ d.type = "WRITE"
    OBVIOUS
  <2> HIDE DEF d
  <2>6. d \in Record
    BY <2>4 DEF Record
  <2> QED
    BY <1>1, <2>3, <2>5, <2>6
<1>2. CASE r.type # "WRITE"
  <2>1. PICK t \in BOOLEAN : r = [type |-> "COMMIT", intact |-> t]
    BY <1>2 DEF Record
  <2> DEFINE d == [type |-> "COMMIT", intact |-> FALSE]
  <2>2. Damaged(r) = [[type |-> "COMMIT", intact |-> t] EXCEPT !.intact = FALSE]
    BY <2>1, Zenon DEF Damaged
  <2>3. Damaged(r) = d
    BY <2>2
  <2>4. d \in [type : {"COMMIT"}, intact : BOOLEAN]
    OBVIOUS
  <2>5. ~d.intact /\ d.type = r.type
    BY <2>1
  <2> HIDE DEF d
  <2>6. d \in Record
    BY <2>4 DEF Record
  <2> QED
    BY <2>3, <2>5, <2>6
<1> QED
  BY <1>1, <1>2

\* k is the greatest element of S.
LastOf(k, S) == k \in S /\ \A j \in S : j <= k

\* A block that no copied record writes keeps its contents.
LEMMA NotCopied ==
    ASSUME NEW w, NEW places, NEW d, NEW b \in Block, WritesTo(b, w, places) = {}
    PROVE  Copied(d, w, places)[b] = d[b]
BY DEF Copied

\* The places of records of w.
ArePlaces(places, w) == w \in Journal /\ places \in SUBSET (1 .. Len(w))

\* There is a last one among the writes to a block.
LEMMA LastExists ==
    ASSUME NEW w, NEW places, ArePlaces(places, w), NEW b, WritesTo(b, w, places) # {}
    PROVE  \E k : LastOf(k, WritesTo(b, w, places))
<1> DEFINE Hits == WritesTo(b, w, places)
<1>1. Len(w) \in Nat
  BY DEF ArePlaces, Journal
<1>2. Hits \subseteq 0 .. Len(w)
  <2>1. Hits \subseteq 1 .. Len(w)
    BY DEF WritesTo, ArePlaces
  <2>2. 1 .. Len(w) \subseteq 0 .. Len(w)
    BY <1>1
  <2> QED
    BY <2>1, <2>2
<1> HIDE DEF Hits
<1>3. Hits # {} => \E k : LastOf(k, Hits)
  BY <1>1, <1>2, GreatestExists DEF LastOf
<1> QED
  BY <1>3 DEF Hits

\* And it decides what the block holds once they are copied.
LEMMA CopiedAt ==
    ASSUME NEW w, NEW places, ArePlaces(places, w), NEW f, NEW b \in Block,
           NEW k, LastOf(k, WritesTo(b, w, places))
    PROVE  Copied(f, w, places)[b] = w[k].value
<1> DEFINE Hits == WritesTo(b, w, places)
           c == CHOOSE i \in Hits : \A j \in Hits : j <= i
<1>1. Hits \subseteq Int
  <2>1. Hits \subseteq places /\ places \subseteq 1 .. Len(w)
    BY DEF WritesTo, ArePlaces
  <2>2. 1 .. Len(w) \subseteq Int
    OBVIOUS
  <2> QED
    BY <2>1, <2>2
<1>2. Copied(f, w, places)[b] = IF Hits = {} THEN f[b] ELSE w[c].value
  BY DEF Copied
<1>3. LastOf(k, Hits)
  OBVIOUS
<1> HIDE DEF Hits
<1>4. c \in Hits /\ \A j \in Hits : j <= c
  BY <1>3 DEF LastOf
<1> HIDE DEF c
<1>5. c <= k /\ k <= c /\ c \in Int /\ k \in Int
  BY <1>1, <1>3, <1>4 DEF LastOf
<1>6. c = k
  BY <1>5
<1> QED
  BY <1>2, <1>4, <1>6

\* Copying depends on nothing but the copied records and the blocks they leave.
LEMMA SameCopied ==
    ASSUME NEW w \in Journal, NEW v \in Journal, NEW d, NEW e,
           NEW places \in SUBSET (1 .. Len(w)), places \subseteq 1 .. Len(v),
           \A i \in places : v[i] = w[i],
           \A b \in Block : WritesTo(b, w, places) = {} => e[b] = d[b]
    PROVE  Copied(e, v, places) = Copied(d, w, places)
<1>1. ArePlaces(places, v) /\ ArePlaces(places, w)
  BY DEF ArePlaces
<1>2. ASSUME NEW b \in Block PROVE Copied(e, v, places)[b] = Copied(d, w, places)[b]
  <2>1. WritesTo(b, v, places) = WritesTo(b, w, places)
    BY DEF WritesTo
  <2>2. CASE WritesTo(b, w, places) = {}
    <3>1. Copied(e, v, places)[b] = e[b]
      BY <2>1, <2>2, NotCopied
    <3>2. Copied(d, w, places)[b] = d[b]
      BY <2>2, NotCopied
    <3> QED
      BY <2>2, <3>1, <3>2
  <2>3. CASE WritesTo(b, w, places) # {}
    <3>1. PICK k : LastOf(k, WritesTo(b, w, places))
      BY <1>1, <2>3, LastExists
    <3>2. Copied(e, v, places)[b] = v[k].value
      BY <1>1, <2>1, <3>1, CopiedAt
    <3>3. Copied(d, w, places)[b] = w[k].value
      BY <1>1, <3>1, CopiedAt
    <3>4. k \in places
      BY <3>1 DEF LastOf, WritesTo
    <3> QED
      BY <3>2, <3>3, <3>4
  <2> QED
    BY <2>2, <2>3
<1> QED
  BY <1>2 DEF Copied

\* What is committed stays committed when the journal grows.
LEMMA MoreCommitted ==
    ASSUME NEW w \in Journal, NEW v \in Journal, Len(w) <= Len(v),
           \A i \in 1 .. Len(w) : v[i] = w[i]
    PROVE  CommittedWrites(w) \subseteq CommittedWrites(v)
<1>1. Len(w) \in Nat /\ Len(v) \in Nat
  BY DEF Journal
<1>2. Marks(w) \subseteq Marks(v)
  BY <1>1 DEF Marks
<1> QED
  BY <1>1, <1>2 DEF CommittedWrites

\* And nothing becomes committed before a commit marker.
LEMMA SameCommitted ==
    ASSUME NEW w \in Journal, NEW v \in Journal, Len(w) <= Len(v),
           \A i \in 1 .. Len(w) : v[i] = w[i],
           \A m \in Marks(v) : m <= Len(w)
    PROVE  CommittedWrites(v) = CommittedWrites(w)
<1>1. Len(w) \in Nat /\ Len(v) \in Nat
  BY DEF Journal
<1>2. ASSUME NEW m \in Marks(v) PROVE m \in Marks(w)
  <2>1. m \in 1 .. Len(v) /\ v[m].type = "COMMIT" /\ \A i \in 1 .. m : v[i].intact
    BY DEF Marks
  <2>2. m \in 1 .. Len(w)
    BY <1>1, <2>1
  <2> QED
    BY <1>1, <2>1, <2>2 DEF Marks
<1>3. ASSUME NEW i \in CommittedWrites(v) PROVE i \in CommittedWrites(w)
  <2>1. PICK m \in Marks(v) : i \in 1 .. Len(v) /\ v[i].type = "WRITE" /\ i < m
    BY DEF CommittedWrites
  <2>2. m \in Marks(w) /\ m \in 1 .. Len(w)
    BY <1>2 DEF Marks
  <2> QED
    BY <1>1, <2>1, <2>2 DEF CommittedWrites
<1> QED
  BY <1>3, MoreCommitted

\* A journal without markers commits nothing.
LEMMA NothingCommitted ==
    ASSUME NEW w, \A i \in 1 .. Len(w) : w[i].type = "WRITE"
    PROVE  Marks(w) = {} /\ CommittedWrites(w) = {}
BY DEF Marks, CommittedWrites

\* A journal without damage is committed as a whole by a marker at its end.
LEMMA AllCommitted ==
    ASSUME NEW w \in Journal, Len(w) # 0, w[Len(w)].type = "COMMIT",
           \A i \in 1 .. Len(w) : w[i].intact
    PROVE  CommittedWrites(w) = {i \in 1 .. Len(w) : w[i].type = "WRITE"}
<1>1. Len(w) \in Nat
  BY DEF Journal
<1>2. Len(w) \in Marks(w)
  BY <1>1 DEF Marks
<1>3. ASSUME NEW i \in 1 .. Len(w), w[i].type = "WRITE" PROVE i < Len(w)
  <2> DEFINE n == Len(w)
  <2>1. i \in 1 .. n /\ n \in Nat /\ i # n
    BY <1>1, <1>3
  <2> HIDE DEF n
  <2>2. i < n
    BY <2>1
  <2> QED
    BY <2>2 DEF n
<1> QED
  BY <1>2, <1>3 DEF CommittedWrites

-----------------------------------------------------------------------------
(* The size of a journal. *)

LEMMA PlacesAreFinite ==
    ASSUME NEW n \in Nat
    PROVE  IsFiniteSet(1 .. n) /\ Cardinality(1 .. n) = n
BY FS_Interval

LEMMA SizeFacts ==
    ASSUME NEW w \in Journal
    PROVE  LET Commits == {i \in 1 .. Len(w) : w[i].type = "COMMIT"}
           IN  /\ IsFiniteSet(Commits)
               /\ Cardinality(Commits) \in Nat
               /\ Len(w) - Cardinality(Commits) \in Nat
<1> DEFINE Commits == {i \in 1 .. Len(w) : w[i].type = "COMMIT"}
<1>1. Len(w) \in Nat
  BY DEF Journal
<1>2. IsFiniteSet(1 .. Len(w)) /\ Cardinality(1 .. Len(w)) = Len(w)
  BY <1>1, PlacesAreFinite
<1>3. IsFiniteSet(Commits) /\ Cardinality(Commits) <= Len(w)
  BY <1>2, FS_Subset
<1>4. Cardinality(Commits) \in Nat
  BY <1>3, FS_CardinalityType
<1> HIDE DEF Commits
<1>5. Len(w) - Cardinality(Commits) \in Nat
  BY <1>1, <1>3, <1>4
<1> QED
  BY <1>3, <1>4, <1>5 DEF Commits

\* The sizes of k markers and of the other records among n.
LEMMA SizeArithmetic ==
    ASSUME NEW k \in Nat, NEW n \in Nat
    PROVE  /\ CommitSize * k + WriteSize * (n + 1) = CommitSize * k + WriteSize * n + WriteSize
           /\ CommitSize * (k + 1) + WriteSize * n = CommitSize * k + WriteSize * n + CommitSize
           /\ CommitSize * k + WriteSize * n \in Nat
<1>1. CommitSize \in Nat /\ WriteSize \in Nat
  BY AtomicFileAssumption
<1> QED
  BY <1>1

LEMMA SizeGrows ==
    ASSUME NEW c \in Nat, NEW k \in Nat, NEW l \in Nat, k <= l
    PROVE  c * k <= c * l
<1>1. PICK d \in Nat : l = k + d
  <2>1. l - k \in Nat /\ l = k + (l - k)
    OBVIOUS
  <2> QED
    BY <2>1
<1>2. c * l = c * k + c * d
  BY <1>1
<1>3. c * d \in Nat /\ c * k \in Nat
  OBVIOUS
<1> QED
  BY <1>2, <1>3

LEMMA EmptySize == SizeOf(<<>>) = 0
<1>1. {i \in 1 .. Len(<<>>) : (<<>>)[i].type = "COMMIT"} = {}
  OBVIOUS
<1>2. Cardinality({}) = 0 /\ Len(<<>>) = 0
  BY FS_EmptySet
<1>3. CommitSize * 0 + WriteSize * (0 - 0) = 0
  BY AtomicFileAssumption
<1> QED
  BY <1>1, <1>2, <1>3 DEF SizeOf

\* An appended record adds its size.
LEMMA SizeAppended ==
    ASSUME NEW w \in Journal, NEW r \in Record
    PROVE  /\ r.type = "WRITE" => SizeOf(Append(w, r)) = SizeOf(w) + WriteSize
           /\ r.type = "COMMIT" => SizeOf(Append(w, r)) = SizeOf(w) + CommitSize
           /\ SizeOf(w) \in Nat
<1> DEFINE C(v) == {i \in 1 .. Len(v) : v[i].type = "COMMIT"}
           n == Len(w)
           k == Cardinality(C(w))
           v == Append(w, r)
<1>1. n \in Nat /\ Len(v) = n + 1 /\ v[n + 1] = r /\ \A i \in 1 .. n : v[i] = w[i]
  BY DEF Journal
<1>2. IsFiniteSet(C(w)) /\ k \in Nat /\ n - k \in Nat
  BY SizeFacts
<1>3. SizeOf(w) = CommitSize * k + WriteSize * (n - k)
  BY DEF SizeOf
<1> DEFINE m == Len(v)
           j == n + 1
<1>4. SizeOf(v) = CommitSize * Cardinality(C(v)) + WriteSize * (j - Cardinality(C(v)))
  <2>1. m = j
    BY <1>1
  <2> HIDE DEF v
  <2>2. SizeOf(v) = CommitSize * Cardinality(C(v)) + WriteSize * (m - Cardinality(C(v)))
    BY DEF SizeOf
  <2> HIDE DEF C, m, j
  <2> QED
    BY <2>1, <2>2
<1>5. r.type = "WRITE" => C(v) = C(w)
  <2> HIDE DEF v
  <2> QED
    BY <1>1
<1>6. r.type = "COMMIT" => C(v) = C(w) \cup {n + 1} /\ n + 1 \notin C(w)
  <2> HIDE DEF v
  <2> QED
    BY <1>1
<1>7. r.type = "COMMIT" => Cardinality(C(v)) = k + 1
  BY <1>2, <1>6, FS_AddElement
<1> HIDE DEF C, k, v, n
<1>8. j - k = (n - k) + 1 /\ j - (k + 1) = n - k
  BY <1>1, <1>2
<1> HIDE DEF j
<1>9. r.type = "WRITE" => SizeOf(v) = SizeOf(w) + WriteSize
  <2> SUFFICES ASSUME r.type = "WRITE" PROVE SizeOf(v) = SizeOf(w) + WriteSize
    OBVIOUS
  <2>1. SizeOf(v) = CommitSize * k + WriteSize * ((n - k) + 1)
    BY <1>4, <1>5, <1>8 DEF k
  <2> QED
    BY <1>2, <1>3, <2>1, SizeArithmetic
<1>10. r.type = "COMMIT" => SizeOf(v) = SizeOf(w) + CommitSize
  <2> SUFFICES ASSUME r.type = "COMMIT" PROVE SizeOf(v) = SizeOf(w) + CommitSize
    OBVIOUS
  <2>1. SizeOf(v) = CommitSize * (k + 1) + WriteSize * (n - k)
    BY <1>4, <1>7, <1>8
  <2> QED
    BY <1>2, <1>3, <2>1, SizeArithmetic
<1>11. SizeOf(w) \in Nat
  BY <1>2, <1>3, SizeArithmetic
<1> QED
  BY <1>9, <1>10, <1>11 DEF v

\* The beginning of a journal is no larger, damaged or not.
LEMMA SizeOfPart ==
    ASSUME NEW w \in Journal, NEW v \in Journal, Len(v) <= Len(w),
           \A i \in 1 .. Len(v) : v[i].type = w[i].type
    PROVE  SizeOf(v) <= SizeOf(w)
<1> DEFINE C(u) == {i \in 1 .. Len(u) : u[i].type = "COMMIT"}
           O(u) == {i \in 1 .. Len(u) : u[i].type # "COMMIT"}
<1>1. ASSUME NEW u \in Journal
      PROVE  /\ IsFiniteSet(C(u)) /\ IsFiniteSet(O(u))
             /\ Cardinality(C(u)) \in Nat /\ Cardinality(O(u)) \in Nat
             /\ SizeOf(u) = CommitSize * Cardinality(C(u)) + WriteSize * Cardinality(O(u))
  <2>1. Len(u) \in Nat
    BY DEF Journal
  <2>2. IsFiniteSet(1 .. Len(u)) /\ Cardinality(1 .. Len(u)) = Len(u)
    BY <2>1, PlacesAreFinite
  <2>3. IsFiniteSet(C(u)) /\ IsFiniteSet(O(u))
    BY <2>2, FS_Subset
  <2>4. Cardinality(C(u)) \in Nat /\ Cardinality(O(u)) \in Nat
    BY <2>3, FS_CardinalityType
  <2>5. O(u) = (1 .. Len(u)) \ C(u) /\ (1 .. Len(u)) \cap C(u) = C(u)
    OBVIOUS
  <2>6. Cardinality(O(u)) = Len(u) - Cardinality(C(u))
    <3> HIDE DEF C, O
    <3>1. Cardinality((1 .. Len(u)) \ C(u)) = Cardinality(1 .. Len(u)) - Cardinality((1 .. Len(u)) \cap C(u))
      BY <2>2, FS_Difference
    <3> QED
      BY <2>2, <2>5, <3>1
  <2> QED
    BY <2>3, <2>4, <2>6 DEF SizeOf
<1>2. C(v) \subseteq C(w) /\ O(v) \subseteq O(w)
  <2>1. Len(v) \in Nat /\ Len(w) \in Nat
    BY DEF Journal
  <2> QED
    BY <2>1
<1>3. Cardinality(C(v)) <= Cardinality(C(w)) /\ Cardinality(O(v)) <= Cardinality(O(w))
  BY <1>1, <1>2, FS_Subset
<1>4. CommitSize \in Nat /\ WriteSize \in Nat
  BY AtomicFileAssumption
<1> HIDE DEF C, O
<1>5. /\ CommitSize * Cardinality(C(v)) <= CommitSize * Cardinality(C(w))
      /\ WriteSize * Cardinality(O(v)) <= WriteSize * Cardinality(O(w))
  BY <1>1, <1>3, <1>4, SizeGrows
<1> DEFINE a == CommitSize * Cardinality(C(v))
           b == WriteSize * Cardinality(O(v))
           c == CommitSize * Cardinality(C(w))
           d == WriteSize * Cardinality(O(w))
<1>6. a \in Nat /\ b \in Nat /\ c \in Nat /\ d \in Nat
  BY SMTT(20), <1>1, <1>4
<1>7. a <= c /\ b <= d
  BY <1>5
<1>8. SizeOf(v) = a + b /\ SizeOf(w) = c + d
  BY <1>1
<1> HIDE DEF a, b, c, d
<1> QED
  BY <1>6, <1>7, <1>8

-----------------------------------------------------------------------------
(* What a crash leaves. *)

\* What is left of a journal w at the places up to n, some of them damaged.
LEMMA PartOfJournal ==
    ASSUME NEW w \in Journal, NEW n \in 0 .. Len(w), NEW lost \in SUBSET (1 .. Len(w)),
           NEW v, v = [i \in 1 .. n |-> IF i \in lost THEN Damaged(w[i]) ELSE w[i]]
    PROVE  /\ v \in Journal /\ Len(v) = n
           /\ \A i \in 1 .. n : v[i].type = w[i].type
           /\ \A i \in 1 .. n : i \notin lost => v[i] = w[i]
           /\ \A i \in 1 .. n : i \in lost => ~v[i].intact
           /\ SizeOf(w) <= WalSizeLimit => SizeOf(v) <= WalSizeLimit
<1>1. Len(w) \in Nat /\ n \in Nat /\ n <= Len(w)
  BY DEF Journal
<1>2. ASSUME NEW i \in 1 .. n
      PROVE  /\ v[i] \in Record /\ v[i].type = w[i].type
             /\ i \notin lost => v[i] = w[i]
             /\ i \in lost => ~v[i].intact
  <2>1. w[i] \in Record
    BY <1>1 DEF Journal
  <2>2. v[i] = IF i \in lost THEN Damaged(w[i]) ELSE w[i]
    OBVIOUS
  <2> QED
    BY <2>1, <2>2, DamagedRecord
<1>3. v \in [1 .. n -> Record]
  BY <1>2
<1>4. v \in Journal /\ Len(v) = n
  BY <1>1, <1>3 DEF Journal
<1>5. SizeOf(v) <= SizeOf(w)
  BY <1>1, <1>2, <1>4, SizeOfPart
<1>6. SizeOf(v) \in Nat /\ SizeOf(w) \in Nat
  <2>1. CommitRecord \in Record
    BY DEF CommitRecord, Record
  <2> QED
    BY <1>4, <2>1, SizeAppended
<1> QED
  BY <1>2, <1>4, <1>5, <1>6, AtomicFileAssumption

\* After a truncation, the journal of the last sync or a part of the one since;
\* else the one of the last sync, prolonged by a part of what was appended since,
\* where the only marker that may come with it brings what precedes it along.
LEMMA JournalLeft ==
    ASSUME TypeOK, JournalInv, NEW w \in JournalsLeft
    PROVE  /\ w \in Journal
           /\ SizeOf(w) <= WalSizeLimit
           /\ cut => w = walDisk \/ \A i \in 1 .. Len(w) : w[i].type = "WRITE"
           /\ ~cut =>
                 /\ Len(walDisk) <= Len(w)
                 /\ \A i \in 1 .. Len(walDisk) : w[i] = walDisk[i]
                 /\ \/ \A m \in Marks(w) : m <= Len(walDisk)
                    \/ /\ UnsyncedMark
                       /\ CommittedWrites(w) = CommittedWrites(wal)
                       /\ \A i \in CommittedWrites(wal) : w[i] = wal[i]
<1>1. wal \in Journal /\ walDisk \in Journal /\ SizeOf(wal) <= WalSizeLimit
  BY DEF TypeOK, Journal
<1>2. Len(wal) \in Nat /\ Len(walDisk) \in Nat
  BY <1>1 DEF Journal
<1>3. CASE cut /\ w = walDisk
  BY <1>1, <1>3 DEF JournalInv
<1>4. CASE ~(cut /\ w = walDisk)
  <2> DEFINE synced == IF cut THEN 0 ELSE Len(walDisk)
  <2>1. PICK n \in synced .. Len(wal), lost \in SUBSET (synced + 1 .. Len(wal)) :
           w = [i \in 1 .. n |-> IF i \in lost THEN Damaged(wal[i]) ELSE wal[i]]
    BY <1>4 DEF JournalsLeft
  <2>2. synced \in Nat /\ n \in 0 .. Len(wal) /\ lost \in SUBSET (1 .. Len(wal)) /\ synced <= n
    BY <1>2
  <2>3. /\ w \in Journal /\ Len(w) = n
        /\ \A i \in 1 .. n : w[i].type = wal[i].type
        /\ \A i \in 1 .. n : i \notin lost => w[i] = wal[i]
        /\ \A i \in 1 .. n : i \in lost => ~w[i].intact
        /\ SizeOf(w) <= WalSizeLimit
    BY <1>1, <2>1, <2>2, PartOfJournal, SMTT(30)
  <2>4. CASE cut
    <3>1. \A i \in 1 .. Len(w) : w[i].type = "WRITE"
      BY <1>2, <2>2, <2>3, <2>4 DEF JournalInv
    <3> QED
      BY <2>3, <2>4, <3>1
  <2>5. CASE ~cut
    <3>1. synced = Len(walDisk)
      BY <2>5
    <3> HIDE DEF synced
    <3>2. ASSUME NEW i \in 1 .. Len(walDisk) PROVE w[i] = walDisk[i]
      <4>1. i \in 1 .. n /\ i \notin lost
        BY <1>2, <2>1, <2>2, <3>1
      <4> QED
        BY <2>3, <2>5, <4>1 DEF JournalInv
    <3>3. ASSUME NEW m \in Marks(w), ~(m <= Len(walDisk))
          PROVE  /\ UnsyncedMark
                 /\ CommittedWrites(w) = CommittedWrites(wal)
                 /\ \A i \in CommittedWrites(wal) : w[i] = wal[i]
      <4>1. m \in 1 .. n /\ w[m].type = "COMMIT" /\ \A i \in 1 .. m : w[i].intact
        BY <2>3 DEF Marks
      <4>2. \A i \in 1 .. m : i \in 1 .. n /\ i \in 1 .. Len(wal) /\ w[i] = wal[i]
        BY <1>2, <2>2, <2>3, <4>1
      <4>3. m \in 1 .. m /\ m \in Len(walDisk) + 1 .. Len(wal)
        BY <1>2, <2>2, <3>3, <4>1
      <4>4. m \in Marks(wal) /\ m > Len(walDisk)
        BY <1>2, <4>1, <4>2, <4>3 DEF Marks
      <4>5. ASSUME NEW k \in Marks(wal) PROVE k <= m
        <5>1. k \in 1 .. Len(wal) /\ wal[k].type = "COMMIT"
          BY DEF Marks
        <5>2. CASE k <= Len(walDisk)
          BY <1>2, <4>3, <5>1, <5>2
        <5>3. CASE ~(k <= Len(walDisk))
          <6>1. k \in Len(walDisk) + 1 .. Len(wal)
            BY <1>2, <5>1, <5>3
          <6>2. wal[m].type = "COMMIT"
            BY <4>1, <4>2, <4>3
          <6>3. k = m
            BY <4>3, <5>1, <6>1, <6>2 DEF JournalInv
          <6> QED
            BY <4>3, <6>3
        <5> QED
          BY <5>2, <5>3
      <4>6. ASSUME NEW k \in Marks(w) PROVE k <= m
        <5>1. k \in 1 .. n /\ w[k].type = "COMMIT" /\ k \in 1 .. Len(wal)
          BY <1>2, <2>2, <2>3 DEF Marks
        <5>2. wal[k].type = "COMMIT" /\ wal[m].type = "COMMIT"
          BY <2>3, <4>1, <5>1
        <5>3. CASE k <= Len(walDisk)
          BY <1>2, <4>3, <5>1, <5>3
        <5>4. CASE ~(k <= Len(walDisk))
          <6>1. k \in Len(walDisk) + 1 .. Len(wal)
            BY <1>2, <5>1, <5>4
          <6>2. k = m
            BY <4>3, <5>2, <6>1 DEF JournalInv
          <6> QED
            BY <4>3, <6>2
        <5> QED
          BY <5>3, <5>4
      <4>7. \A i \in CommittedWrites(wal) : i \in 1 .. m /\ i < m
        <5> SUFFICES ASSUME NEW i \in CommittedWrites(wal) PROVE i \in 1 .. m /\ i < m
          OBVIOUS
        <5>1. PICK k \in Marks(wal) : i < k /\ i \in 1 .. Len(wal)
          BY DEF CommittedWrites
        <5>2. k <= m /\ k \in 1 .. Len(wal)
          BY <4>5 DEF Marks
        <5> QED
          BY <1>2, <4>3, <5>1, <5>2
      <4>8. \A i \in CommittedWrites(w) : i \in 1 .. m /\ i < m
        <5> SUFFICES ASSUME NEW i \in CommittedWrites(w) PROVE i \in 1 .. m /\ i < m
          OBVIOUS
        <5>1. PICK k \in Marks(w) : i < k /\ i \in 1 .. Len(w)
          BY DEF CommittedWrites
        <5>2. k <= m /\ k \in 1 .. Len(w)
          BY <4>6 DEF Marks
        <5> QED
          BY <1>2, <2>2, <2>3, <4>3, <5>1, <5>2
      <4>9. ASSUME NEW i \in CommittedWrites(wal) PROVE i \in CommittedWrites(w)
        <5>1. i \in 1 .. m /\ i < m /\ wal[i].type = "WRITE"
          BY <4>7 DEF CommittedWrites
        <5> QED
          BY <2>3, <3>3, <4>2, <5>1 DEF CommittedWrites
      <4>10. ASSUME NEW i \in CommittedWrites(w) PROVE i \in CommittedWrites(wal)
        <5>1. i \in 1 .. m /\ i < m /\ w[i].type = "WRITE"
          BY <4>8 DEF CommittedWrites
        <5> QED
          BY <4>2, <4>4, <5>1 DEF CommittedWrites
      <4> QED
        BY <4>2, <4>4, <4>7, <4>9, <4>10 DEF UnsyncedMark
    <3>4. Len(walDisk) <= Len(w)
      BY <2>2, <2>3, <3>1
    <3> QED
      BY <2>3, <2>5, <3>2, <3>3, <3>4
  <2> QED
    BY <2>4, <2>5
<1> QED
  BY <1>3, <1>4

-----------------------------------------------------------------------------
(* The steps of a commit. *)

\* The types that the steps below need.
LEMMA Types ==
    ASSUME TypeOK
    PROVE  /\ wal \in Journal /\ walDisk \in Journal
           /\ Len(wal) \in Nat /\ Len(walDisk) \in Nat
           /\ \A i \in 1 .. Len(wal) : wal[i] \in Record
           /\ \A i \in 1 .. Len(walDisk) : walDisk[i] \in Record
           /\ DOMAIN db = Block /\ DOMAIN dbDisk = Block /\ DOMAIN goal = Block
           /\ DOMAIN staged \subseteq Block
           /\ \A b \in DOMAIN staged : staged[b] \in Value
<1>1. wal \in Journal /\ walDisk \in Journal
  BY DEF TypeOK, Journal
<1>2. PICK bs \in SUBSET Block : staged \in [bs -> Value]
  BY DEF TypeOK
<1>3. DOMAIN staged \subseteq Block /\ \A b \in DOMAIN staged : staged[b] \in Value
  BY <1>2
<1>4. DOMAIN db = Block /\ DOMAIN dbDisk = Block /\ DOMAIN goal = Block
  BY DEF TypeOK
<1>5. /\ Len(wal) \in Nat /\ Len(walDisk) \in Nat
      /\ \A i \in 1 .. Len(wal) : wal[i] \in Record
      /\ \A i \in 1 .. Len(walDisk) : walDisk[i] \in Record
  BY <1>1 DEF Journal
<1> QED
  BY <1>1, <1>3, <1>4, <1>5

LEMMA RecordTypes ==
    /\ CommitRecord \in Record /\ CommitRecord.type = "COMMIT" /\ CommitRecord.intact
    /\ \A b \in Block, v \in Value :
          /\ WriteRecord(b, v) \in Record /\ WriteRecord(b, v).type = "WRITE"
          /\ WriteRecord(b, v).block = b /\ WriteRecord(b, v).value = v
          /\ WriteRecord(b, v).intact
    /\ \A r \in Record : r.type = "WRITE" => r.block \in Block /\ r.value \in Value
    /\ \A r \in Record : r.type \in {"WRITE", "COMMIT"}
<1>1. CommitRecord \in Record /\ CommitRecord.type = "COMMIT" /\ CommitRecord.intact
  BY DEF CommitRecord, Record
<1>2. ASSUME NEW b \in Block, NEW v \in Value
      PROVE  /\ WriteRecord(b, v) \in Record /\ WriteRecord(b, v).type = "WRITE"
             /\ WriteRecord(b, v).block = b /\ WriteRecord(b, v).value = v
             /\ WriteRecord(b, v).intact
  <2> DEFINE r == [type |-> "WRITE", block |-> b, value |-> v, intact |-> TRUE]
  <2>1. r \in [type : {"WRITE"}, block : Block, value : Value, intact : BOOLEAN]
    OBVIOUS
  <2>2. r.type = "WRITE" /\ r.block = b /\ r.value = v /\ r.intact
    OBVIOUS
  <2>3. WriteRecord(b, v) = r
    BY DEF WriteRecord
  <2> HIDE DEF r
  <2>4. r \in Record
    BY <2>1 DEF Record
  <2> QED
    BY <2>2, <2>3, <2>4
<1>3. ASSUME NEW r \in Record
      PROVE  /\ r.type = "WRITE" => r.block \in Block /\ r.value \in Value
             /\ r.type \in {"WRITE", "COMMIT"}
  BY DEF Record
<1> QED
  BY <1>1, <1>2, <1>3

\* What a file over staged writes reads as.
LEMMA OverAt ==
    ASSUME NEW f, NEW g, NEW b \in DOMAIN g
    PROVE  Over(f, g)[b] = IF b \in DOMAIN f THEN f[b] ELSE g[b]
BY DEF Over

\* Staging more blocks keeps the type of staged.
LEMMA OverStaged ==
    ASSUME NEW bs \in SUBSET Block, NEW f \in [bs -> Value],
           NEW cs \in SUBSET Block, NEW g \in [cs -> Value]
    PROVE  Over(f, g) \in [bs \cup cs -> Value]
BY DEF Over

LEMMA NothingStaged ==
    NoWrites \in UNION {[bs -> Value] : bs \in SUBSET Block} /\ DOMAIN NoWrites = {}
<1>1. NoWrites \in [{} -> Value] /\ DOMAIN NoWrites = {}
  BY DEF NoWrites
<1> QED
  BY <1>1

\* An empty journal commits nothing.
LEMMA EmptyJournal ==
    /\ <<>> \in Journal /\ Len(<<>>) = 0
    /\ CommittedWrites(<<>>) = {}
    /\ \A b \in Block : WritesTo(b, <<>>, {}) = {}
    /\ \A w, d : d = [b \in Block |-> d[b]] => Copied(d, w, {}) = d
<1>1. <<>> \in Journal /\ Len(<<>>) = 0
  BY DEF Journal
<1>2. CommittedWrites(<<>>) = {}
  BY DEF CommittedWrites
<1>3. \A b \in Block : \A w : WritesTo(b, w, {}) = {}
  BY DEF WritesTo
<1>4. ASSUME NEW w, NEW d, d = [b \in Block |-> d[b]] PROVE Copied(d, w, {}) = d
  <2>1. \A b \in Block : Copied(d, w, {})[b] = d[b]
    BY <1>3, NotCopied
  <2>2. Copied(d, w, {}) = [b \in Block |-> Copied(d, w, {})[b]]
    BY DEF Copied
  <2> QED
    BY <1>4, <2>1, <2>2
<1> QED
  BY <1>1, <1>2, <1>3, <1>4

\* Copying the committed records restores every block that is not in the file.
LEMMA RestoredContents ==
    ASSUME NEW w \in Journal, NEW d,
           \A b \in Block : WritesTo(b, w, CommittedWrites(w)) = {} => d[b] \in Value
    PROVE  Copied(d, w, CommittedWrites(w)) \in Contents
<1> DEFINE P == CommittedWrites(w)
<1>1. ArePlaces(P, w) /\ \A i \in P : i \in 1 .. Len(w) /\ w[i].type = "WRITE"
  BY DEF CommittedWrites, ArePlaces
<1>2. \A i \in 1 .. Len(w) : w[i] \in Record
  BY DEF Journal
<1> HIDE DEF P
<1>3. ASSUME NEW b \in Block PROVE Copied(d, w, P)[b] \in Value
  <2>1. CASE WritesTo(b, w, P) = {}
    BY <2>1, NotCopied DEF P
  <2>2. CASE WritesTo(b, w, P) # {}
    <3>1. PICK k : LastOf(k, WritesTo(b, w, P))
      BY <1>1, <2>2, LastExists
    <3>2. Copied(d, w, P)[b] = w[k].value
      BY <1>1, <3>1, CopiedAt
    <3>3. k \in P
      BY <3>1 DEF LastOf, WritesTo
    <3>4. w[k] \in Record /\ w[k].type = "WRITE"
      BY <1>1, <1>2, <3>3
    <3> QED
      BY <3>2, <3>4, RecordTypes
  <2> QED
    BY <2>1, <2>2
<1>4. Copied(d, w, P) = [b \in Block |-> Copied(d, w, P)[b]]
  BY DEF Copied
<1>5. Copied(d, w, P) \in Contents
  BY <1>3, <1>4 DEF Contents
<1> QED
  BY <1>5 DEF P

\* Where no marker is in doubt, syncing or copying the journal changes nothing of
\* what the files stand for.
LEMMA SyncedJournal ==
    ASSUME TypeOK, JournalInv, FileInv, pc # "seal", ~InDoubt
    PROVE  /\ \A b \in Block : WritesTo(b, wal, CommittedWrites(wal)) = {} => db[b] = dbDisk[b]
           /\ Copied(dbDisk, wal, CommittedWrites(wal)) = DiskContents
           /\ Copied(db, wal, CommittedWrites(wal)) = DiskContents
           /\ cut => CommittedWrites(wal) = {}
           /\ ~cut =>
                 /\ Copied(db, walDisk, CommittedWrites(walDisk)) = DiskContents
                 /\ CommittedWrites(wal) = CommittedWrites(walDisk)
                 /\ \A b \in Block : WritesTo(b, wal, CommittedWrites(wal))
                                        = WritesTo(b, walDisk, CommittedWrites(walDisk))
<1>1. wal \in Journal /\ walDisk \in Journal /\ Len(wal) \in Nat /\ Len(walDisk) \in Nat
  BY Types
<1>2. CASE cut
  <2>1. CommittedWrites(wal) = {}
    BY <1>2, NothingCommitted DEF JournalInv
  <2>2. db = dbDisk /\ db = DiskContents
    BY <1>2 DEF FileInv
  <2>3. db = [b \in Block |-> db[b]]
    BY DEF TypeOK
  <2>4. Copied(db, wal, {}) = db
    BY <2>3, EmptyJournal
  <2> QED
    BY <1>2, <2>1, <2>2, <2>4
<1>3. CASE ~cut
  <2> DEFINE P == CommittedWrites(walDisk)
  <2>2. /\ Len(walDisk) <= Len(wal)
        /\ \A i \in 1 .. Len(walDisk) : wal[i] = walDisk[i]
    BY <1>3 DEF JournalInv
  <2>3. CommittedWrites(wal) = P
    <3>1. ASSUME NEW m \in Marks(wal) PROVE m <= Len(walDisk)
      <4>1. m \in Nat /\ ~(m > Len(walDisk))
        BY <1>1 DEF InDoubt, Marks
      <4> QED
        BY <1>1, <4>1
    <3> QED
      BY <1>1, <2>2, <3>1, SameCommitted
  <2>4. P \in SUBSET (1 .. Len(walDisk)) /\ P \subseteq 1 .. Len(wal)
    BY <1>1, <2>2 DEF CommittedWrites
  <2>5. \A i \in P : wal[i] = walDisk[i]
    BY <2>2, <2>4
  <2>6. DiskContents = Copied(dbDisk, walDisk, P)
    BY DEF DiskContents
  <2>7. \A b \in Block : WritesTo(b, walDisk, P) = {} => db[b] = dbDisk[b]
    BY DEF FileInv
  <2> HIDE DEF P
  <2>8. Copied(dbDisk, wal, P) = Copied(dbDisk, walDisk, P)
    BY <1>1, <2>4, <2>5, SameCopied
  <2>9. Copied(db, wal, P) = Copied(dbDisk, walDisk, P)
    BY <1>1, <2>4, <2>5, <2>7, SameCopied
  <2>10. Copied(db, walDisk, P) = Copied(dbDisk, walDisk, P)
    BY <1>1, <2>4, <2>7, SameCopied
  <2>11. \A b \in Block : WritesTo(b, wal, P) = WritesTo(b, walDisk, P)
    BY <2>5 DEF WritesTo
  <2>12. CommittedWrites(walDisk) = P
    BY DEF P
  <2> QED
    BY <1>3, <2>3, <2>6, <2>7, <2>8, <2>9, <2>10, <2>11, <2>12
<1> QED
  BY <1>2, <1>3

-----------------------------------------------------------------------------
(* Every step keeps the invariant. *)

\* What the disk will stand for once the marker that is being written is there.
Sealing == Copied(dbDisk, wal, CommittedWrites(wal))

\* No marker is in doubt in a journal that is synced or has none.
LEMMA NoDoubt ==
    ASSUME TypeOK,
           wal = walDisk \/ \A i \in 1 .. Len(wal) : wal[i].type = "WRITE"
    PROVE  ~UnsyncedMark /\ ~InDoubt
<1>1. Len(wal) \in Nat /\ Len(walDisk) \in Nat
  BY Types
<1>2. CASE wal = walDisk
  BY <1>1, <1>2 DEF UnsyncedMark, InDoubt, Marks
<1>3. CASE \A i \in 1 .. Len(wal) : wal[i].type = "WRITE"
  BY <1>3, NothingCommitted DEF UnsyncedMark, InDoubt
<1> QED
  BY <1>2, <1>3

LEMMA InitInv == ASSUME Init PROVE IInv
<1>1. wal = <<>> /\ walDisk = <<>> /\ cut = FALSE /\ db = [b \in Block |-> Blank] /\ dbDisk = db /\ goal = db
  BY DEF Init
<1>2. db \in Contents
  BY <1>1, AtomicFileAssumption DEF Contents
<1>3. DiskContents = db
  BY <1>1, EmptyJournal DEF DiskContents
<1>4. TypeOK
  <2>1. wal \in Seq(Record) /\ walDisk \in Seq(Record) /\ SizeOf(wal) <= WalSizeLimit
    BY <1>1, EmptySize, AtomicFileAssumption
  <2>2. /\ db \in [Block -> Value \cup {Torn}] /\ dbDisk \in [Block -> Value \cup {Torn}]
        /\ goal \in [Block -> Value]
    BY <1>1, <1>2 DEF Contents
  <2>3. staged \in UNION {[bs -> Value] : bs \in SUBSET Block}
    BY NothingStaged DEF Init
  <2> QED
    BY <1>1, <2>1, <2>2, <2>3 DEF Init, TypeOK
<1>5. PcInv
  BY DEF Init, PcInv
<1>6. JournalInv
  <2>1. ~InDoubt /\ Len(<<>>) = 0
    BY <1>1, <1>4, NoDoubt
  <2> QED
    BY <1>1, <2>1, EmptySize, AtomicFileAssumption DEF Init, JournalInv, Recovering
<1>7. RunningInv
  BY <1>1, <1>2 DEF Init, RunningInv
<1>8. FileInv
  BY <1>1, <1>2, <1>3 DEF Init, FileInv
<1>9. GoalInv
  BY DEF Init, GoalInv, MakingRoom
<1> QED
  BY <1>4, <1>5, <1>6, <1>7, <1>8, <1>9 DEF IInv

LEMMA BeginInv ==
    ASSUME IInv, NEW bs \in SUBSET Block, NEW writes \in [bs -> Value], Begin(writes)
    PROVE  IInv' /\ DiskContents' = DiskContents
<1> USE DEF IInv
<1>1. /\ pc = "idle" /\ pc' = "journal" /\ after = "idle" /\ after' = "idle"
      /\ UNCHANGED fileVars /\ replay' = replay
      /\ staged' = Over(writes, staged) /\ unjournalled' = DOMAIN staged'
  BY DEF Begin, PcInv
<1>2. PICK cs \in SUBSET Block : staged \in [cs -> Value]
  BY DEF TypeOK
<1>3. /\ staged' \in UNION {[ds -> Value] : ds \in SUBSET Block}
      /\ DOMAIN staged' = bs \cup cs
  <2>1. Over(writes, staged) \in [bs \cup cs -> Value]
    BY <1>2, OverStaged
  <2>2. staged' \in [bs \cup cs -> Value] /\ bs \cup cs \in SUBSET Block
    BY <1>1, <2>1
  <2> QED
    BY <2>2
<1>4. db \in Contents
  BY <1>1 DEF RunningInv, Running, Recovering
<1>5. PICK ds \in SUBSET Block : staged' \in [ds -> Value]
  BY <1>3
<1>6. \A b \in Block : goal'[b] = Over(staged', db)[b]
  BY DEF Begin
<1>7. \A b \in Block : goal'[b] \in Value
  <2> SUFFICES ASSUME NEW b \in Block PROVE goal'[b] \in Value
    OBVIOUS
  <2>1. DOMAIN db = Block /\ db[b] \in Value
    BY <1>4 DEF Contents
  <2>2. goal'[b] = IF b \in DOMAIN staged' THEN staged'[b] ELSE db[b]
    BY <1>6, <2>1, OverAt
  <2> QED
    BY <1>5, <2>1, <2>2
<1>8. goal' \in [Block -> Value]
  BY <1>7 DEF Begin
<1>9. TypeOK'
  BY <1>1, <1>3, <1>8 DEF TypeOK, Begin, fileVars
<1>10. PcInv'
  BY <1>1 DEF PcInv
<1>11. JournalInv'
  BY <1>1 DEF JournalInv, InDoubt, fileVars, Recovering
<1>12. RunningInv'
  BY <1>1, <1>2, <1>3, <1>4 DEF RunningInv, Running, Recovering, fileVars
<1>13. DiskContents' = DiskContents
  BY <1>1 DEF DiskContents, fileVars
<1>14. FileInv'
  BY <1>1, <1>13 DEF FileInv, fileVars
<1>15. GoalInv'
  BY <1>1, <1>6 DEF GoalInv, fileVars
<1> QED
  BY <1>9, <1>10, <1>11, <1>12, <1>13, <1>14, <1>15

\* A checkpoint begins, alone or to make room.
LEMMA CheckpointInv ==
    ASSUME IInv, NoRoomInDoubt', pc \in {"journal", "mark", "checkpoint"},
           replay' = ToReplay(wal), pc' = "copy",
           after' = IF pc = "checkpoint" THEN "idle" ELSE pc,
           UNCHANGED <<fileVars, commitVars>>
    PROVE  IInv' /\ DiskContents' = DiskContents
<1> USE DEF IInv
<1>1. after = "idle" /\ UNCHANGED fileVars /\ UNCHANGED commitVars
  BY DEF PcInv
<1>11. ~InDoubt' /\ ~InDoubt
  <2>1. InDoubt' = InDoubt
    BY <1>1 DEF InDoubt, fileVars
  <2>2. ~SealFails => ~InDoubt
    BY DEF JournalInv
  <2> QED
    BY <2>1, <2>2 DEF NoRoomInDoubt
<1>2. /\ replay' = CommittedWrites(wal)
      /\ Copied(db, wal, CommittedWrites(wal)) = DiskContents
  BY <1>11, SyncedJournal DEF ToReplay
<1>3. replay' \subseteq 1 .. Len(wal)
  BY <1>2 DEF CommittedWrites
<1>4. TypeOK'
  BY <1>1, <1>3 DEF TypeOK, fileVars, commitVars
<1>5. PcInv'
  BY <1>1 DEF PcInv, commitVars
<1>6. JournalInv'
  BY <1>1, <1>11 DEF JournalInv, fileVars, Recovering
<1>7. RunningInv'
  BY <1>1 DEF RunningInv, Running, Recovering, fileVars, commitVars
<1>8. DiskContents' = DiskContents
  BY <1>1 DEF DiskContents, fileVars
<1>9. FileInv'
  BY <1>1, <1>2, <1>8 DEF FileInv, fileVars
<1>10. GoalInv'
  BY <1>1 DEF GoalInv, MakingRoom, fileVars, commitVars
<1> QED
  BY <1>4, <1>5, <1>6, <1>7, <1>8, <1>9, <1>10

\* A block that is journalled commits nothing.
LEMMA WriteMarksNothing ==
    ASSUME NEW w \in Journal, NEW r \in Record, r.type = "WRITE"
    PROVE  /\ Marks(Append(w, r)) = Marks(w)
           /\ CommittedWrites(Append(w, r)) = CommittedWrites(w)
           /\ \A i \in CommittedWrites(w) : Append(w, r)[i] = w[i]
<1> DEFINE v == Append(w, r)
<1>1. /\ Len(w) \in Nat /\ v \in Journal /\ Len(v) = Len(w) + 1 /\ v[Len(w) + 1] = r
      /\ \A i \in 1 .. Len(w) : v[i] = w[i]
  BY DEF Journal
<1> HIDE DEF v
<1>2. ASSUME NEW m \in Marks(v) PROVE m \in 1 .. Len(w)
  <2>1. m \in 1 .. Len(v) /\ v[m].type = "COMMIT"
    BY DEF Marks
  <2>2. m # Len(w) + 1
    BY <1>1, <2>1
  <2> QED
    BY <1>1, <2>1, <2>2
<1>3. \A m \in Marks(v) : m <= Len(w)
  BY <1>1, <1>2
<1>4. CommittedWrites(v) = CommittedWrites(w)
  BY <1>1, <1>3, SameCommitted
<1>5. Marks(v) = Marks(w)
  BY <1>1, <1>2 DEF Marks
<1>6. \A i \in CommittedWrites(w) : v[i] = w[i]
  BY <1>1 DEF CommittedWrites
<1> QED
  BY <1>4, <1>5, <1>6 DEF v

\* A record is appended to the journal.
LEMMA AppendInv ==
    ASSUME IInv, NEW r \in Record, r.intact, wal' = Append(wal, r),
           \/ r.type = "WRITE" /\ r.block \in DOMAIN staged /\ ~Overflows(WriteSize)
              /\ pc = "journal" /\ pc' = pc /\ unjournalled' \subseteq unjournalled
           \/ r = CommitRecord /\ ~Overflows(CommitSize)
              /\ pc = "mark" /\ pc' = "seal" /\ UNCHANGED unjournalled,
           UNCHANGED <<walDisk, cut, db, dbDisk, inTransaction, staged, goal, replay, after>>
    PROVE  IInv' /\ DiskContents' = DiskContents
<1> USE DEF IInv
<1>1. /\ wal \in Journal /\ Len(wal) \in Nat /\ Len(walDisk) \in Nat
      /\ \A i \in 1 .. Len(wal) : wal[i] \in Record
  BY Types
<1>2. /\ wal' \in Journal /\ Len(wal') = Len(wal) + 1 /\ wal'[Len(wal) + 1] = r
      /\ \A i \in 1 .. Len(wal) : wal'[i] = wal[i]
  BY <1>1 DEF Journal
<1>3. pc \in {"journal", "mark"} /\ pc' \in {"journal", "seal"} /\ after = "idle" /\ replay = {}
  BY DEF PcInv
<1>4. SizeOf(wal') <= WalSizeLimit
  <2>1. r.type = "WRITE" => SizeOf(wal') = SizeOf(wal) + WriteSize
    BY <1>1, SizeAppended
  <2>2. r.type = "COMMIT" => SizeOf(wal') = SizeOf(wal) + CommitSize
    BY <1>1, SizeAppended
  <2>3. SizeOf(wal) \in Nat
    BY <1>1, SizeAppended
  <2>4. CASE r.type = "WRITE" /\ ~Overflows(WriteSize)
    BY <2>1, <2>3, <2>4, AtomicFileAssumption DEF Overflows
  <2>5. CASE r = CommitRecord /\ ~Overflows(CommitSize)
    BY <2>2, <2>3, <2>5, RecordTypes, AtomicFileAssumption DEF Overflows
  <2> QED
    BY <2>4, <2>5
<1>5. TypeOK'
  <2>1. wal' \in Seq(Record)
    BY <1>2 DEF Journal
  <2>2. unjournalled' \subseteq DOMAIN staged'
    BY DEF TypeOK
  <2>3. replay' \subseteq 1 .. Len(wal')
    BY <1>3
  <2> QED
    BY <1>3, <1>4, <2>1, <2>2, <2>3 DEF TypeOK
<1>6. PcInv'
  BY <1>3 DEF PcInv
<1>7. JournalInv'
  <2>1. SizeOf(walDisk') <= WalSizeLimit
    BY DEF JournalInv
  <2>2. ~cut' => Len(walDisk') <= Len(wal') /\ \A i \in 1 .. Len(walDisk') : wal'[i] = walDisk'[i]
    BY <1>1, <1>2, <1>3 DEF JournalInv
  <2>3. CASE pc = "journal"
    <3>1. r.type = "WRITE" /\ pc' = "journal"
      BY <2>3
    <3>2. \A i \in 1 .. Len(wal') : i = Len(wal) + 1 \/ i \in 1 .. Len(wal)
      BY <1>1, <1>2
    <3>3. cut' => \A i \in 1 .. Len(wal') : wal'[i].type = "WRITE"
      BY <1>2, <3>1, <3>2 DEF JournalInv
    <3>4. ASSUME NEW i \in Len(walDisk') + 1 .. Len(wal'), NEW j \in Len(walDisk') + 1 .. Len(wal'),
                 wal'[i].type = "COMMIT", wal'[j].type = "COMMIT"
          PROVE  i = j
      <4>1. i # Len(wal) + 1 /\ j # Len(wal) + 1
        BY <1>2, <3>1, <3>4
      <4>2. /\ i \in 1 .. Len(wal) /\ j \in 1 .. Len(wal)
            /\ i \in Len(walDisk) + 1 .. Len(wal) /\ j \in Len(walDisk) + 1 .. Len(wal)
        BY <1>1, <1>2, <4>1
      <4>3. wal[i].type = "COMMIT" /\ wal[j].type = "COMMIT"
        BY <1>2, <3>4, <4>2
      <4> QED
        BY <4>2, <4>3 DEF JournalInv
    <3>5. InDoubt' = InDoubt
      BY <1>1, <2>3, <3>1, WriteMarksNothing DEF InDoubt
    <3> QED
      BY <1>3, <2>1, <2>2, <3>1, <3>3, <3>4, <3>5 DEF JournalInv, Recovering
  <2>4. CASE pc = "mark"
    <3>1. wal = walDisk /\ ~cut /\ pc' = "seal" /\ r = CommitRecord
      BY <2>4 DEF JournalInv
    <3>2. \A i \in Len(walDisk') + 1 .. Len(wal') : i = Len(wal')
      BY <1>1, <1>2, <3>1
    <3> QED
      BY <1>2, <1>3, <2>1, <2>2, <3>1, <3>2 DEF JournalInv, Recovering, InDoubt
  <2> QED
    BY <1>3, <2>3, <2>4
<1>8. RunningInv'
  <2>1. /\ db \in Contents
        /\ \A i \in 1 .. Len(wal) :
              wal[i].intact /\ (wal[i].type = "WRITE" => wal[i].block \in DOMAIN staged)
    BY <1>3 DEF RunningInv, Running, Recovering
  <2>2. r.type = "WRITE" => r.block \in DOMAIN staged
    BY RecordTypes
  <2>3. ASSUME NEW i \in 1 .. Len(wal')
        PROVE  wal'[i].intact /\ (wal'[i].type = "WRITE" => wal'[i].block \in DOMAIN staged)
    <3>1. i = Len(wal) + 1 \/ i \in 1 .. Len(wal)
      BY <1>1, <1>2
    <3> QED
      BY <1>2, <2>1, <2>2, <3>1
  <2> QED
    BY <2>1, <2>3 DEF RunningInv
<1>9. DiskContents' = DiskContents
  BY DEF DiskContents
<1>10. FileInv'
  BY <1>3, <1>9 DEF FileInv
<1>11. GoalInv'
  BY <1>3 DEF GoalInv, MakingRoom
<1> QED
  BY <1>5, <1>6, <1>7, <1>8, <1>9, <1>10, <1>11

LEMMA LogWriteInv ==
    ASSUME IInv, NoRoomInDoubt', NEW b \in Block, LogWrite(b)
    PROVE  IInv' /\ DiskContents' = DiskContents
<1>1. CASE Overflows(WriteSize)
  BY <1>1, CheckpointInv DEF LogWrite, CheckpointFirst
<1>2. CASE ~Overflows(WriteSize)
  <2>1. b \in unjournalled /\ unjournalled \subseteq DOMAIN staged
    BY DEF LogWrite, IInv, TypeOK
  <2>2. b \in DOMAIN staged /\ staged[b] \in Value
    BY <2>1, Types DEF IInv
  <2> DEFINE r == WriteRecord(b, staged[b])
  <2>3. r \in Record /\ r.type = "WRITE" /\ r.block = b /\ r.intact
    BY <2>2, RecordTypes
  <2> HIDE DEF r
  <2>4. wal' = Append(wal, r)
    BY <1>2 DEF LogWrite, r
  <2>5. unjournalled' \subseteq unjournalled
    BY <1>2 DEF LogWrite
  <2>6. /\ pc = "journal" /\ pc' = pc
        /\ UNCHANGED <<walDisk, cut, db, dbDisk, inTransaction, staged, goal, replay, after>>
    BY <1>2 DEF LogWrite
  <2> QED
    BY <1>2, <2>2, <2>3, <2>4, <2>5, <2>6, AppendInv
<1> QED
  BY <1>1, <1>2

LEMMA AddCommitMarkerInv ==
    ASSUME IInv, NoRoomInDoubt', AddCommitMarker
    PROVE  IInv' /\ DiskContents' = DiskContents
<1>1. CASE Overflows(CommitSize)
  BY <1>1, CheckpointInv DEF AddCommitMarker, CheckpointFirst
<1>2. CASE ~Overflows(CommitSize)
  <2>1. CommitRecord \in Record /\ CommitRecord.intact
    BY RecordTypes
  <2>2. wal' = Append(wal, CommitRecord)
    BY <1>2 DEF AddCommitMarker
  <2>3. /\ pc = "mark" /\ pc' = "seal" /\ UNCHANGED unjournalled
        /\ UNCHANGED <<walDisk, cut, db, dbDisk, inTransaction, staged, goal, replay, after>>
    BY <1>2 DEF AddCommitMarker, commitVars
  <2> QED
    BY <1>2, <2>1, <2>2, <2>3, AppendInv
<1> QED
  BY <1>1, <1>2

\* What is committed on disk is among what is committed in the journal.
LEMMA SealingContents ==
    ASSUME IInv, ~cut
    PROVE  /\ Sealing \in Contents
           /\ \A b \in Block : WritesTo(b, wal, CommittedWrites(wal)) = {} =>
                 /\ WritesTo(b, walDisk, CommittedWrites(walDisk)) = {}
                 /\ db[b] = dbDisk[b]
                 /\ dbDisk[b] = DiskContents[b]
<1> USE DEF IInv
<1>1. wal \in Journal /\ walDisk \in Journal /\ Len(wal) \in Nat /\ Len(walDisk) \in Nat
  BY Types
<1>2. CommittedWrites(walDisk) \subseteq CommittedWrites(wal)
  BY <1>1, MoreCommitted DEF JournalInv
<1>3. \A i \in CommittedWrites(walDisk) : wal[i] = walDisk[i]
  BY DEF CommittedWrites, JournalInv
<1>4. ASSUME NEW b \in Block, WritesTo(b, wal, CommittedWrites(wal)) = {}
      PROVE  WritesTo(b, walDisk, CommittedWrites(walDisk)) = {}
  BY <1>2, <1>3, <1>4 DEF WritesTo
<1>5. ASSUME NEW b \in Block, WritesTo(b, wal, CommittedWrites(wal)) = {}
      PROVE  db[b] = dbDisk[b] /\ dbDisk[b] = DiskContents[b]
  <2>1. WritesTo(b, walDisk, CommittedWrites(walDisk)) = {}
    BY <1>4, <1>5
  <2>2. DiskContents[b] = dbDisk[b]
    BY <2>1, NotCopied DEF DiskContents
  <2> QED
    BY <2>1, <2>2 DEF FileInv
<1>6. \A b \in Block : DiskContents[b] \in Value
  BY DEF FileInv, Contents
<1>7. Sealing \in Contents
  <2>1. \A b \in Block : WritesTo(b, wal, CommittedWrites(wal)) = {} => dbDisk[b] \in Value
    BY <1>5, <1>6
  <2> QED
    BY <1>1, <2>1, RestoredContents DEF Sealing
<1> QED
  BY <1>4, <1>5, <1>7

\* A sync of the journal: what it holds takes effect, also a marker in doubt.
LEMMA SyncedInv ==
    ASSUME IInv, pc \in {"journal", "seal", "idle"}, walDisk' = wal, ~cut', wal' = wal
    PROVE  /\ Copied(dbDisk, wal, CommittedWrites(wal)) \in Contents
           /\ \A b \in Block : WritesTo(b, wal, CommittedWrites(wal)) = {} => db[b] = dbDisk[b]
           /\ Copied(db, wal, CommittedWrites(wal)) = Sealing
           /\ ~InDoubt /\ pc # "seal" => Sealing = DiskContents
           /\ pc' \in {"mark", "checkpoint", "down"} /\ ~Recovering' => JournalInv'
<1> USE DEF IInv
<1>1. wal \in Journal /\ walDisk \in Journal /\ Len(wal) \in Nat /\ SizeOf(wal) <= WalSizeLimit
  BY Types DEF TypeOK
<1>2. ~InDoubt /\ pc # "seal" => Sealing = DiskContents
  BY SyncedJournal DEF Sealing
<1>3. cut => ~InDoubt /\ pc # "seal"
  BY NoDoubt DEF JournalInv
<1>4. Sealing \in Contents
  <2>1. CASE cut
    BY <1>2, <1>3, <2>1 DEF FileInv
  <2>2. CASE ~cut
    BY <2>2, SealingContents
  <2> QED
    BY <2>1, <2>2
<1>5. \A b \in Block : WritesTo(b, wal, CommittedWrites(wal)) = {} => db[b] = dbDisk[b]
  <2>1. CASE cut
    BY <1>3, <2>1, SyncedJournal
  <2>2. CASE ~cut
    BY <2>2, SealingContents
  <2> QED
    BY <2>1, <2>2
<1>6. CommittedWrites(wal) \in SUBSET (1 .. Len(wal)) /\ CommittedWrites(wal) \subseteq 1 .. Len(wal)
  BY DEF CommittedWrites
<1>7. Copied(db, wal, CommittedWrites(wal)) = Copied(dbDisk, wal, CommittedWrites(wal))
  BY <1>1, <1>5, <1>6, SameCopied
<1>8. ASSUME pc' \in {"mark", "checkpoint", "down"}, ~Recovering' PROVE JournalInv'
  <2>1. \A i \in Len(wal) + 1 .. Len(wal) : FALSE
    BY <1>1
  <2>2. Len(wal) <= Len(wal)
    BY <1>1
  <2>3. ~InDoubt'
    BY <1>1 DEF InDoubt, Marks
  <2> QED
    BY <1>1, <1>8, <2>1, <2>2, <2>3 DEF JournalInv
<1> QED
  BY <1>2, <1>4, <1>5, <1>7, <1>8 DEF Sealing

LEMMA SyncWritesInv ==
    ASSUME IInv, SyncWrites
    PROVE  /\ IInv' /\ ~InDoubt'
           /\ DiskContents' = IF InDoubt THEN Sealing ELSE DiskContents
<1> USE DEF IInv
<1>1. /\ pc = "journal" /\ pc' = "mark" /\ unjournalled = {} /\ walDisk' = wal /\ cut' = FALSE
      /\ UNCHANGED <<wal, db, dbDisk, commitVars, replay, after>> /\ after = "idle"
  BY DEF SyncWrites, PcInv
<1>2. DiskContents' = Sealing
  BY <1>1 DEF DiskContents, Sealing
<1>3. /\ Sealing \in Contents /\ JournalInv'
      /\ \A b \in Block : WritesTo(b, wal, CommittedWrites(wal)) = {} => db[b] = dbDisk[b]
      /\ ~InDoubt => Sealing = DiskContents
  BY <1>1, SyncedInv DEF Recovering, Sealing
<1>4. TypeOK'
  BY <1>1 DEF TypeOK, commitVars
<1>5. PcInv'
  BY <1>1 DEF PcInv, commitVars
<1>6. ~InDoubt'
  BY <1>1, <1>4, NoDoubt, Types DEF InDoubt, Marks
<1>7. RunningInv'
  BY <1>1 DEF RunningInv, Running, Recovering, commitVars
<1>8. FileInv'
  BY <1>1, <1>2, <1>3 DEF FileInv
<1>9. GoalInv'
  BY <1>1 DEF GoalInv, MakingRoom, commitVars
<1> QED
  BY <1>2, <1>3, <1>4, <1>5, <1>6, <1>7, <1>8, <1>9

LEMMA SyncMarkerInv ==
    ASSUME IInv, SyncMarker
    PROVE  IInv' /\ DiskContents' = Sealing
<1> USE DEF IInv
<1>1. /\ pc = "seal" /\ pc' = "checkpoint" /\ walDisk' = wal /\ cut' = FALSE
      /\ UNCHANGED <<wal, db, dbDisk, commitVars, replay, after>> /\ after = "idle"
  BY DEF SyncMarker, SyncedMarker, PcInv
<1>2. DiskContents' = Sealing
  BY <1>1 DEF DiskContents, Sealing
<1>3. /\ Sealing \in Contents /\ JournalInv'
      /\ \A b \in Block : WritesTo(b, wal, CommittedWrites(wal)) = {} => db[b] = dbDisk[b]
  BY <1>1, SyncedInv DEF Recovering, Sealing
<1>4. TypeOK'
  BY <1>1 DEF TypeOK, commitVars
<1>5. PcInv'
  BY <1>1 DEF PcInv, commitVars
<1>6. RunningInv'
  BY <1>1 DEF RunningInv, Running, Recovering, commitVars
<1>7. FileInv'
  BY <1>1, <1>2, <1>3 DEF FileInv
<1>8. GoalInv'
  BY <1>1 DEF GoalInv, MakingRoom, commitVars
<1> QED
  BY <1>2, <1>3, <1>4, <1>5, <1>6, <1>7, <1>8

\* Copying the first of some writes leaves the rest to be copied.
LEMMA CopyOne ==
    ASSUME NEW w \in Journal, NEW places \in SUBSET (1 .. Len(w)),
           NEW i \in places, \A j \in places : i <= j,
           NEW d, DOMAIN d = Block
    PROVE  Copied([d EXCEPT ![w[i].block] = w[i].value], w, places \ {i}) = Copied(d, w, places)
<1> DEFINE e == [d EXCEPT ![w[i].block] = w[i].value]
           rest == places \ {i}
<1>1. ArePlaces(rest, w) /\ ArePlaces(places, w) /\ Len(w) \in Nat
  BY DEF ArePlaces, Journal
<1>2. \A b \in Block : e[b] = IF b = w[i].block THEN w[i].value ELSE d[b]
  OBVIOUS
<1>3. \A b : WritesTo(b, w, places) =
                IF b = w[i].block THEN WritesTo(b, w, rest) \cup {i} ELSE WritesTo(b, w, rest)
  BY DEF WritesTo
<1>4. \A b : \A k \in WritesTo(b, w, rest) : i <= k
  BY DEF WritesTo
<1> HIDE DEF e, rest
<1>5. ASSUME NEW b \in Block PROVE Copied(e, w, rest)[b] = Copied(d, w, places)[b]
  <2>1. CASE WritesTo(b, w, rest) # {}
    <3>1. PICK k : LastOf(k, WritesTo(b, w, rest))
      BY <1>1, <2>1, LastExists
    <3>2. i <= k
      BY <1>4, <3>1 DEF LastOf
    <3>3. LastOf(k, WritesTo(b, w, places))
      BY <1>3, <3>1, <3>2 DEF LastOf
    <3>4. Copied(e, w, rest)[b] = w[k].value
      BY <1>1, <3>1, CopiedAt
    <3>5. Copied(d, w, places)[b] = w[k].value
      BY <1>1, <3>3, CopiedAt
    <3> QED
      BY <3>4, <3>5
  <2>2. CASE WritesTo(b, w, rest) = {} /\ b = w[i].block
    <3>1. Copied(e, w, rest)[b] = w[i].value
      BY <1>2, <2>2, NotCopied
    <3>2. WritesTo(b, w, places) = {i}
      BY <1>3, <2>2
    <3>3. LastOf(i, WritesTo(b, w, places))
      BY <1>1, <3>2 DEF LastOf, ArePlaces
    <3>4. Copied(d, w, places)[b] = w[i].value
      BY <1>1, <3>3, CopiedAt
    <3> QED
      BY <3>1, <3>4
  <2>3. CASE WritesTo(b, w, rest) = {} /\ b # w[i].block
    <3>1. Copied(e, w, rest)[b] = d[b]
      BY <1>2, <2>3, NotCopied
    <3>2. WritesTo(b, w, places) = {}
      BY <1>3, <2>3
    <3> QED
      BY <3>1, <3>2, NotCopied
  <2> QED
    BY <2>1, <2>2, <2>3
<1>6. Copied(e, w, rest) = Copied(d, w, places)
  BY <1>5 DEF Copied
<1> QED
  BY <1>6 DEF e, rest

LEMMA CopyWriteInv ==
    ASSUME IInv, CopyWrite
    PROVE  IInv' /\ DiskContents' = DiskContents
<1> USE DEF IInv
<1>1. /\ pc = "copy" /\ pc' = "copy"
      /\ UNCHANGED <<wal, walDisk, cut, dbDisk, commitVars, after>>
      /\ ~InDoubt
  BY DEF CopyWrite, JournalInv
<1>2. PICK i \in replay :
         /\ \A j \in replay : i <= j
         /\ db' = [db EXCEPT ![wal[i].block] = wal[i].value]
         /\ replay' = replay \ {i}
  BY DEF CopyWrite
<1>3. wal \in Journal /\ DOMAIN db = Block /\ \A j \in 1 .. Len(wal) : wal[j] \in Record
  BY Types
<1>4. /\ replay \subseteq CommittedWrites(wal) /\ replay \in SUBSET (1 .. Len(wal))
      /\ Copied(db, wal, replay) = DiskContents
  BY <1>1 DEF FileInv, CommittedWrites
<1>5. wal[i].type = "WRITE" /\ wal[i] \in Record /\ i \in CommittedWrites(wal)
  BY <1>3, <1>4 DEF CommittedWrites
<1>6. wal[i].block \in Block /\ wal[i].value \in Value
  BY <1>5, RecordTypes
<1>7. Copied(db', wal, replay') = DiskContents
  BY <1>2, <1>3, <1>4, CopyOne
<1>8. DiskContents' = DiskContents
  BY <1>1 DEF DiskContents
<1>9. \A b \in Block : db'[b] = IF b = wal[i].block THEN wal[i].value ELSE db[b]
  BY <1>2, <1>3
<1>10. db' \in [Block -> Value \cup {Torn}] /\ (db \in Contents => db' \in Contents)
  BY <1>2, <1>6 DEF TypeOK, Contents
<1>11. TypeOK'
  BY <1>1, <1>2, <1>10 DEF TypeOK, commitVars
<1>12. PcInv'
  BY <1>1 DEF PcInv, commitVars
<1>13. JournalInv'
  BY <1>1 DEF JournalInv, Recovering, InDoubt
<1>14. RunningInv'
  BY <1>1, <1>10 DEF RunningInv, Running, Recovering, commitVars
<1>17. ~cut
  BY <1>1, <1>5, SyncedJournal
<1>15. FileInv'
  <2>1. ASSUME NEW b \in Block, WritesTo(b, walDisk, CommittedWrites(walDisk)) = {}
        PROVE  db'[b] = dbDisk[b]
    <3>1. WritesTo(b, wal, CommittedWrites(wal)) = {}
      BY <1>1, <1>17, <2>1, SyncedJournal
    <3>2. b # wal[i].block
      BY <1>5, <3>1 DEF WritesTo
    <3>3. db'[b] = db[b]
      BY <1>9, <3>2
    <3> QED
      BY <2>1, <3>3 DEF FileInv
  <2>2. replay' \subseteq CommittedWrites(wal)
    BY <1>2, <1>4
  <2> QED
    BY <1>1, <1>7, <1>8, <1>17, <2>1, <2>2 DEF FileInv
<1>16. GoalInv'
  <2> SUFFICES ASSUME MakingRoom, NEW b \in Block
               PROVE  goal[b] = Over(staged, db')[b]
    BY <1>1 DEF GoalInv, MakingRoom, commitVars
  <2>1. goal[b] = Over(staged, db)[b]
    BY DEF GoalInv
  <2>2. wal[i].block \in DOMAIN staged
    BY <1>1, <1>4, <1>5 DEF RunningInv, Running, Recovering, MakingRoom
  <2>3. DOMAIN db' = Block
    BY <1>10
  <2>4. Over(staged, db)[b] = IF b \in DOMAIN staged THEN staged[b] ELSE db[b]
    BY <1>3, OverAt
  <2>5. Over(staged, db')[b] = IF b \in DOMAIN staged THEN staged[b] ELSE db'[b]
    BY <2>3, OverAt
  <2> QED
    BY <1>9, <2>1, <2>2, <2>4, <2>5
<1> QED
  BY <1>8, <1>11, <1>12, <1>13, <1>14, <1>15, <1>16

LEMMA SyncDbInv ==
    ASSUME IInv, SyncDb
    PROVE  IInv' /\ DiskContents' = DiskContents
<1> USE DEF IInv
<1>1. /\ pc = "copy" /\ pc' = "truncate" /\ replay = {} /\ dbDisk' = db
      /\ UNCHANGED <<wal, walDisk, cut, db, commitVars, replay, after>>
      /\ ~InDoubt
  BY DEF SyncDb, SyncedDb, JournalInv
<1>2. db = DiskContents
  <2>1. Copied(db, wal, {}) = db
    <3>1. db = [b \in Block |-> db[b]]
      BY DEF TypeOK
    <3> QED
      BY <3>1, EmptyJournal
  <2> QED
    BY <1>1, <2>1 DEF FileInv
<1>3. DiskContents' = DiskContents
  <2>1. CASE cut
    BY <1>1, <2>1 DEF DiskContents, FileInv
  <2>2. CASE ~cut
    BY <1>1, <2>2, SyncedJournal DEF DiskContents
  <2> QED
    BY <2>1, <2>2
<1>4. TypeOK'
  BY <1>1 DEF TypeOK, commitVars
<1>5. PcInv'
  BY <1>1 DEF PcInv, commitVars
<1>6. JournalInv'
  BY <1>1 DEF JournalInv, Recovering, InDoubt
<1>7. RunningInv'
  BY <1>1 DEF RunningInv, Running, Recovering, commitVars
<1>8. FileInv'
  BY <1>1, <1>2, <1>3 DEF FileInv
<1>9. GoalInv'
  BY <1>1 DEF GoalInv, MakingRoom, commitVars
<1> QED
  BY <1>3, <1>4, <1>5, <1>6, <1>7, <1>8, <1>9

LEMMA TruncateWalInv ==
    ASSUME IInv, TruncateWal
    PROVE  IInv' /\ DiskContents' = DiskContents
<1> USE DEF IInv
<1>1. /\ pc = "truncate" /\ pc' = "empty" /\ wal' = <<>> /\ cut' = TRUE /\ replay = {}
      /\ UNCHANGED <<walDisk, db, dbDisk, commitVars, replay, after>>
  BY DEF TruncateWal, PcInv
<1>2. DiskContents' = DiskContents
  BY <1>1 DEF DiskContents
<1>3. TypeOK'
  <2>1. wal' \in Seq(Record) /\ SizeOf(wal') <= WalSizeLimit
    BY <1>1, EmptySize, AtomicFileAssumption
  <2> QED
    BY <1>1, <2>1 DEF TypeOK, commitVars
<1>4. PcInv'
  BY <1>1 DEF PcInv, commitVars
<1>5. JournalInv'
  <2>1. ~InDoubt' /\ Len(<<>>) = 0
    BY <1>1, EmptyJournal DEF InDoubt, Marks
  <2> QED
    BY <1>1, <2>1, Types DEF JournalInv, Recovering
<1>6. RunningInv'
  BY <1>1, EmptyJournal DEF RunningInv, Running, Recovering, commitVars
<1>7. FileInv'
  BY <1>1, <1>2 DEF FileInv
<1>8. GoalInv'
  BY <1>1 DEF GoalInv, MakingRoom, commitVars
<1> QED
  BY <1>2, <1>3, <1>4, <1>5, <1>6, <1>7, <1>8

LEMMA SyncEmptyWalInv ==
    ASSUME IInv, SyncEmptyWal
    PROVE  IInv' /\ DiskContents' = DiskContents
<1> USE DEF IInv
<1>1. /\ pc = "empty" /\ wal = <<>> /\ walDisk' = <<>> /\ cut /\ cut' = FALSE /\ replay = {} /\ after' = "idle"
      /\ UNCHANGED <<wal, db, dbDisk, replay, unjournalled, goal>>
  BY DEF SyncEmptyWal, PcInv, JournalInv, commitVars
<1>2. \/ pc' = after /\ after \in {"journal", "mark"} /\ UNCHANGED <<staged, inTransaction>>
      \/ /\ pc' = "idle" /\ after \notin {"journal", "mark"}
         /\ inTransaction' = FALSE /\ staged' = NoWrites
  BY DEF SyncEmptyWal, commitVars
<1>3. db = dbDisk /\ db = DiskContents
  BY <1>1 DEF FileInv
<1>4. DiskContents' = DiskContents
  <2>1. dbDisk = [b \in Block |-> dbDisk[b]]
    BY DEF TypeOK
  <2>2. Copied(dbDisk, <<>>, {}) = dbDisk
    BY <2>1, EmptyJournal
  <2> QED
    BY <1>1, <1>3, <2>2, EmptyJournal DEF DiskContents
<1>5. PcInv'
  BY <1>1, <1>2 DEF PcInv
<1>6. TypeOK'
  <2>1. staged' \in UNION {[bs -> Value] : bs \in SUBSET Block}
    BY <1>2, NothingStaged DEF TypeOK
  <2>2. unjournalled' \subseteq DOMAIN staged'
    BY <1>1, <1>2 DEF TypeOK, PcInv
  <2>3. walDisk' \in Seq(Record)
    BY <1>1
  <2> QED
    BY <1>1, <1>2, <2>1, <2>2, <2>3 DEF TypeOK
<1>7. JournalInv'
  <2>1. SizeOf(walDisk') <= WalSizeLimit
    BY <1>1, EmptySize, AtomicFileAssumption
  <2>2. pc' \notin {"seal", "empty"}
    BY <1>2
  <2>3. Len(<<>>) = 0 /\ ~InDoubt'
    BY <1>1, EmptyJournal DEF InDoubt, Marks
  <2> QED
    BY <1>1, <2>1, <2>2, <2>3 DEF JournalInv, Recovering
<1>8. RunningInv'
  <2>1. db' \in Contents
    BY <1>1, <1>3 DEF FileInv
  <2> QED
    BY <1>1, <2>1, EmptyJournal DEF RunningInv
<1>9. FileInv'
  BY <1>1, <1>2, <1>3, <1>4 DEF FileInv
<1>10. GoalInv'
  BY <1>1, <1>2 DEF GoalInv, MakingRoom
<1> QED
  BY <1>4, <1>5, <1>6, <1>7, <1>8, <1>9, <1>10

-----------------------------------------------------------------------------
(* Errors, crashes and restarts keep it too. *)

LEMMA FailInv ==
    ASSUME IInv, Fail
    PROVE  IInv' /\ DiskContents' = DiskContents
<1> USE DEF IInv
<1>1. /\ pc \notin {"idle", "down"} /\ (pc = "seal" => SealFails)
      /\ pc' = IF Recovering THEN "down" ELSE "idle"
      /\ after' = "idle" /\ unjournalled' = {} /\ replay' = {}
      /\ UNCHANGED fileVars /\ UNCHANGED <<inTransaction, staged, goal>>
  BY DEF Fail, Recovering
<1>2. DiskContents' = DiskContents
  BY <1>1 DEF DiskContents, fileVars
<1>3. TypeOK'
  BY <1>1 DEF TypeOK, fileVars
<1>4. PcInv'
  BY <1>1 DEF PcInv
<1>5. JournalInv'
  <2>1. ~SealFails => ~InDoubt'
    BY <1>1 DEF JournalInv, InDoubt, fileVars
  <2>2. pc' = "down" => IF cut THEN wal = <<>> ELSE wal = walDisk
    BY <1>1 DEF JournalInv, Recovering
  <2> QED
    BY <1>1, <2>1, <2>2 DEF JournalInv, Recovering, fileVars
<1>6. RunningInv'
  BY <1>1 DEF RunningInv, Running, Recovering, fileVars
<1>7. FileInv'
  BY <1>1, <1>2 DEF FileInv, fileVars
<1>8. GoalInv'
  BY <1>1 DEF GoalInv, MakingRoom
<1> QED
  BY <1>2, <1>3, <1>4, <1>5, <1>6, <1>7, <1>8

\* A crash may bring the commit forward whose marker is being written or in doubt.
LEMMA CrashInv ==
    ASSUME IInv, Crash
    PROVE  /\ IInv' /\ ~InDoubt'
           /\ DiskContents' = DiskContents \/ (UnsyncedMark /\ DiskContents' = Sealing)
<1> USE DEF IInv
<1>1. /\ wal' \in JournalsLeft /\ walDisk' = wal' /\ cut' = FALSE /\ db' \in FilesLeft /\ dbDisk' = db'
      /\ pc' = "down" /\ after' = "idle" /\ inTransaction' = FALSE
      /\ staged' = NoWrites /\ unjournalled' = {} /\ replay' = {} /\ goal' = goal
  BY DEF Crash
<1>2. /\ db' \in [Block -> Value \cup {Torn}]
      /\ \A b \in Block : db[b] = dbDisk[b] => db'[b] = db[b]
  BY <1>1 DEF FilesLeft
<1>3. wal' \in Journal /\ SizeOf(wal') <= WalSizeLimit
  BY <1>1, JournalLeft
<1>4. wal \in Journal /\ walDisk \in Journal /\ Len(walDisk) \in Nat
  BY Types
<1>5. DiskContents' = Copied(db', wal', CommittedWrites(wal'))
  BY <1>1 DEF DiskContents
<1>6. DiskContents = [b \in Block |-> DiskContents[b]] /\ DOMAIN db = Block /\ db = [b \in Block |-> db[b]]
  <2>1. DiskContents \in [Block -> Value] /\ db \in [Block -> Value \cup {Torn}]
    BY DEF FileInv, TypeOK, Contents
  <2> QED
    BY <2>1
<1>7. ASSUME cut PROVE DiskContents' = DiskContents
  <2>1. db = dbDisk /\ db = DiskContents
    BY <1>7 DEF FileInv
  <2>2. db' = db
    BY <1>2, <1>6, <2>1
  <2>3. wal' = walDisk \/ \A i \in 1 .. Len(wal') : wal'[i].type = "WRITE"
    BY <1>1, <1>7, JournalLeft
  <2>4. CASE wal' = walDisk
    BY <1>5, <2>1, <2>2, <2>4 DEF DiskContents
  <2>5. CASE \A i \in 1 .. Len(wal') : wal'[i].type = "WRITE"
    <3>1. CommittedWrites(wal') = {}
      BY <2>5, NothingCommitted
    <3>2. Copied(db, wal', {}) = db
      BY <1>6, EmptyJournal
    <3> QED
      BY <1>5, <2>1, <2>2, <3>1, <3>2
  <2> QED
    BY <2>3, <2>4, <2>5
<1>8. ASSUME ~cut, \A m \in Marks(wal') : m <= Len(walDisk)
      PROVE  DiskContents' = DiskContents
  <2> DEFINE P == CommittedWrites(walDisk)
  <2>1. Len(walDisk) <= Len(wal') /\ \A i \in 1 .. Len(walDisk) : wal'[i] = walDisk[i]
    BY <1>1, <1>8, JournalLeft
  <2>2. CommittedWrites(wal') = P
    BY <1>3, <1>4, <1>8, <2>1, SameCommitted
  <2>3. P \in SUBSET (1 .. Len(walDisk)) /\ P \subseteq 1 .. Len(wal')
    <3>1. Len(wal') \in Nat
      BY <1>3 DEF Journal
    <3> QED
      BY <1>4, <2>1, <3>1 DEF CommittedWrites
  <2>4. \A i \in P : wal'[i] = walDisk[i]
    BY <2>1, <2>3
  <2>5. \A b \in Block : WritesTo(b, walDisk, P) = {} => db'[b] = dbDisk[b]
    BY <1>2 DEF FileInv
  <2>6. DiskContents = Copied(dbDisk, walDisk, P)
    BY DEF DiskContents
  <2> HIDE DEF P
  <2>7. Copied(db', wal', P) = Copied(dbDisk, walDisk, P)
    BY <1>3, <1>4, <2>3, <2>4, <2>5, SameCopied, SMTT(30)
  <2> QED
    BY <1>5, <2>2, <2>6, <2>7
<1>9. ASSUME ~cut, CommittedWrites(wal') = CommittedWrites(wal),
             \A i \in CommittedWrites(wal) : wal'[i] = wal[i]
      PROVE  DiskContents' = Sealing
  <2> DEFINE P == CommittedWrites(wal)
  <2>1. \A b \in Block : WritesTo(b, wal, P) = {} => db'[b] = dbDisk[b]
    BY <1>2, <1>9, SealingContents
  <2>2. P \in SUBSET (1 .. Len(wal)) /\ P \subseteq 1 .. Len(wal')
    BY <1>9 DEF CommittedWrites
  <2>3. \A i \in P : wal'[i] = wal[i]
    BY <1>9
  <2>4. Sealing = Copied(dbDisk, wal, P) /\ DiskContents' = Copied(db', wal', P)
    BY <1>5, <1>9 DEF Sealing
  <2> HIDE DEF P
  <2>5. Copied(db', wal', P) = Copied(dbDisk, wal, P)
    BY <1>3, <1>4, <2>1, <2>2, <2>3, SameCopied
  <2> QED
    BY <2>4, <2>5
<1>10. DiskContents' = DiskContents \/ (~cut /\ UnsyncedMark /\ DiskContents' = Sealing)
  <2>1. CASE cut
    BY <1>7, <2>1
  <2>2. CASE ~cut
    <3>1. \/ \A m \in Marks(wal') : m <= Len(walDisk)
          \/ /\ UnsyncedMark
             /\ CommittedWrites(wal') = CommittedWrites(wal)
             /\ \A i \in CommittedWrites(wal) : wal'[i] = wal[i]
      BY <1>1, <2>2, JournalLeft
    <3> QED
      BY <1>8, <1>9, <2>2, <3>1
  <2> QED
    BY <2>1, <2>2
<1>11. DiskContents' \in Contents
  <2>1. DiskContents \in Contents
    BY DEF FileInv
  <2>2. ~cut => Sealing \in Contents
    BY SealingContents
  <2> QED
    BY <1>10, <2>1, <2>2
<1>12. TypeOK'
  <2>1. staged' \in UNION {[bs -> Value] : bs \in SUBSET Block}
    BY <1>1, NothingStaged
  <2>2. wal' \in Seq(Record)
    BY <1>3 DEF Journal
  <2>3. goal' \in [Block -> Value]
    BY <1>1 DEF TypeOK
  <2> QED
    BY <1>1, <1>2, <1>3, <2>1, <2>2, <2>3 DEF TypeOK
<1>18. ~InDoubt'
  <2>1. Len(wal') \in Nat
    BY <1>3 DEF Journal
  <2> QED
    BY <1>1, <2>1 DEF InDoubt, Marks
<1>13. PcInv'
  BY <1>1 DEF PcInv
<1>14. JournalInv'
  <2>1. \A i \in Len(wal') + 1 .. Len(wal') : FALSE
    BY <1>3 DEF Journal
  <2>2. Len(wal') <= Len(wal')
    BY <1>3 DEF Journal
  <2> QED
    BY <1>1, <1>3, <1>18, <2>1, <2>2 DEF JournalInv, Recovering
<1>15. RunningInv'
  BY <1>1 DEF RunningInv, Running
<1>16. FileInv'
  BY <1>1, <1>11 DEF FileInv
<1>17. GoalInv'
  BY <1>1 DEF GoalInv, MakingRoom
<1> QED
  BY <1>10, <1>12, <1>13, <1>14, <1>15, <1>16, <1>17, <1>18

LEMMA SafeShutdownInv ==
    ASSUME IInv, SafeShutdown
    PROVE  /\ IInv' /\ ~InDoubt'
           /\ DiskContents' = IF InDoubt THEN Sealing ELSE DiskContents
<1> USE DEF IInv
<1>1. /\ pc = "idle" /\ pc' = "down" /\ walDisk' = wal /\ cut' = FALSE /\ dbDisk' = db
      /\ inTransaction' = FALSE /\ staged' = NoWrites /\ unjournalled = {} /\ after = "idle"
      /\ UNCHANGED <<wal, db, unjournalled, goal, replay, after>>
  BY DEF SafeShutdown, PcInv
<1>2. /\ DiskContents' = Sealing /\ Sealing \in Contents /\ JournalInv'
      /\ ~InDoubt => Sealing = DiskContents
  BY <1>1, SyncedInv DEF DiskContents, Sealing, Recovering
<1>9. ~InDoubt'
  BY <1>1, Types DEF InDoubt, Marks
<1>3. TypeOK'
  <2>1. staged' \in UNION {[bs -> Value] : bs \in SUBSET Block}
    BY <1>1, NothingStaged
  <2> QED
    BY <1>1, <2>1 DEF TypeOK
<1>4. PcInv'
  BY <1>1 DEF PcInv
<1>6. RunningInv'
  BY <1>1 DEF RunningInv, Running
<1>7. FileInv'
  BY <1>1, <1>2 DEF FileInv
<1>8. GoalInv'
  BY <1>1 DEF GoalInv, MakingRoom
<1> QED
  BY <1>2, <1>3, <1>4, <1>6, <1>7, <1>8, <1>9

LEMMA OpenInv ==
    ASSUME RecoversOnOpen, IInv, Open
    PROVE  IInv' /\ DiskContents' = DiskContents
<1> USE DEF IInv
<1>1. /\ pc = "down" /\ after = "idle" /\ unjournalled = {}
      /\ (IF cut THEN wal = <<>> ELSE wal = walDisk)
      /\ UNCHANGED fileVars /\ UNCHANGED commitVars
  BY DEF Open, PcInv, JournalInv
<1>2. replay' = CommittedWrites(wal)
  BY DEF Open, ToReplay, TypeOK
<1>3. \/ wal = <<>> /\ pc' = "idle" /\ after' = "idle"
      \/ wal # <<>> /\ pc' = "truncate" /\ replay' = {} /\ after' = "opened"
      \/ wal # <<>> /\ pc' = "copy" /\ after' = "opened"
  BY <1>1 DEF Open
<1>4. DiskContents' = DiskContents
  BY <1>1 DEF DiskContents, fileVars
<1>5. ASSUME CommittedWrites(wal) = {}
      PROVE  db = dbDisk /\ db = DiskContents
  <2>5. CASE cut
    BY <2>5 DEF FileInv
  <2>6. CASE ~cut
    <3>1. \A b \in Block : WritesTo(b, walDisk, CommittedWrites(walDisk)) = {}
      BY <1>1, <1>5, <2>6 DEF WritesTo
    <3>2. db = [b \in Block |-> db[b]] /\ dbDisk = [b \in Block |-> dbDisk[b]]
      BY DEF TypeOK
    <3>3. db = dbDisk
      BY <3>1, <3>2 DEF FileInv
    <3>4. Copied(dbDisk, walDisk, {}) = dbDisk
      BY <3>2, EmptyJournal
    <3> QED
      BY <1>1, <1>5, <2>6, <3>3, <3>4 DEF DiskContents
  <2> QED
    BY <2>5, <2>6
<1>6. wal = <<>> => CommittedWrites(wal) = {}
  BY EmptyJournal
<1>7. TypeOK'
  <2>1. replay' \subseteq 1 .. Len(wal)
    BY <1>2 DEF CommittedWrites
  <2> QED
    BY <1>1, <1>3, <2>1 DEF TypeOK, fileVars, commitVars
<1>8. PcInv'
  BY <1>1, <1>2, <1>3, <1>6 DEF PcInv, commitVars
<1>9. JournalInv'
  <2>1. ~InDoubt /\ InDoubt' = InDoubt
    BY <1>1, <1>3, NoDoubt, EmptyJournal DEF InDoubt, fileVars
  <2>2. wal # <<>> => ~cut /\ wal = walDisk
    BY <1>1
  <2> QED
    BY <1>1, <1>3, <2>1, <2>2 DEF JournalInv, Recovering, fileVars
<1>10. RunningInv'
  <2> SUFFICES ASSUME Running' PROVE RunningInv'
    BY DEF RunningInv
  <2>1. wal = <<>>
    BY <1>3 DEF Running, Recovering
  <2>2. db \in Contents
    BY <1>5, <1>6, <2>1 DEF FileInv
  <2> QED
    BY <1>1, <2>1, <2>2, EmptyJournal DEF RunningInv, fileVars
<1>13. ~InDoubt
  BY <1>1, NoDoubt, EmptyJournal
<1>11. FileInv'
  <2>1. Copied(db, wal, CommittedWrites(wal)) = DiskContents
    BY <1>1, <1>13, SyncedJournal
  <2>2. pc' = "truncate" => CommittedWrites(wal) = {}
    BY <1>2, <1>3
  <2>3. pc' # "empty"
    BY <1>3
  <2> QED
    BY <1>1, <1>2, <1>4, <1>5, <2>1, <2>2, <2>3 DEF FileInv, fileVars
<1>12. GoalInv'
  BY <1>3 DEF GoalInv, MakingRoom
<1> QED
  BY <1>4, <1>7, <1>8, <1>9, <1>10, <1>11, <1>12

\* No step but the sync of a commit marker, the running one's or one in doubt,
\* changes what the disk stands for, unless it is a crash that brings it forward.
LEMMA NextInv ==
    ASSUME RecoversOnOpen, IInv, NoRoomInDoubt', [Next]_vars
    PROVE  /\ IInv'
           /\ \/ DiskContents' = DiskContents
              \/ pc = "seal" /\ (SyncMarker \/ Crash) /\ DiskContents' = Sealing
              \/ InDoubt /\ (SyncWrites \/ SafeShutdown \/ Crash) /\ DiskContents' = Sealing
<1>1. ASSUME NEW bs \in SUBSET Block, NEW writes \in [bs -> Value], Begin(writes)
      PROVE  IInv' /\ DiskContents' = DiskContents
  BY <1>1, BeginInv
<1>2. ASSUME NEW b \in Block, LogWrite(b)
      PROVE  IInv' /\ DiskContents' = DiskContents
  BY <1>2, LogWriteInv
<1>3. CASE SyncWrites
  BY <1>3, SyncWritesInv
<1>4. CASE AddCommitMarker
  BY <1>4, AddCommitMarkerInv
<1>5. CASE SyncMarker
  BY <1>5, SyncMarkerInv DEF SyncMarker
<1>6. CASE Checkpoint
  BY <1>6, CheckpointInv DEF Checkpoint
<1>7. CASE CopyWrite
  BY <1>7, CopyWriteInv
<1>8. CASE SyncDb
  BY <1>8, SyncDbInv
<1>9. CASE TruncateWal
  BY <1>9, TruncateWalInv
<1>10. CASE SyncEmptyWal
  BY <1>10, SyncEmptyWalInv
<1>11. CASE Fail
  BY <1>11, FailInv
<1>12. CASE Crash
  BY <1>12, CrashInv DEF UnsyncedMark, InDoubt
<1>13. CASE SafeShutdown
  BY <1>13, SafeShutdownInv
<1>14. CASE Open
  BY <1>14, OpenInv
<1>15. CASE UNCHANGED vars
  <2>1. /\ UNCHANGED <<wal, walDisk, cut, db, dbDisk, inTransaction, staged, unjournalled, goal>>
        /\ UNCHANGED <<replay, pc, after>>
    BY <1>15 DEF vars, fileVars, commitVars
  <2>2. DiskContents' = DiskContents
    BY <2>1 DEF DiskContents
  <2> QED
    BY <2>1, <2>2 DEF IInv, TypeOK, PcInv, JournalInv, RunningInv, FileInv, GoalInv, Running,
                      InDoubt, Recovering, MakingRoom
<1> QED
  BY <1>1, <1>2, <1>3, <1>4, <1>5, <1>6, <1>7, <1>8, <1>9, <1>10, <1>11, <1>12, <1>13, <1>14,
     <1>15 DEF Next

\* Between the journal and the database file one is always right: blocks that
\* differ from what was last synced are those a committed record restores.  What
\* is left out is a checkpoint that makes room while a marker is in doubt; where
\* the sync of a marker never fails there is none.
THEOREM OneFileIsRight ==
    ASSUME RecoversOnOpen
    PROVE  Spec /\ []NoRoomInDoubt => []IInv
<1>1. Init => IInv
  BY InitInv
<1>2. IInv /\ NoRoomInDoubt' /\ [Next]_vars => IInv'
  BY NextInv
<1> QED
  BY <1>1, <1>2, PTL DEF Spec

\* The journal never outgrows its limit, and every variable keeps its type.
THEOREM TypeCorrect ==
    ASSUME RecoversOnOpen
    PROVE  Spec /\ []NoRoomInDoubt => []TypeOK
<1>1. IInv => TypeOK
  BY DEF IInv
<1> QED
  BY <1>1, OneFileIsRight, PTL

\* Between transactions the database file reads as what was committed, after any
\* number of crashes, errors and recoveries, also where a checkpoint made room in
\* the middle of a transaction.
THEOREM FileReadsAsCommitted ==
    ASSUME RecoversOnOpen
    PROVE  Spec /\ []NoRoomInDoubt => []CommittedIsRead
<1>1. IInv => CommittedIsRead
  <2> SUFFICES ASSUME IInv, pc = "idle", NEW b \in Block \ DOMAIN staged
               PROVE  db[b] = DiskContents[b] /\ db[b] # Torn
    BY DEF CommittedIsRead
  <2> USE DEF IInv
  <2>1. db \in Contents /\ \A i \in 1 .. Len(wal) : wal[i].type = "WRITE" => wal[i].block \in DOMAIN staged
    BY DEF PcInv, RunningInv, Running, Recovering
  <2>2. db[b] # Torn
    BY <2>1, AtomicFileAssumption DEF Contents
  <2>3. CASE cut
    BY <2>2, <2>3 DEF FileInv
  <2>4. CASE ~cut
    <3>1. WritesTo(b, walDisk, CommittedWrites(walDisk)) = {}
      <4> SUFFICES ASSUME NEW i \in CommittedWrites(walDisk), walDisk[i].block = b PROVE FALSE
        BY DEF WritesTo
      <4>1. i \in 1 .. Len(walDisk) /\ walDisk[i].type = "WRITE"
        BY DEF CommittedWrites
      <4>2. i \in 1 .. Len(wal) /\ wal[i] = walDisk[i]
        BY <2>4, <4>1, Types DEF JournalInv
      <4> QED
        BY <2>1, <4>1, <4>2
    <3>2. DiskContents[b] = dbDisk[b]
      BY <3>1, NotCopied DEF DiskContents
    <3> QED
      BY <2>2, <3>1, <3>2 DEF FileInv
  <2> QED
    BY <2>3, <2>4
<1> QED
  BY <1>1, OneFileIsRight, PTL

-----------------------------------------------------------------------------
(* Whole transactions.  A checkpoint that makes room in the middle of one     *)
(* empties the journal of the blocks it has journalled so far: what follows   *)
(* holds of the behaviours in which none does.                                *)

LEMMA AppendedIsJournalled ==
    ASSUME IInv, NEW r \in Record, wal' = Append(wal, r), staged' = staged,
           NEW c \in DOMAIN staged,
           \/ Journalled(c) /\ (r.type = "WRITE" => r.block # c)
           \/ r = WriteRecord(c, staged[c])
    PROVE  Journalled(c)'
<1>1. wal \in Journal /\ Len(wal) \in Nat
  BY Types DEF IInv
<1>2. /\ Len(wal') = Len(wal) + 1 /\ wal'[Len(wal) + 1] = r
      /\ \A i \in 1 .. Len(wal) : wal'[i] = wal[i]
  BY <1>1 DEF Journal
<1>3. CASE r = WriteRecord(c, staged[c])
  <2>1. Len(wal) + 1 \in 1 .. Len(wal') /\ \A j \in Len(wal) + 1 + 1 .. Len(wal') : FALSE
    BY <1>1, <1>2
  <2> QED
    BY <1>2, <1>3, <2>1 DEF Journalled
<1>4. CASE Journalled(c) /\ (r.type = "WRITE" => r.block # c)
  <2>1. PICK i \in 1 .. Len(wal) :
           /\ wal[i] = WriteRecord(c, staged[c])
           /\ \A j \in i + 1 .. Len(wal) : wal[j].type = "WRITE" => wal[j].block # c
    BY <1>4 DEF Journalled
  <2>2. i \in 1 .. Len(wal') /\ wal'[i] = WriteRecord(c, staged'[c])
    BY <1>1, <1>2, <2>1
  <2>3. ASSUME NEW j \in i + 1 .. Len(wal'), wal'[j].type = "WRITE" PROVE wal'[j].block # c
    <3>1. j = Len(wal) + 1 \/ j \in i + 1 .. Len(wal)
      BY <1>1, <1>2
    <3>2. CASE j = Len(wal) + 1
      BY <1>2, <1>4, <2>3, <3>2
    <3>3. CASE j \in i + 1 .. Len(wal)
      <4>1. j \in 1 .. Len(wal)
        BY <1>1, <3>3
      <4> QED
        BY <1>2, <2>1, <2>3, <3>3, <4>1
    <3> QED
      BY <3>1, <3>2, <3>3
  <2> QED
    BY <2>2, <2>3 DEF Journalled
<1> QED
  BY <1>3, <1>4

\* A commit journals each block once and skips none.
LEMMA WholeStep ==
    ASSUME IInv, WholeInv, NoSplit, [Next]_vars
    PROVE  WholeInv'
<1> USE DEF WholeInv
<1>1. ASSUME NEW bs \in SUBSET Block, NEW writes \in [bs -> Value], Begin(writes)
      PROVE  WholeInv'
  BY <1>1 DEF Begin
<1>2. ASSUME NEW b \in Block, LogWrite(b)
      PROVE  WholeInv'
  <2>1. CASE Overflows(WriteSize)
    BY <1>2, <2>1 DEF LogWrite, CheckpointFirst
  <2>2. CASE ~Overflows(WriteSize)
    <3>1. /\ wal' = Append(wal, WriteRecord(b, staged[b])) /\ pc = "journal"
          /\ unjournalled' = unjournalled \ {b} /\ staged' = staged /\ b \in unjournalled
      BY <1>2, <2>2 DEF LogWrite
    <3>2. b \in DOMAIN staged /\ staged[b] \in Value
      BY <3>1, Types DEF IInv, TypeOK
    <3> DEFINE r == WriteRecord(b, staged[b])
    <3>3. r \in Record /\ r.block = b
      BY <3>2, RecordTypes
    <3> HIDE DEF r
    <3>4. ASSUME NEW c \in DOMAIN staged \ unjournalled' PROVE Journalled(c)'
      <4>1. wal' = Append(wal, r)
        BY <3>1 DEF r
      <4>2. CASE c = b
        <5>1. r = WriteRecord(c, staged[c])
          BY <4>2 DEF r
        <5> QED
          BY <3>1, <3>3, <4>1, <5>1, AppendedIsJournalled
      <4>3. CASE c # b
        <5>1. Journalled(c)
          BY <3>1, <4>3
        <5> QED
          BY <3>1, <3>3, <4>1, <4>3, <5>1, AppendedIsJournalled
      <4> QED
        BY <4>2, <4>3
    <3> QED
      BY <3>1, <3>4
  <2> QED
    BY <2>1, <2>2
<1>3. CASE AddCommitMarker
  <2>1. CASE Overflows(CommitSize)
    BY <1>3, <2>1 DEF AddCommitMarker, CheckpointFirst
  <2>2. CASE ~Overflows(CommitSize)
    <3>1. wal' = Append(wal, CommitRecord) /\ pc = "mark" /\ UNCHANGED <<unjournalled, staged>>
      BY <1>3, <2>2 DEF AddCommitMarker, commitVars
    <3>2. ASSUME NEW c \in DOMAIN staged \ unjournalled PROVE Journalled(c)'
      <4>1. Journalled(c)
        BY <3>1
      <4> QED
        BY <3>1, <4>1, RecordTypes, AppendedIsJournalled
    <3> QED
      BY <3>1, <3>2
  <2> QED
    BY <2>1, <2>2
<1>4. CASE SyncWrites \/ SyncMarker
  BY <1>4 DEF SyncWrites, SyncMarker, commitVars, Journalled
<1>5. CASE SyncEmptyWal
  <2>1. CASE after \in {"journal", "mark"}
    BY <1>5, <2>1 DEF SyncEmptyWal, commitVars, NoSplit
  <2>2. CASE after \notin {"journal", "mark"}
    BY <1>5, <2>2 DEF SyncEmptyWal
  <2> QED
    BY <2>1, <2>2
<1>6. CASE Checkpoint \/ CopyWrite \/ SyncDb \/ TruncateWal
  BY <1>6 DEF Checkpoint, CopyWrite, SyncDb, TruncateWal
<1>7. CASE Fail \/ Crash \/ SafeShutdown \/ Open
  BY <1>7 DEF Fail, Crash, SafeShutdown, Open
<1>8. CASE UNCHANGED vars
  BY <1>8 DEF vars, fileVars, commitVars, Journalled
<1> QED
  BY <1>1, <1>2, <1>3, <1>4, <1>5, <1>6, <1>7, <1>8 DEF Next

\* A marker seals exactly what the transaction asks for.
LEMMA SealingIsGoal ==
    ASSUME IInv, WholeInv, pc = "seal"
    PROVE  Sealing = goal
<1> USE DEF IInv
<1>1. /\ wal \in Journal /\ Len(wal) \in Nat /\ DOMAIN db = Block /\ Len(walDisk) \in Nat
  BY Types
<1>2. /\ ~cut /\ Len(wal) = Len(walDisk) + 1 /\ wal[Len(wal)] = CommitRecord
      /\ after = "idle" /\ unjournalled = {}
  BY DEF JournalInv, PcInv
<1>3. \A i \in 1 .. Len(wal) :
         wal[i].intact /\ (wal[i].type = "WRITE" => wal[i].block \in DOMAIN staged)
  BY <1>2 DEF RunningInv, Running, Recovering
<1> DEFINE P == CommittedWrites(wal)
<1>4. P = {i \in 1 .. Len(wal) : wal[i].type = "WRITE"}
  <2>1. Len(wal) # 0 /\ wal[Len(wal)].type = "COMMIT"
    BY <1>1, <1>2, RecordTypes
  <2> QED
    BY <1>1, <1>3, <2>1, AllCommitted
<1>5. Sealing = Copied(dbDisk, wal, P)
  BY DEF Sealing
<1>6. ArePlaces(P, wal)
  BY <1>1, <1>4 DEF ArePlaces
<1> HIDE DEF P
<1>7. ASSUME NEW b \in Block PROVE Sealing[b] = goal[b]
  <2>1. goal[b] = IF b \in DOMAIN staged THEN staged[b] ELSE db[b]
    BY <1>1, OverAt DEF GoalInv
  <2>2. CASE b \notin DOMAIN staged
    <3>1. WritesTo(b, wal, P) = {}
      BY <1>3, <1>4, <2>2 DEF WritesTo
    <3>2. db[b] = dbDisk[b]
      BY <1>2, <3>1, SealingContents DEF P
    <3> QED
      BY <1>5, <2>1, <2>2, <3>1, <3>2, NotCopied
  <2>3. CASE b \in DOMAIN staged
    <3>1. Journalled(b)
      BY <1>2, <2>3 DEF WholeInv
    <3>2. PICK i \in 1 .. Len(wal) :
             /\ wal[i] = WriteRecord(b, staged[b])
             /\ \A j \in i + 1 .. Len(wal) : wal[j].type = "WRITE" => wal[j].block # b
      BY <3>1 DEF Journalled
    <3>3. staged[b] \in Value
      BY <2>3, Types
    <3>4. wal[i].type = "WRITE" /\ wal[i].block = b /\ wal[i].value = staged[b]
      BY <3>2, <3>3, RecordTypes
    <3>5. i \in WritesTo(b, wal, P)
      BY <1>4, <3>4 DEF WritesTo
    <3>6. ASSUME NEW j \in WritesTo(b, wal, P) PROVE j <= i
      <4>1. j \in 1 .. Len(wal) /\ wal[j].type = "WRITE" /\ wal[j].block = b
        BY <1>4 DEF WritesTo
      <4>2. j \notin i + 1 .. Len(wal)
        BY <3>2, <4>1
      <4> QED
        BY <1>1, <4>1, <4>2
    <3>7. LastOf(i, WritesTo(b, wal, P))
      BY <3>5, <3>6 DEF LastOf
    <3>8. Sealing[b] = wal[i].value
      BY <1>5, <1>6, <3>7, CopiedAt
    <3> QED
      BY <2>1, <2>3, <3>4, <3>8
  <2> QED
    BY <2>2, <2>3
<1>8. Sealing \in [Block -> Value] /\ goal \in [Block -> Value]
  BY <1>2, SealingContents DEF Contents, TypeOK
<1> QED
  BY <1>7, <1>8

\* The invariant of whole transactions.
DurableInv == IInv /\ WholeInv /\ CommitIsDurable

LEMMA DurableStep ==
    ASSUME RecoversOnOpen, DurableInv, NoSplit, NoRoomInDoubt', [Next]_vars
    PROVE  DurableInv'
<1> USE DEF DurableInv
<1>1. IInv' /\ WholeInv'
  BY NextInv, WholeStep
<1>2. ASSUME pc' = "checkpoint" PROVE DiskContents' = goal'
  <2>1. CASE pc = "checkpoint" /\ UNCHANGED <<goal, walDisk, dbDisk>>
    BY <2>1 DEF CommitIsDurable, DiskContents
  <2>2. CASE SyncMarker
    <3>1. DiskContents' = Sealing /\ pc = "seal" /\ goal' = goal
      BY <2>2, SyncMarkerInv DEF SyncMarker, commitVars
    <3> QED
      BY <3>1, SealingIsGoal
  <2>3. SyncMarker \/ (pc = "checkpoint" /\ UNCHANGED <<goal, walDisk, dbDisk>>)
    <3>1. CASE UNCHANGED vars
      BY <1>2, <3>1 DEF vars, fileVars, commitVars
    <3>2. CASE Next
      BY <1>2, <3>2 DEF Next, Begin, LogWrite, SyncWrites, AddCommitMarker, CheckpointFirst,
                        Checkpoint, CopyWrite, SyncDb, TruncateWal, SyncEmptyWal, Fail, Crash,
                        SafeShutdown, Open
    <3> QED
      BY <3>1, <3>2
  <2> QED
    BY <2>1, <2>2, <2>3
<1> QED
  BY <1>1, <1>2 DEF CommitIsDurable

\* When commitDataToWal returns, the whole transaction is on disk, provided that
\* no checkpoint made room in the middle of it.
THEOREM WholeCommitIsDurable ==
    ASSUME RecoversOnOpen
    PROVE  Spec /\ []NoSplit /\ []NoRoomInDoubt => []CommitIsDurable
<1>1. Init => DurableInv
  BY InitInv DEF DurableInv, Init, WholeInv, CommitIsDurable
<1>2. DurableInv /\ NoSplit /\ NoRoomInDoubt' /\ [Next]_vars => DurableInv'
  BY DurableStep
<1>3. DurableInv => CommitIsDurable
  BY DEF DurableInv
<1> QED
  BY <1>1, <1>2, <1>3, PTL DEF Spec

\* A marker is in doubt only between transactions, and while the blocks of the
\* next one are journalled.
LEMMA DoubtIsEarly ==
    ASSUME IInv, InDoubt
    PROVE  pc \in {"idle", "journal"} /\ ~cut /\ UnsyncedMark
<1> USE DEF IInv
<1>1. UnsyncedMark /\ pc # "seal"
  BY DEF UnsyncedMark, InDoubt
<1>2. ~cut
  BY NoDoubt DEF JournalInv
<1>3. pc \notin {"mark", "checkpoint", "down", "empty", "copy", "truncate"}
  <2>1. wal # walDisk
    BY NoDoubt
  <2> QED
    BY <1>2, <2>1 DEF JournalInv
<1> QED
  BY <1>1, <1>2, <1>3 DEF TypeOK

\* What may come to be stored: what is in doubt, then what the running commit
\* asks for.
Doubts == IF InDoubt THEN <<Sealing>> ELSE <<>>
Asked == IF Undecided THEN <<goal>> ELSE <<>>

\* Each step either leaves this as it is, or adds to it, gives some of it up, or
\* makes some of it take effect.
LEMMA AtomicStep ==
    ASSUME RecoversOnOpen, DurableInv, DurableInv', NoRoomInDoubt', [Next]_vars
    PROVE  \/ UNCHANGED <<DiskContents, Doubts, Asked>>
           \/ UNCHANGED <<DiskContents, Doubts>> /\ Asked = <<>> /\ Asked' = <<goal'>>
           \/ UNCHANGED <<DiskContents, Doubts>> /\ Asked = <<goal>> /\ Asked' = <<>>
           \/ DiskContents' = DiskContents /\ Doubts' = <<>> /\ Asked' = <<>>
           \/ /\ DiskContents' = DiskContents
              /\ Doubts = <<>> /\ Asked = <<goal>> /\ Doubts' = <<goal>> /\ Asked' = <<>>
           \/ /\ DiskContents' = goal
              /\ Doubts = <<>> /\ Asked = <<goal>> /\ Doubts' = <<>> /\ Asked' = <<>>
           \/ /\ Doubts = <<Sealing>> /\ DiskContents' = Sealing /\ Doubts' = <<>>
              /\ Asked' \in {Asked, <<>>}
<1> USE DEF DurableInv
<1>1. ASSUME UNCHANGED <<wal, walDisk, dbDisk>>
      PROVE  /\ DiskContents' = DiskContents /\ Sealing' = Sealing
             /\ pc # "seal" /\ pc' # "seal" => Doubts' = Doubts
  BY <1>1 DEF DiskContents, Sealing, InDoubt, Doubts
<1>2. IInv /\ TypeOK /\ TypeOK'
  BY DEF IInv
<1>3. pc \notin {"idle", "journal"} => Doubts = <<>>
  BY DoubtIsEarly DEF Doubts
<1>5. ASSUME NEW bs \in SUBSET Block, NEW writes \in [bs -> Value], Begin(writes)
      PROVE  UNCHANGED <<DiskContents, Doubts>> /\ Asked = <<>> /\ Asked' = <<goal'>>
  BY <1>1, <1>5 DEF Begin, fileVars, Undecided, Asked
<1>6. ASSUME CheckpointFirst, pc \in {"journal", "mark"}
      PROVE  UNCHANGED <<DiskContents, Doubts, Asked>>
  <2>1. Undecided /\ Undecided' /\ goal' = goal
    BY <1>6 DEF CheckpointFirst, commitVars, Undecided
  <2> QED
    BY <1>1, <1>6, <2>1 DEF CheckpointFirst, fileVars, Asked
<1>7. ASSUME NEW b \in Block, LogWrite(b)
      PROVE  UNCHANGED <<DiskContents, Doubts, Asked>>
  <2>1. CASE Overflows(WriteSize)
    BY <1>6, <1>7, <2>1 DEF LogWrite
  <2>2. CASE ~Overflows(WriteSize)
    <3>1. /\ pc = "journal" /\ pc' = "journal" /\ b \in unjournalled
          /\ wal' = Append(wal, WriteRecord(b, staged[b]))
          /\ UNCHANGED <<walDisk, db, dbDisk, goal, after>>
      BY <1>7, <2>2 DEF LogWrite
    <3>2. wal \in Journal /\ b \in DOMAIN staged /\ staged[b] \in Value
      BY <1>2, <3>1, Types DEF TypeOK
    <3>3. WriteRecord(b, staged[b]) \in Record /\ WriteRecord(b, staged[b]).type = "WRITE"
      BY <3>2, RecordTypes
    <3>4. /\ Marks(wal') = Marks(wal) /\ CommittedWrites(wal') = CommittedWrites(wal)
          /\ \A i \in CommittedWrites(wal) : wal'[i] = wal[i]
      BY <3>1, <3>2, <3>3, WriteMarksNothing
    <3>5. InDoubt' = InDoubt
      BY <3>1, <3>4 DEF InDoubt
    <3>6. Sealing' = Sealing
      <4>1. wal' \in Journal /\ wal \in Journal
        BY <1>2, <3>2 DEF TypeOK, Journal
      <4>2. /\ CommittedWrites(wal) \in SUBSET (1 .. Len(wal))
            /\ CommittedWrites(wal) \subseteq 1 .. Len(wal')
        BY <3>4 DEF CommittedWrites
      <4> DEFINE P == CommittedWrites(wal)
      <4> HIDE DEF P
      <4>3. Copied(dbDisk, wal', P) = Copied(dbDisk, wal, P)
        BY <3>4, <4>1, <4>2, SameCopied DEF P
      <4> QED
        BY <3>1, <3>4, <4>3 DEF Sealing, P
    <3>7. DiskContents' = DiskContents /\ Undecided' = Undecided
      BY <3>1 DEF DiskContents, Undecided
    <3> QED
      BY <3>1, <3>5, <3>6, <3>7 DEF Doubts, Asked
  <2> QED
    BY <2>1, <2>2
<1>8. CASE SyncWrites
  <2>1. /\ Doubts' = <<>> /\ Undecided /\ Undecided' /\ goal' = goal
        /\ DiskContents' = IF InDoubt THEN Sealing ELSE DiskContents
    BY <1>8, SyncWritesInv DEF SyncWrites, commitVars, Undecided, Doubts
  <2> QED
    BY <2>1 DEF Doubts, Asked
<1>9. CASE AddCommitMarker
  <2>1. CASE Overflows(CommitSize)
    BY <1>6, <1>9, <2>1 DEF AddCommitMarker
  <2>2. CASE ~Overflows(CommitSize)
    <3>1. /\ pc = "mark" /\ pc' = "seal" /\ goal' = goal
          /\ UNCHANGED <<walDisk, dbDisk>>
      BY <1>9, <2>2 DEF AddCommitMarker, commitVars
    <3>2. DiskContents' = DiskContents /\ Undecided /\ Undecided'
      BY <3>1 DEF DiskContents, Undecided
    <3> QED
      BY <1>3, <3>1, <3>2 DEF Asked, Doubts, InDoubt
  <2> QED
    BY <2>1, <2>2
<1>10. CASE SyncMarker
  <2>1. pc = "seal" /\ pc' = "checkpoint" /\ DiskContents' = goal
    BY <1>10, SyncMarkerInv, SealingIsGoal DEF SyncMarker
  <2>2. Undecided /\ ~Undecided'
    BY <2>1 DEF Undecided
  <2>3. ~InDoubt'
    BY <1>2, <1>10, Types DEF SyncMarker, SyncedMarker, InDoubt, Marks
  <2> QED
    BY <1>3, <2>1, <2>2, <2>3 DEF Asked, Doubts
<1>11. CASE Checkpoint \/ CopyWrite \/ SyncDb \/ TruncateWal \/ SyncEmptyWal \/ Open
  <2>1. DiskContents' = DiskContents
    <3>1. ~(pc = "seal") /\ ~(SyncWrites \/ SafeShutdown \/ Crash)
      BY <1>11 DEF Checkpoint, CopyWrite, SyncDb, TruncateWal, SyncEmptyWal, Open, SyncWrites,
                   SafeShutdown, Crash
    <3> QED
      BY <3>1, NextInv
  <2>2. goal' = goal /\ Undecided' = Undecided /\ pc \notin {"idle", "journal"}
    BY <1>11 DEF Checkpoint, CopyWrite, SyncDb, TruncateWal, SyncEmptyWal, Open, commitVars,
                 Undecided, IInv, PcInv
  <2>3. ~InDoubt'
    <3>1. CASE Checkpoint \/ CopyWrite \/ SyncDb \/ Open
      <4>1. UNCHANGED <<wal, walDisk>> /\ pc # "seal"
        BY <3>1 DEF Checkpoint, CopyWrite, SyncDb, Open, fileVars
      <4>2. InDoubt' => InDoubt
        BY <4>1 DEF InDoubt
      <4> QED
        BY <2>2, <4>2, DoubtIsEarly
    <3>2. CASE TruncateWal \/ SyncEmptyWal
      <4>1. wal' = <<>>
        BY <3>2 DEF TruncateWal, SyncEmptyWal, IInv, JournalInv
      <4> QED
        BY <4>1, EmptyJournal DEF InDoubt, Marks
    <3> QED
      BY <1>11, <3>1, <3>2
  <2> QED
    BY <1>3, <2>1, <2>2, <2>3 DEF Doubts, Asked
<1>12. CASE Fail
  <2>1. /\ pc' \in {"idle", "down"} /\ pc \notin {"idle", "down"}
        /\ UNCHANGED <<wal, walDisk, dbDisk, goal>>
    BY <1>12 DEF Fail, fileVars
  <2>2. DiskContents' = DiskContents /\ Sealing' = Sealing /\ ~Undecided'
    BY <1>1, <2>1 DEF Undecided
  <2>3. CASE pc = "seal"
    <3>1. Sealing = goal /\ Undecided /\ Doubts = <<>>
      BY <1>3, <2>3, SealingIsGoal DEF Undecided
    <3>2. InDoubt'
      <4>1. /\ wal \in Journal /\ Len(wal) \in Nat /\ Len(walDisk) \in Nat
            /\ Len(wal) = Len(walDisk) + 1 /\ wal[Len(wal)] = CommitRecord
        BY <2>3, Types DEF IInv, JournalInv
      <4>2. \A i \in 1 .. Len(wal) : wal[i].intact
        BY <2>3 DEF IInv, PcInv, RunningInv, Running, Recovering
      <4>3. Len(wal) \in Marks(wal) /\ Len(wal) > Len(walDisk)
        BY <4>1, <4>2, RecordTypes DEF Marks
      <4> QED
        BY <2>1, <4>3 DEF InDoubt
    <3> QED
      BY <2>1, <2>2, <3>1, <3>2 DEF Doubts, Asked
  <2>4. CASE pc # "seal"
    <3>1. Doubts' = Doubts
      BY <1>1, <2>1, <2>4
    <3> QED
      BY <2>2, <3>1 DEF Asked
  <2> QED
    BY <2>3, <2>4
<1>13. CASE Crash
  <2>1. Doubts' = <<>> /\ Asked' = <<>>
    BY <1>13, CrashInv DEF Crash, Undecided, Doubts, Asked
  <2>2. CASE DiskContents' = DiskContents
    BY <2>1, <2>2
  <2>3. CASE UnsyncedMark /\ DiskContents' = Sealing
    <3>1. CASE pc = "seal"
      <4>1. Sealing = goal /\ Undecided
        BY <3>1, SealingIsGoal DEF Undecided
      <4> QED
        BY <1>3, <2>1, <2>3, <3>1, <4>1 DEF Asked
    <3>2. CASE pc # "seal"
      <4>1. InDoubt
        BY <2>3, <3>2 DEF UnsyncedMark, InDoubt
      <4> QED
        BY <2>1, <2>3, <4>1 DEF Doubts
    <3> QED
      BY <3>1, <3>2
  <2> QED
    BY <1>13, <2>2, <2>3, CrashInv
<1>14. CASE SafeShutdown
  <2>1. /\ Doubts' = <<>> /\ ~Undecided /\ ~Undecided'
        /\ DiskContents' = IF InDoubt THEN Sealing ELSE DiskContents
    BY <1>14, SafeShutdownInv DEF SafeShutdown, Undecided, Doubts
  <2> QED
    BY <2>1 DEF Doubts, Asked
<1>15. CASE UNCHANGED vars
  BY <1>1, <1>15 DEF vars, fileVars, commitVars, InDoubt, Doubts, Undecided, Asked
<1> QED
  BY <1>5, <1>7, <1>8, <1>9, <1>10, <1>11, <1>12, <1>13, <1>14, <1>15 DEF Next

\* The front and the rest of two sequences put together.
LEMMA FrontAndRest ==
    ASSUME NEW S, NEW a \in Seq(S), NEW b \in Seq(S)
    PROVE  /\ SubSeq(a \o b, 1, Len(a)) = a
           /\ SubSeq(a \o b, Len(a) + 1, Len(a \o b)) = b
<1>1. /\ a \o b \in Seq(S) /\ Len(a \o b) = Len(a) + Len(b)
      /\ Len(a) \in Nat /\ Len(b) \in Nat
      /\ \A i \in 1 .. Len(a) : (a \o b)[i] = a[i]
      /\ \A i \in 1 .. Len(b) : (a \o b)[Len(a) + i] = b[i]
  <2>1. /\ a \o b \in Seq(S) /\ Len(a \o b) = Len(a) + Len(b)
        /\ Len(a) \in Nat /\ Len(b) \in Nat
        /\ \A i \in 1 .. Len(a) + Len(b) :
              (a \o b)[i] = IF i <= Len(a) THEN a[i] ELSE b[i - Len(a)]
    BY ConcatProperties, LenProperties
  <2> QED
    BY <2>1
<1> DEFINE c == a \o b
<1>2. \A i \in 1 .. Len(a) + Len(b) : c[i] \in S
  BY <1>1, ElementOfSeq
<1>3. SubSeq(c, 1, Len(a)) = a
  <2>1. /\ SubSeq(c, 1, Len(a)) \in Seq(S) /\ Len(SubSeq(c, 1, Len(a))) = Len(a)
        /\ \A i \in 1 .. Len(a) : SubSeq(c, 1, Len(a))[i] = c[i]
    <3> HIDE DEF c
    <3>1. \A i \in 1 .. Len(a) : c[i] \in S
      BY <1>1, <1>2
    <3> QED
      BY <1>1, <3>1, SubSeqProperties
  <2> HIDE DEF c
  <2> QED
    BY <1>1, <2>1, SeqEqual DEF c
<1>4. SubSeq(c, Len(a) + 1, Len(c)) = b
  <2>1. /\ SubSeq(c, Len(a) + 1, Len(c)) \in Seq(S) /\ Len(SubSeq(c, Len(a) + 1, Len(c))) = Len(b)
        /\ \A i \in 1 .. Len(b) : SubSeq(c, Len(a) + 1, Len(c))[i] = c[Len(a) + i]
    <3>0. Len(c) = Len(a) + Len(b)
      BY <1>1
    <3> HIDE DEF c
    <3>1. \A i \in Len(a) + 1 .. Len(c) : c[i] \in S
      BY <1>1, <1>2, <3>0
    <3> QED
      BY <1>1, <3>0, <3>1, SubSeqProperties
  <2> HIDE DEF c
  <2> QED
    BY <1>1, <2>1, SeqEqual DEF c
<1> QED
  BY <1>3, <1>4

\* And transactions take effect in one step, whole, and for good, whatever
\* crashes, errors and recoveries come between; one whose last sync failed may
\* take effect later, before the next one does.
THEOREM TransactionsAreAtomic ==
    ASSUME RecoversOnOpen
    PROVE  Spec /\ []NoSplit /\ []NoRoomInDoubt => AtomicStoreSpec
<1>1. Init => DurableInv
  BY InitInv DEF DurableInv, Init, WholeInv, CommitIsDurable
<1>2. DurableInv /\ NoSplit /\ NoRoomInDoubt' /\ [Next]_vars => DurableInv'
  BY DurableStep
<1>3. Init => Store!Init
  <2> SUFFICES ASSUME Init PROVE Store!Init
    OBVIOUS
  <2>1. DiskContents \in Contents
    BY InitInv DEF IInv, FileInv
  <2>2. ~Undecided /\ ~InDoubt
    BY InitInv, DoubtIsEarly, NoDoubt DEF Init, Undecided, IInv
  <2>3. ToCome = <<>>
    <3>1. ToCome = <<>> \o <<>>
      BY <2>2 DEF ToCome
    <3> QED
      BY <3>1, EmptySeq, ConcatEmptySeq
  <2> QED
    BY <2>1, <2>3 DEF Store!Init, Store!Contents, Contents
<1>4. RecoversOnOpen /\ DurableInv /\ DurableInv' /\ NoRoomInDoubt' /\ [Next]_vars
         => [Store!Next]_(Store!vars)
  <2> SUFFICES ASSUME DurableInv, DurableInv', NoRoomInDoubt', [Next]_vars
               PROVE  [Store!Next]_(Store!vars)
    OBVIOUS
  <2>1. goal' \in Contents /\ goal \in Contents
    BY DEF DurableInv, IInv, TypeOK, Contents
  <2>2. ToCome = Doubts \o Asked /\ ToCome' = Doubts' \o Asked'
    BY DEF ToCome, Doubts, Asked, Sealing
  <2> DEFINE S == {Sealing, goal, goal'}
  <2>3. /\ Doubts \in Seq(S) /\ Doubts \in {<<>>, <<Sealing>>}
        /\ Asked \in Seq(S) /\ Asked \in {<<>>, <<goal>>}
    <3>1. <<>> \in Seq(S) /\ <<Sealing>> \in Seq(S) /\ <<goal>> \in Seq(S)
      OBVIOUS
    <3> QED
      BY <3>1 DEF Doubts, Asked
  <2> HIDE DEF S
  <2>4. /\ ToCome \in Seq(S) /\ Len(ToCome) = Len(Doubts) + Len(Asked)
        /\ Len(Doubts) \in Nat /\ Len(Asked) \in Nat
    BY <2>2, <2>3, ConcatProperties, LenProperties
  <2>5. CASE UNCHANGED <<DiskContents, Doubts, Asked>>
    <3>1. UNCHANGED <<DiskContents, ToCome>>
      BY <2>2, <2>5
    <3> QED
      BY <3>1 DEF Store!vars
  <2>6. CASE UNCHANGED <<DiskContents, Doubts>> /\ Asked = <<>> /\ Asked' = <<goal'>>
    <3>1. ToCome = Doubts /\ ToCome' = Doubts \o <<goal'>>
      BY <2>2, <2>3, <2>6, ConcatEmptySeq
    <3>2. Append(Doubts, goal') = Doubts \o <<goal'>>
      BY <2>3, AppendIsConcat DEF S
    <3>3. Store!Begin
      BY <2>1, <2>6, <3>1, <3>2 DEF Store!Begin, Store!Contents, Contents
    <3> QED
      BY <3>3 DEF Store!Next
  <2>7. CASE UNCHANGED <<DiskContents, Doubts>> /\ Asked = <<goal>> /\ Asked' = <<>>
    <3>1. ToCome' = SubSeq(ToCome, 1, Len(Doubts))
      BY <2>2, <2>3, <2>7, ConcatEmptySeq, FrontAndRest
    <3>2. Len(Asked) = 1
      BY <2>7
    <3>3. Len(Doubts) \in 0 .. Len(ToCome) - 1
      BY <2>4, <3>2
    <3>4. Store!Abandon
      BY <2>7, <3>1, <3>3 DEF Store!Abandon
    <3> QED
      BY <3>4 DEF Store!Next
  <2>8. CASE DiskContents' = DiskContents /\ Doubts' = <<>> /\ Asked' = <<>>
    <3>1. ToCome' = <<>>
      BY <2>2, <2>3, <2>8, ConcatEmptySeq
    <3>2. CASE ToCome = <<>>
      BY <2>8, <3>1, <3>2 DEF Store!vars
    <3>3. CASE ToCome # <<>>
      <4>1. 0 \in 0 .. Len(ToCome) - 1
        BY <2>4, <3>3, EmptySeq
      <4>2. ToCome' = SubSeq(ToCome, 1, 0)
        BY <3>1, SubSeqEmpty
      <4>3. Store!Abandon
        BY <2>8, <4>1, <4>2 DEF Store!Abandon
      <4> QED
        BY <4>3 DEF Store!Next
    <3> QED
      BY <3>2, <3>3
  <2>9. CASE /\ DiskContents' = DiskContents
             /\ Doubts = <<>> /\ Asked = <<goal>> /\ Doubts' = <<goal>> /\ Asked' = <<>>
    <3>1. ToCome' = ToCome
      BY <2>2, <2>3, <2>9, ConcatEmptySeq
    <3> QED
      BY <2>9, <3>1 DEF Store!vars
  <2>10. CASE /\ DiskContents' = goal
              /\ Doubts = <<>> /\ Asked = <<goal>> /\ Doubts' = <<>> /\ Asked' = <<>>
    <3>1. ToCome = <<goal>> /\ ToCome' = <<>>
      BY <2>2, <2>3, <2>10, ConcatEmptySeq
    <3>2. 1 \in DOMAIN ToCome /\ ToCome[1] = goal /\ 1 \in 0 .. Len(ToCome)
      BY <3>1
    <3>3. ToCome' = SubSeq(ToCome, 1 + 1, 1)
      BY <3>1, SubSeqEmpty
    <3>4. Store!Commit
      BY <2>10, <3>2, <3>3 DEF Store!Commit
    <3> QED
      BY <3>4 DEF Store!Next
  <2>11. CASE /\ Doubts = <<Sealing>> /\ DiskContents' = Sealing /\ Doubts' = <<>>
              /\ Asked' \in {Asked, <<>>}
    <3>1. ToCome' = Asked'
      <4>1. Asked' \in Seq(S)
        BY <2>3, <2>11, EmptySeq
      <4> QED
        BY <2>2, <2>11, <4>1, ConcatEmptySeq
    <3>2. Len(Doubts) = 1 /\ Doubts[1] = Sealing
      BY <2>11
    <3>3. 1 \in DOMAIN ToCome /\ ToCome[1] = Sealing /\ Len(ToCome) \in Nat /\ Len(ToCome) >= 1
      <4>1. DOMAIN ToCome = 1 .. Len(ToCome) /\ Len(ToCome) = 1 + Len(Asked)
        BY <2>4, <3>2, LenProperties
      <4>2. 1 \in 1 .. Len(Doubts) + Len(Asked) /\ 1 <= Len(Doubts)
        BY <2>4, <3>2
      <4>3. ToCome[1] = Doubts[1]
        BY <2>2, <2>3, <4>2, ConcatProperties
      <4> QED
        BY <2>4, <3>2, <4>1, <4>3
    <3>4. Asked = SubSeq(ToCome, 1 + 1, Len(ToCome))
      <4>1. SubSeq(Doubts \o Asked, Len(Doubts) + 1, Len(Doubts \o Asked)) = Asked
        BY <2>3, FrontAndRest, Zenon
      <4> QED
        BY <2>2, <3>2, <4>1, Zenon
    <3>5. SubSeq(ToCome, 1 + 1, 1) = <<>>
      BY SubSeqEmpty
    <3>6. \E n \in 0 .. Len(ToCome) : ToCome' = SubSeq(ToCome, 1 + 1, n)
      <4>1. CASE Asked' = Asked
        <5>1. Len(ToCome) \in 0 .. Len(ToCome)
          BY <3>3
        <5> QED
          BY <3>1, <3>4, <4>1, <5>1, Zenon
      <4>2. CASE Asked' = <<>>
        <5>1. 1 \in 0 .. Len(ToCome)
          BY <3>3
        <5> QED
          BY <3>1, <3>5, <4>2, <5>1, Zenon
      <4> QED
        BY <2>11, <4>1, <4>2
    <3>7. Store!Commit
      BY <2>11, <3>3, <3>6 DEF Store!Commit
    <3> QED
      BY <3>7 DEF Store!Next
  <2> QED
    BY <2>5, <2>6, <2>7, <2>8, <2>9, <2>10, <2>11, AtomicStep
<1> QED
  BY <1>1, <1>2, <1>3, <1>4, PTL DEF Spec, AtomicStoreSpec, Store!Spec

-----------------------------------------------------------------------------
(* FreeBlockFile. *)

BlockOf == BlockId \ {NO_BLOCK}

-----------------------------------------------------------------------------
(* Chains. *)

\* f lists n blocks, from h on, each with the next one.
IsList(read, h, f, n) ==
    /\ n \in Nat /\ f \in [1 .. n -> BlockOf]
    /\ h = IF n = 0 THEN NO_BLOCK ELSE f[1]
    /\ \A i \in 1 .. n : read[f[i]].next = IF i = n THEN NO_BLOCK ELSE f[i + 1]
    /\ \A i, j \in 1 .. n : f[i] = f[j] => i = j

\* The blocks of S form a chain that starts at h.
Listed(read, h, S) ==
    \E n \in Nat : \E f \in [1 .. n -> BlockOf] :
        IsList(read, h, f, n) /\ S = {f[i] : i \in 1 .. n}

\* No block is the chain that starts nowhere.
LEMMA NothingListed ==
    ASSUME NEW r
    PROVE  /\ Listed(r, NO_BLOCK, {})
           /\ \A S : Listed(r, NO_BLOCK, S) => S = {}
<1>1. Listed(r, NO_BLOCK, {})
  <2> DEFINE f == [i \in 1 .. 0 |-> 1]
  <2>1. 0 \in Nat /\ f \in [1 .. 0 -> BlockOf] /\ {f[i] : i \in 1 .. 0} = {}
    OBVIOUS
  <2>2. IsList(r, NO_BLOCK, f, 0)
    BY <2>1 DEF IsList
  <2> QED BY <2>1, <2>2 DEF Listed
<1>2. ASSUME NEW S, Listed(r, NO_BLOCK, S) PROVE S = {}
  <2>1. PICK n \in Nat : \E f \in [1 .. n -> BlockOf] :
            IsList(r, NO_BLOCK, f, n) /\ S = {f[i] : i \in 1 .. n}
    BY <1>2 DEF Listed
  <2>2. PICK f \in [1 .. n -> BlockOf] : IsList(r, NO_BLOCK, f, n) /\ S = {f[i] : i \in 1 .. n}
    BY <2>1
  <2>3. n = 0
    BY <2>2 DEF IsList, BlockOf
  <2> QED BY <2>2, <2>3
<1> QED BY <1>1, <1>2

\* Without its first block, a chain is the chain that starts at the next one.
LEMMA HeadIsListed ==
    ASSUME NEW r, NEW h, h # NO_BLOCK, NEW S, Listed(r, h, S)
    PROVE  h \in S /\ h \in BlockOf /\ Listed(r, r[h].next, S \ {h})
<1>1. PICK n \in Nat : \E f \in [1 .. n -> BlockOf] :
          IsList(r, h, f, n) /\ S = {f[i] : i \in 1 .. n}
  BY DEF Listed
<1>1a. PICK f \in [1 .. n -> BlockOf] : IsList(r, h, f, n) /\ S = {f[i] : i \in 1 .. n}
  BY <1>1
<1>2. n # 0 /\ n - 1 \in Nat /\ f[1] = h /\ 1 \in 1 .. n
  BY <1>1a DEF IsList
<1> DEFINE g == [i \in 1 .. n - 1 |-> f[i + 1]]
<1>3. \A i \in 1 .. n - 1 : i + 1 \in 1 .. n /\ i + 1 # 1 /\ g[i] = f[i + 1]
  BY <1>2
<1>4. g \in [1 .. n - 1 -> BlockOf]
  BY <1>1a, <1>3
<1>5. r[h].next = IF n - 1 = 0 THEN NO_BLOCK ELSE g[1]
  <2>1. r[f[1]].next = IF 1 = n THEN NO_BLOCK ELSE f[2]
    BY <1>1a, <1>2 DEF IsList
  <2> QED BY <1>2, <1>3, <2>1
<1>6. \A i \in 1 .. n - 1 : r[g[i]].next = IF i = n - 1 THEN NO_BLOCK ELSE g[i + 1]
  <2> TAKE i \in 1 .. n - 1
  <2>1. r[f[i + 1]].next = IF i + 1 = n THEN NO_BLOCK ELSE f[i + 1 + 1]
    BY <1>1a, <1>3 DEF IsList
  <2>2. i # n - 1 => i + 1 \in 1 .. n - 1
    OBVIOUS
  <2> QED BY <1>3, <2>1, <2>2
<1>7. \A i, j \in 1 .. n - 1 : g[i] = g[j] => i = j
  BY <1>1a, <1>3 DEF IsList
<1>8. S \ {h} = {g[i] : i \in 1 .. n - 1}
  <2>1. \A i \in 1 .. n : i # 1 => i - 1 \in 1 .. n - 1 /\ g[i - 1] = f[i] /\ f[i] # h
    BY <1>1a, <1>2 DEF IsList
  <2>2. \A i \in 1 .. n - 1 : g[i] \in S \ {h}
    BY <1>1a, <1>2, <1>3 DEF IsList
  <2> HIDE DEF g
  <2>3. ASSUME NEW x \in S \ {h} PROVE \E i \in 1 .. n - 1 : x = g[i]
    <3>1. PICK i \in 1 .. n : x = f[i]
      BY <1>1a
    <3> QED BY <1>2, <2>1, <3>1
  <2> QED BY <2>2, <2>3
<1> HIDE DEF g
<1>9. IsList(r, r[h].next, g, n - 1)
  BY <1>2, <1>4, <1>5, <1>6, <1>7 DEF IsList
<1>10. Listed(r, r[h].next, S \ {h})
  BY <1>2, <1>4, <1>8, <1>9 DEF Listed
<1> QED BY <1>1a, <1>2, <1>10

\* A block in front of a chain.
LEMMA PushIsListed ==
    ASSUME NEW r, NEW h, NEW S, Listed(r, h, S),
           NEW q, NEW x \in BlockOf \ S, q[x].next = h, \A y \in S : q[y].next = r[y].next
    PROVE  Listed(q, x, S \cup {x})
<1>1. PICK n \in Nat : \E f \in [1 .. n -> BlockOf] :
          IsList(r, h, f, n) /\ S = {f[i] : i \in 1 .. n}
  BY DEF Listed
<1>1a. PICK f \in [1 .. n -> BlockOf] : IsList(r, h, f, n) /\ S = {f[i] : i \in 1 .. n}
  BY <1>1
<1> DEFINE g == [i \in 1 .. n + 1 |-> IF i = 1 THEN x ELSE f[i - 1]]
<1>2. /\ n + 1 \in Nat /\ n + 1 # 0 /\ 1 \in 1 .. n + 1 /\ g[1] = x
      /\ \A i \in 1 .. n + 1 : i # 1 => i - 1 \in 1 .. n /\ g[i] = f[i - 1]
      /\ \A i \in 1 .. n : i + 1 \in 1 .. n + 1 /\ i + 1 # 1 /\ g[i + 1] = f[i]
  OBVIOUS
<1>3. g \in [1 .. n + 1 -> BlockOf]
  BY <1>1a
<1>4. \A i \in 1 .. n + 1 : q[g[i]].next = IF i = n + 1 THEN NO_BLOCK ELSE g[i + 1]
  <2> TAKE i \in 1 .. n + 1
  <2>1. CASE i = 1
    <3>1. h = IF n = 0 THEN NO_BLOCK ELSE f[1]
      BY <1>1a DEF IsList
    <3> QED BY <1>2, <2>1, <3>1
  <2>2. CASE i # 1
    <3>1. i - 1 \in 1 .. n /\ g[i] = f[i - 1] /\ f[i - 1] \in S
      BY <1>1a, <1>2, <2>2
    <3>2. r[f[i - 1]].next = IF i - 1 = n THEN NO_BLOCK ELSE f[i - 1 + 1]
      BY <1>1a, <3>1 DEF IsList
    <3>3. q[g[i]].next = IF i - 1 = n THEN NO_BLOCK ELSE f[i]
      BY <3>1, <3>2
    <3>4. i # n + 1 => i \in 1 .. n
      BY <2>2
    <3> QED BY <1>2, <3>3, <3>4
  <2> QED BY <2>1, <2>2
<1>5. \A i, j \in 1 .. n + 1 : g[i] = g[j] => i = j
  <2>1. \A i \in 1 .. n : f[i] # x
    BY <1>1a
  <2>2. \A i, j \in 1 .. n : f[i] = f[j] => i = j
    BY <1>1a DEF IsList
  <2> HIDE DEF g
  <2> TAKE i, j \in 1 .. n + 1
  <2>3. CASE i = 1 \/ j = 1
    BY <1>2, <2>1, <2>3
  <2>4. CASE i # 1 /\ j # 1
    <3>1. i - 1 \in 1 .. n /\ j - 1 \in 1 .. n /\ g[i] = f[i - 1] /\ g[j] = f[j - 1]
      BY <1>2, <2>4
    <3>2. g[i] = g[j] => i - 1 = j - 1
      BY <2>2, <3>1
    <3> QED BY <3>2
  <2> QED BY <2>3, <2>4
<1>6. S \cup {x} = {g[i] : i \in 1 .. n + 1}
  <2> HIDE DEF g
  <2>1. \A i \in 1 .. n + 1 : g[i] \in S \cup {x}
    BY <1>1a, <1>2
  <2>2. ASSUME NEW y \in S PROVE \E i \in 1 .. n + 1 : y = g[i]
    <3>1. PICK i \in 1 .. n : y = f[i]
      BY <1>1a
    <3> QED BY <1>2, <3>1
  <2>3. \E i \in 1 .. n + 1 : x = g[i]
    BY <1>2
  <2> QED BY <2>1, <2>2, <2>3
<1> HIDE DEF g
<1>7. IsList(q, x, g, n + 1)
  BY <1>2, <1>3, <1>4, <1>5 DEF IsList
<1> QED BY <1>2, <1>3, <1>6, <1>7 DEF Listed

\* Only the blocks of a chain make it.
LEMMA SameIsListed ==
    ASSUME NEW r, NEW h, NEW S, Listed(r, h, S), NEW q, \A y \in S : q[y].next = r[y].next
    PROVE  Listed(q, h, S)
<1>1. PICK n \in Nat : \E f \in [1 .. n -> BlockOf] :
          IsList(r, h, f, n) /\ S = {f[i] : i \in 1 .. n}
  BY DEF Listed
<1>1a. PICK f \in [1 .. n -> BlockOf] : IsList(r, h, f, n) /\ S = {f[i] : i \in 1 .. n}
  BY <1>1
<1>2. \A i \in 1 .. n : q[f[i]].next = r[f[i]].next
  BY <1>1a
<1>3. IsList(q, h, f, n)
  BY <1>1a, <1>2 DEF IsList
<1> QED BY <1>1a, <1>3 DEF Listed

Smaller(m, n) == IF m < n THEN m ELSE n

\* What Walk is, where a chain is finite.
LEMMA WalkIs ==
    ASSUME NEW r, NEW h, NEW n, NEW f, IsList(r, h, f, n), NEW m \in Nat
    PROVE  Walk(r, h, m) = [i \in 1 .. m |-> IF i <= n THEN f[i] ELSE NO_BLOCK]
<1> DEFINE g == [i \in 1 .. m |-> IF i <= n THEN f[i] ELSE NO_BLOCK]
           w == Walk(r, h, m)
<1>1. n \in Nat
  BY DEF IsList
<1>2. \A i \in 1 .. m : g[i] = IF i = 1 THEN h
                               ELSE IF g[i - 1] = NO_BLOCK THEN NO_BLOCK ELSE r[g[i - 1]].next
  <2> TAKE i \in 1 .. m
  <2>1. CASE i = 1
    <3>1. h = IF n = 0 THEN NO_BLOCK ELSE f[1]
      BY DEF IsList
    <3> QED BY <1>1, <2>1, <3>1
  <2>2. CASE i # 1 /\ i <= n
    <3>1. i - 1 \in 1 .. n /\ i - 1 \in 1 .. m /\ g[i - 1] = f[i - 1] /\ g[i] = f[i]
      BY <1>1, <2>2
    <3>2. f[i - 1] # NO_BLOCK /\ r[f[i - 1]].next = IF i - 1 = n THEN NO_BLOCK ELSE f[i - 1 + 1]
      BY <3>1 DEF IsList, BlockOf
    <3>3. i - 1 # n /\ i - 1 + 1 = i
      BY <1>1, <2>2
    <3> QED BY <2>2, <3>1, <3>2, <3>3
  <2>3. CASE i # 1 /\ i > n
    <3>1. i - 1 \in 1 .. m /\ g[i] = NO_BLOCK
      BY <1>1, <2>3
    <3>2. CASE i - 1 = n
      <4>1. n \in 1 .. n /\ g[i - 1] = f[n]
        BY <1>1, <2>3, <3>1, <3>2
      <4>2. r[f[n]].next = NO_BLOCK
        BY <4>1 DEF IsList
      <4> HIDE DEF g
      <4> QED BY <2>3, <3>1, <4>1, <4>2
    <3>3. CASE i - 1 # n
      <4>1. g[i - 1] = NO_BLOCK
        BY <1>1, <2>3, <3>1, <3>3
      <4> HIDE DEF g
      <4> QED BY <2>3, <3>1, <4>1
    <3> QED BY <3>2, <3>3
  <2> QED BY <1>1, <2>1, <2>2, <2>3
<1>3. \E at : at = [i \in 1 .. m |-> IF i = 1 THEN h
                                     ELSE IF at[i - 1] = NO_BLOCK THEN NO_BLOCK
                                          ELSE r[at[i - 1]].next]
  <2>1. PICK at : at = g
    OBVIOUS
  <2>2. at = [i \in 1 .. m |-> at[i]]
    BY <2>1
  <2> HIDE DEF g
  <2>3. \A i \in 1 .. m : at[i] = IF i = 1 THEN h
                                  ELSE IF at[i - 1] = NO_BLOCK THEN NO_BLOCK
                                       ELSE r[at[i - 1]].next
    BY <1>2, <2>1
  <2>4. at = [i \in 1 .. m |-> IF i = 1 THEN h
                                ELSE IF at[i - 1] = NO_BLOCK THEN NO_BLOCK
                                     ELSE r[at[i - 1]].next]
    BY <2>2, <2>3, ZenonT(60)
  <2> QED BY <2>4, Zenon
<1>4. w = [i \in 1 .. m |-> IF i = 1 THEN h
                            ELSE IF w[i - 1] = NO_BLOCK THEN NO_BLOCK ELSE r[w[i - 1]].next]
  BY <1>3 DEF Walk
<1>5. DOMAIN w = 1 .. m /\ w = [i \in 1 .. m |-> w[i]]
  BY <1>4
<1>6. \A i \in 1 .. m : w[i] = IF i = 1 THEN h
                               ELSE IF w[i - 1] = NO_BLOCK THEN NO_BLOCK ELSE r[w[i - 1]].next
  BY <1>4
<1>7. g = [i \in 1 .. m |-> g[i]]
  OBVIOUS
<1> HIDE DEF w, g
<1> DEFINE Differ == {i \in 1 .. m : w[i] # g[i]}
<1>8. Differ = {}
  <2> SUFFICES ASSUME Differ # {} PROVE FALSE
    OBVIOUS
  <2>1. PICK i \in Differ : \A j \in Differ : i <= j
    <3>1. Differ \in SUBSET Nat
      OBVIOUS
    <3> HIDE DEF Differ
    <3> QED BY <3>1, LeastExists
  <2>2. i \in 1 .. m /\ w[i] # g[i]
    BY <2>1
  <2>3. i # 1
    BY <1>2, <1>6, <2>2
  <2>4. i - 1 \in 1 .. m /\ i - 1 < i
    BY <2>2, <2>3
  <2>5. w[i - 1] = g[i - 1]
    BY <2>1, <2>4
  <2> QED BY <1>2, <1>6, <2>2, <2>3, <2>5
<1>9. w = g
  BY <1>5, <1>7, <1>8
<1> QED BY <1>9 DEF w, g

\* What ChainUpTo takes off a chain.
LEMMA ChainUpToIs ==
    ASSUME NEW r, NEW h, NEW n, NEW f, IsList(r, h, f, n), NEW m \in Nat
    PROVE  ChainUpTo(r, h, m) = [i \in 1 .. Smaller(m, n) |-> f[i]]
<1> DEFINE g == [i \in 1 .. m |-> IF i <= n THEN f[i] ELSE NO_BLOCK]
           k == Smaller(m, n)
<1>1. n \in Nat /\ k \in Nat /\ k <= m /\ k <= n
  BY DEF IsList, Smaller
<1>2. Walk(r, h, m) = g
  BY WalkIs
<1>3. {i \in 1 .. m : g[i] # NO_BLOCK} = 1 .. k
  <2>1. \A i \in 1 .. n : f[i] # NO_BLOCK
    BY DEF IsList, BlockOf
  <2>2. \A i \in 1 .. m : i <= n <=> i \in 1 .. k
    BY <1>1 DEF Smaller
  <2>3. \A i \in 1 .. m : g[i] # NO_BLOCK <=> i <= n
    BY <1>1, <2>1
  <2>4. 1 .. k \subseteq 1 .. m
    BY <1>1
  <2> HIDE DEF g, k
  <2> QED BY <2>2, <2>3, <2>4
<1>4. Cardinality(1 .. k) = k
  <2> HIDE DEF k
  <2>1. Cardinality(1 .. k) = IF 1 > k THEN 0 ELSE k - 1 + 1
    BY <1>1, FS_Interval
  <2> QED BY <1>1, <2>1
<1>5. \A i \in 1 .. k : g[i] = f[i]
  BY <1>1
<1>6. ChainUpTo(r, h, m) = [i \in 1 .. k |-> g[i]]
  <2> HIDE DEF g, k
  <2> QED BY <1>2, <1>3, <1>4 DEF ChainUpTo
<1> HIDE DEF g
<1> QED BY <1>5, <1>6

\* The whole of a chain, which cannot be longer than there are blocks.
LEMMA ChainIs ==
    ASSUME NEW r, NEW h, NEW n, NEW f, IsList(r, h, f, n)
    PROVE  Chain(r, h) = f /\ n <= LastBlock
<1>1. n \in Nat /\ f \in [1 .. n -> BlockOf] /\ LastBlock \in Nat
  BY BlockAssumption DEF IsList
<1>2. n <= LastBlock
  <2>1. BlockOf = 1 .. LastBlock
    BY <1>1 DEF BlockOf, BlockId, NO_BLOCK
  <2>2. f \in Injection(1 .. n, 1 .. LastBlock)
    BY <1>1, <2>1 DEF IsList, Injection, IsInjective
  <2>3. IsFiniteSet(1 .. LastBlock) /\ Cardinality(1 .. LastBlock) = LastBlock
    <3>1. /\ IsFiniteSet(1 .. LastBlock)
          /\ Cardinality(1 .. LastBlock) = IF 1 > LastBlock THEN 0 ELSE LastBlock - 1 + 1
      BY <1>1, FS_Interval
    <3> QED BY <1>1, <3>1
  <2>4. Cardinality(1 .. n) <= Cardinality(1 .. LastBlock)
    BY <2>2, <2>3, FS_Injection
  <2>5. Cardinality(1 .. n) = n
    <3>1. Cardinality(1 .. n) = IF 1 > n THEN 0 ELSE n - 1 + 1
      BY <1>1, FS_Interval
    <3> QED BY <1>1, <3>1
  <2> QED BY <2>3, <2>4, <2>5
<1>3. Chain(r, h) = [i \in 1 .. Smaller(LastBlock + 1, n) |-> f[i]]
  <2>1. \A m \in Nat : ChainUpTo(r, h, m) = [i \in 1 .. Smaller(m, n) |-> f[i]]
    BY ChainUpToIs
  <2>2. LastBlock + 1 \in Nat
    BY <1>1
  <2>3. Chain(r, h) = ChainUpTo(r, h, LastBlock + 1)
    BY DEF Chain
  <2> QED BY <2>1, <2>2, <2>3
<1>4. Smaller(LastBlock + 1, n) = n
  BY <1>1, <1>2 DEF Smaller
<1> QED BY <1>1, <1>2, <1>3, <1>4

\* Chain finds the blocks of a chain, each once.
LEMMA ChainOfListed ==
    ASSUME NEW r, NEW h, NEW S, Listed(r, h, S)
    PROVE  /\ ToSet(Chain(r, h)) = S /\ S \subseteq BlockOf
           /\ \A i, j \in DOMAIN Chain(r, h) : Chain(r, h)[i] = Chain(r, h)[j] => i = j
<1>1. PICK n \in Nat : \E f \in [1 .. n -> BlockOf] :
          IsList(r, h, f, n) /\ S = {f[i] : i \in 1 .. n}
  BY DEF Listed
<1>2. PICK f \in [1 .. n -> BlockOf] : IsList(r, h, f, n) /\ S = {f[i] : i \in 1 .. n}
  BY <1>1
<1>3. Chain(r, h) = f /\ DOMAIN f = 1 .. n
  BY <1>2, ChainIs
<1>4. ToSet(f) = S /\ S \subseteq BlockOf
  BY <1>2, <1>3 DEF ToSet
<1>5. \A i, j \in 1 .. n : f[i] = f[j] => i = j
  BY <1>2 DEF IsList
<1> QED BY <1>3, <1>4, <1>5

\* What ChainUpTo takes off a chain leaves a chain.
LEMMA PopIsListed ==
    ASSUME NEW r, NEW h, NEW S, Listed(r, h, S), NEW m \in Nat
    PROVE  LET p == ChainUpTo(r, h, m)
           IN  /\ p \in Seq(S) /\ Len(p) <= m
               /\ \A i, j \in 1 .. Len(p) : p[i] = p[j] => i = j
               /\ Len(p) < m => S = ToSet(p)
               /\ p # <<>> => p[1] = h
               /\ Listed(r, IF p = <<>> THEN h ELSE r[Last(p)].next, S \ ToSet(p))
<1> DEFINE p == ChainUpTo(r, h, m)
<1>1. PICK n \in Nat : \E f \in [1 .. n -> BlockOf] :
          IsList(r, h, f, n) /\ S = {f[i] : i \in 1 .. n}
  BY DEF Listed
<1>2. PICK f \in [1 .. n -> BlockOf] : IsList(r, h, f, n) /\ S = {f[i] : i \in 1 .. n}
  BY <1>1
<1> DEFINE k == Smaller(m, n)
<1>3. k \in Nat /\ k <= m /\ k <= n /\ (k < m => k = n)
  BY DEF Smaller
<1> HIDE DEF k
<1>4. p = [i \in 1 .. k |-> f[i]]
  BY <1>2, ChainUpToIs DEF k
<1> HIDE DEF p
<1>5. \A i \in 1 .. n : f[i] \in S
  BY <1>2
<1>6. 1 .. k \subseteq 1 .. n
  BY <1>3
<1>7. /\ p \in [1 .. k -> S] /\ p \in Seq(S) /\ Len(p) = k /\ DOMAIN p = 1 .. k
      /\ \A i \in 1 .. k : p[i] = f[i]
  <2>1. p \in [1 .. k -> S] /\ DOMAIN p = 1 .. k /\ \A i \in 1 .. k : p[i] = f[i]
    BY <1>4, <1>5, <1>6
  <2>2. p \in Seq(S)
    BY <1>3, <2>1
  <2> QED BY <1>3, <2>1, <2>2
<1>8. \A i, j \in 1 .. n : f[i] = f[j] => i = j
  BY <1>2 DEF IsList
<1>9. \A i, j \in 1 .. Len(p) : p[i] = p[j] => i = j
  BY <1>6, <1>7, <1>8
<1>10. ToSet(p) = {f[i] : i \in 1 .. k}
  BY <1>7 DEF ToSet
<1>11. Len(p) < m => S = ToSet(p)
  BY <1>2, <1>3, <1>7, <1>10
<1>20. p # <<>> => p[1] = h
  <2> SUFFICES ASSUME p # <<>> PROVE p[1] = h
    OBVIOUS
  <2>1. k # 0
    BY <1>7
  <2>2. 1 \in 1 .. k /\ n # 0
    BY <1>3, <2>1
  <2> QED BY <1>2, <1>7, <2>2 DEF IsList
<1> DEFINE q == IF p = <<>> THEN h ELSE r[Last(p)].next
           g == [i \in 1 .. n - k |-> f[i + k]]
<1>12. n - k \in Nat /\ \A i \in 1 .. n - k : i + k \in 1 .. n /\ i + k > k /\ g[i] = f[i + k]
  BY <1>3
<1>13. g \in [1 .. n - k -> BlockOf]
  BY <1>2, <1>12
<1>14. q = IF n - k = 0 THEN NO_BLOCK ELSE g[1]
  <2>1. CASE k = 0
    <3>1. p = <<>>
      BY <1>7, <2>1
    <3>2. h = IF n = 0 THEN NO_BLOCK ELSE f[1]
      BY <1>2 DEF IsList
    <3> QED BY <2>1, <3>1, <3>2
  <2>2. CASE k # 0
    <3>1. k \in 1 .. n /\ k \in 1 .. k
      BY <1>3, <2>2
    <3>2. p # <<>> /\ Last(p) = f[k]
      BY <1>7, <2>2, <3>1 DEF Last
    <3>3. r[f[k]].next = IF k = n THEN NO_BLOCK ELSE f[k + 1]
      BY <1>2, <3>1 DEF IsList
    <3>4. k # n => 1 \in 1 .. n - k /\ g[1] = f[1 + k] /\ 1 + k = k + 1
      BY <1>3
    <3> HIDE DEF g
    <3> QED BY <1>3, <3>2, <3>3, <3>4
  <2> QED BY <2>1, <2>2
<1> HIDE DEF q
<1>15. \A i \in 1 .. n - k : r[g[i]].next = IF i = n - k THEN NO_BLOCK ELSE g[i + 1]
  <2> TAKE i \in 1 .. n - k
  <2>1. r[f[i + k]].next = IF i + k = n THEN NO_BLOCK ELSE f[i + k + 1]
    BY <1>2, <1>12 DEF IsList
  <2>2. i # n - k => i + 1 \in 1 .. n - k /\ i + 1 + k = i + k + 1
    BY <1>3
  <2>3. i + k = n <=> i = n - k
    BY <1>3
  <2>4. i # n - k => g[i + 1] = f[i + k + 1]
    BY <1>12, <2>2
  <2>5. g[i] = f[i + k]
    OBVIOUS
  <2> HIDE DEF g
  <2> QED BY <2>1, <2>3, <2>4, <2>5
<1>16. \A i, j \in 1 .. n - k : g[i] = g[j] => i = j
  <2> TAKE i, j \in 1 .. n - k
  <2>1. g[i] = g[j] => i + k = j + k
    BY <1>8, <1>12
  <2> HIDE DEF g
  <2> QED BY <1>3, <2>1
<1>17. S \ ToSet(p) = {g[i] : i \in 1 .. n - k}
  <2>1. \A i \in 1 .. n - k : g[i] \in S /\ \A j \in 1 .. k : g[i] # f[j]
    <3> TAKE i \in 1 .. n - k
    <3>1. \A j \in 1 .. k : j \in 1 .. n /\ j # i + k
      BY <1>3
    <3> QED BY <1>5, <1>8, <1>12, <3>1
  <2>2. \A i \in 1 .. n : i \in 1 .. k \/ (i - k \in 1 .. n - k /\ g[i - k] = f[i])
    BY <1>3
  <2> HIDE DEF g
  <2>3. \A i \in 1 .. n - k : g[i] \in S \ ToSet(p)
    BY <1>10, <2>1
  <2>4. ASSUME NEW x \in S \ ToSet(p) PROVE \E i \in 1 .. n - k : x = g[i]
    <3>1. PICK i \in 1 .. n : x = f[i]
      BY <1>2
    <3>2. i \notin 1 .. k
      BY <1>10, <3>1
    <3> QED BY <2>2, <3>1, <3>2
  <2> QED BY <2>3, <2>4
<1> HIDE DEF g
<1>18. IsList(r, q, g, n - k)
  BY <1>12, <1>13, <1>14, <1>15, <1>16 DEF IsList
<1>19. Listed(r, q, S \ ToSet(p))
  BY <1>12, <1>13, <1>17, <1>18 DEF Listed
<1> QED BY <1>3, <1>7, <1>9, <1>11, <1>19, <1>20 DEF p, q

\* Chains of one block and of two.
LEMMA SingleIsList ==
    ASSUME NEW r, NEW b \in BlockOf, r[b].next = NO_BLOCK
    PROVE  IsList(r, b, [i \in 1 .. 1 |-> b], 1)
BY DEF IsList

LEMMA PairIsList ==
    ASSUME NEW r, NEW b \in BlockOf, NEW c \in BlockOf, r[b].next = c, r[c].next = NO_BLOCK
    PROVE  IsList(r, b, [i \in 1 .. 2 |-> IF i = 1 THEN b ELSE c], 2)
<1> DEFINE f == [i \in 1 .. 2 |-> IF i = 1 THEN b ELSE c]
<1>1. b # c
  BY DEF BlockOf
<1>2. 1 \in 1 .. 2 /\ 2 \in 1 .. 2 /\ \A i \in 1 .. 2 : i = 1 \/ i = 2
  OBVIOUS
<1>3. f[1] = b /\ f[2] = c /\ f \in [1 .. 2 -> BlockOf]
  BY <1>2
<1> HIDE DEF f
<1>4. \A i \in 1 .. 2 : r[f[i]].next = IF i = 2 THEN NO_BLOCK ELSE f[i + 1]
  <2> TAKE i \in 1 .. 2
  <2>1. CASE i = 1
    BY <1>3, <2>1
  <2>2. CASE i = 2
    BY <1>3, <2>2
  <2> QED BY <1>2, <2>1, <2>2
<1>5. IsList(r, b, f, 2)
  BY <1>1, <1>2, <1>3, <1>4 DEF IsList
<1> QED BY <1>5 DEF f

\* What Chain finds of them.
LEMMA ChainIsSingle ==
    ASSUME NEW r, NEW b \in BlockOf, r[b].next = NO_BLOCK
    PROVE  Chain(r, b) = [i \in 1 .. 1 |-> b]
<1> DEFINE f == [i \in 1 .. 1 |-> b]
<1>1. IsList(r, b, f, 1)
  BY SingleIsList
<1> HIDE DEF f
<1>2. Chain(r, b) = f
  BY <1>1, ChainIs
<1> QED BY <1>2 DEF f

LEMMA ChainIsPair ==
    ASSUME NEW r, NEW b \in BlockOf, NEW c \in BlockOf, r[b].next = c, r[c].next = NO_BLOCK
    PROVE  Chain(r, b) = [i \in 1 .. 2 |-> IF i = 1 THEN b ELSE c]
<1> DEFINE f == [i \in 1 .. 2 |-> IF i = 1 THEN b ELSE c]
<1>1. IsList(r, b, f, 2)
  BY PairIsList
<1> HIDE DEF f
<1>2. Chain(r, b) = f
  BY <1>1, ChainIs
<1> QED BY <1>2 DEF f

-----------------------------------------------------------------------------
(* Blobs. *)

\* The blocks of the blob that starts at b.
Uses(r, b) == {b, r[b].next} \ {NO_BLOCK}

\* A chain of one block or two.
Freeable(r, b) ==
    r[b].next = NO_BLOCK \/ (r[b].next \in BlockOf /\ r[r[b].next].next = NO_BLOCK)

\* The blob at b is d, in the blocks it takes.
Holds(r, b, d) ==
    /\ d \in Data
    /\ d \notin Big => r[b] = FileBlock(NO_BLOCK, d, 1)
    /\ d \in Big => \E c \in BlockOf :
                        r[b] = FileBlock(c, d, 1) /\ r[c] = FileBlock(NO_BLOCK, d, 2)

\* Uses is what Chain finds.
LEMMA UsesIsChain ==
    ASSUME NEW r, NEW b \in BlockOf, Freeable(r, b)
    PROVE  /\ ToSet(Chain(r, b)) = Uses(r, b)
           /\ \A i, j \in DOMAIN Chain(r, b) : Chain(r, b)[i] = Chain(r, b)[j] => i = j
<1>1. CASE r[b].next = NO_BLOCK
  <2>1. Chain(r, b) = [i \in 1 .. 1 |-> b]
    BY <1>1, ChainIsSingle
  <2>2. Uses(r, b) = {b}
    BY <1>1 DEF Uses, BlockOf
  <2> QED BY <2>1, <2>2 DEF ToSet
<1>2. CASE r[b].next # NO_BLOCK
  <2> DEFINE c == r[b].next
             f == [i \in 1 .. 2 |-> IF i = 1 THEN b ELSE c]
  <2>1. c \in BlockOf /\ r[c].next = NO_BLOCK /\ b # c
    BY <1>2 DEF Freeable
  <2>2. Chain(r, b) = f
    BY <2>1, ChainIsPair
  <2>3. Uses(r, b) = {b, c}
    BY <1>2 DEF Uses, BlockOf
  <2>4. DOMAIN f = 1 .. 2 /\ f[1] = b /\ f[2] = c /\ 1 \in 1 .. 2 /\ 2 \in 1 .. 2
        /\ \A i \in 1 .. 2 : i = 1 \/ i = 2
    OBVIOUS
  <2> HIDE DEF c, f
  <2>5. ToSet(f) = {b, c}
    BY <2>4 DEF ToSet
  <2> QED BY <2>1, <2>2, <2>3, <2>4, <2>5
<1> QED BY <1>1, <1>2

\* A blob is a chain of one block or two, and reads as its data.
LEMMA HoldsIsFreeable ==
    ASSUME NEW r, NEW b \in BlockOf, NEW d, Holds(r, b, d)
    PROVE  Freeable(r, b)
<1>1. CASE d \notin Big
  BY <1>1 DEF Holds, Freeable, FileBlock
<1>2. CASE d \in Big
  <2>1. PICK c \in BlockOf : r[b] = FileBlock(c, d, 1) /\ r[c] = FileBlock(NO_BLOCK, d, 2)
    BY <1>2 DEF Holds
  <2> QED BY <2>1 DEF Freeable, FileBlock
<1> QED BY <1>1, <1>2

LEMMA HoldsIsRead ==
    ASSUME NEW r, NEW b \in BlockOf, NEW d, Holds(r, b, d)
    PROVE  ReadBlob(r, b) = d
<1>1. CASE d \notin Big
  <2> DEFINE f == [i \in 1 .. 1 |-> b]
  <2>1. r[b].next = NO_BLOCK /\ r[b].data = d /\ r[b].part = 1 /\ d \in Data
    BY <1>1 DEF Holds, FileBlock
  <2>2. Chain(r, b) = f
    BY <2>1, ChainIsSingle
  <2>3. Len(f) = 1 /\ \A i \in 1 .. 1 : f[i] = b /\ i = 1
    OBVIOUS
  <2> HIDE DEF f
  <2> QED BY <1>1, <2>1, <2>2, <2>3 DEF ReadBlob, Needed
<1>2. CASE d \in Big
  <2>1. PICK c \in BlockOf : r[b] = FileBlock(c, d, 1) /\ r[c] = FileBlock(NO_BLOCK, d, 2)
    BY <1>2 DEF Holds
  <2> DEFINE f == [i \in 1 .. 2 |-> IF i = 1 THEN b ELSE c]
  <2>2. /\ r[b].next = c /\ r[b].data = d /\ r[b].part = 1 /\ d \in Data
        /\ r[c].next = NO_BLOCK /\ r[c].data = d /\ r[c].part = 2
    BY <2>1 DEF Holds, FileBlock
  <2>3. Chain(r, b) = f
    BY <2>2, ChainIsPair
  <2>4. Len(f) = 2 /\ f[1] = b /\ f[2] = c /\ \A i \in 1 .. 2 : i = 1 \/ i = 2
    OBVIOUS
  <2> HIDE DEF f
  <2> QED BY <1>2, <2>2, <2>3, <2>4 DEF ReadBlob, Needed
<1> QED BY <1>1, <1>2

-----------------------------------------------------------------------------
(* The blobs B, the blobs to free that start at P, and the free list S. *)

\* Where blobs start, those to free included.
Heads(B, P) == (DOMAIN B \ {0}) \cup P

\* All blocks that are used or free.
Met(r, H, S) == S \cup UNION {Uses(r, x) : x \in H}

\* The blobs that start at H share no block with each other or with S.
Apart(r, H, S) ==
    /\ H \subseteq BlockOf
    /\ \A x \in H : Freeable(r, x) /\ Uses(r, x) \cap S = {}
    /\ \A x, y \in H : x # y => Uses(r, x) \cap Uses(r, y) = {}

\* Read by r: the blobs hold their data, nothing shares a block, and S is the
\* chain that starts at h.
Sound(r, h, B, P, S) ==
    /\ \A b \in DOMAIN B \ {0} : Holds(r, b, B[b])
    /\ DOMAIN B \cap P = {}
    /\ Apart(r, Heads(B, P), S)
    /\ Listed(r, h, S)

\* A blob uses its first block.
LEMMA UsesItself ==
    ASSUME NEW r, NEW x \in BlockOf
    PROVE  x \in Uses(r, x)
BY DEF Uses, BlockOf

\* All of these are blocks other than the header.
LEMMA SoundFacts ==
    ASSUME NEW r, NEW h, NEW B, NEW P, NEW S, Sound(r, h, B, P, S)
    PROVE  /\ S \subseteq BlockOf /\ Heads(B, P) \subseteq BlockOf
           /\ Met(r, Heads(B, P), S) \subseteq BlockOf
           /\ \A x \in Heads(B, P) : x \in Met(r, Heads(B, P), S)
<1>1. S \subseteq BlockOf
  BY ChainOfListed DEF Sound
<1>2. Heads(B, P) \subseteq BlockOf /\ \A x \in Heads(B, P) : Freeable(r, x)
  BY DEF Sound, Apart
<1>3. \A x \in Heads(B, P) : Uses(r, x) \subseteq BlockOf /\ x \in Uses(r, x)
  BY <1>2 DEF Uses, Freeable, BlockOf
<1> QED BY <1>1, <1>2, <1>3 DEF Met

\* Blocks leave the free list.
LEMMA Shrunk ==
    ASSUME NEW r, NEW h, NEW B, NEW P, NEW S, Sound(r, h, B, P, S),
           NEW Q, Q \subseteq S, NEW k, Listed(r, k, Q)
    PROVE  Sound(r, k, B, P, Q)
<1>1. Apart(r, Heads(B, P), Q)
  BY DEF Sound, Apart
<1> QED BY <1>1 DEF Sound

\* Only the blocks met count.
LEMMA Framed ==
    ASSUME NEW r, NEW h, NEW B, NEW P, NEW S, Sound(r, h, B, P, S),
           NEW q, \A y \in Met(r, Heads(B, P), S) : q[y] = r[y]
    PROVE  /\ Sound(q, h, B, P, S)
           /\ \A x \in Heads(B, P) : Uses(q, x) = Uses(r, x)
           /\ Met(q, Heads(B, P), S) = Met(r, Heads(B, P), S)
<1> DEFINE H == Heads(B, P)
<1>1. \A x \in H : \A y \in Uses(r, x) : q[y] = r[y]
  BY DEF Met
<1>2. \A y \in S : q[y] = r[y]
  BY DEF Met
<1>3. H \subseteq BlockOf /\ \A x \in H : Freeable(r, x)
  BY DEF Sound, Apart
<1>4. \A x \in H : x \in Uses(r, x)
  BY <1>3, UsesItself
<1>5. \A x \in H : Uses(q, x) = Uses(r, x)
  BY <1>1, <1>4 DEF Uses
<1>6. \A x \in H : Freeable(q, x)
  <2> SUFFICES ASSUME NEW x \in H PROVE Freeable(q, x)
    OBVIOUS
  <2>1. q[x] = r[x] /\ Freeable(r, x)
    BY <1>1, <1>3, <1>4
  <2>2. CASE r[x].next = NO_BLOCK
    BY <2>1, <2>2 DEF Freeable
  <2>3. CASE r[x].next # NO_BLOCK
    <3>1. r[x].next \in Uses(r, x)
      BY <2>3 DEF Uses
    <3>2. q[r[x].next] = r[r[x].next]
      BY <1>1, <3>1
    <3> QED BY <2>1, <3>2 DEF Freeable
  <2> QED BY <2>2, <2>3
<1>7. Apart(q, H, S)
  BY <1>5, <1>6 DEF Sound, Apart
<1>8. Listed(q, h, S)
  BY <1>2, SameIsListed DEF Sound
<1>9. ASSUME NEW b \in DOMAIN B \ {0} PROVE Holds(q, b, B[b])
  <2>1. b \in H
    BY DEF Heads
  <2>2. q[b] = r[b] /\ Holds(r, b, B[b]) /\ b \in BlockOf
    BY <1>1, <1>3, <1>4, <2>1 DEF Sound
  <2>3. CASE B[b] \notin Big
    BY <2>2, <2>3 DEF Holds
  <2>4. CASE B[b] \in Big
    <3>1. PICK c \in BlockOf : r[b] = FileBlock(c, B[b], 1) /\ r[c] = FileBlock(NO_BLOCK, B[b], 2)
      BY <2>2, <2>4 DEF Holds
    <3>2. c \in Uses(r, b)
      BY <3>1 DEF Uses, FileBlock, BlockOf
    <3>3. q[c] = r[c]
      BY <1>1, <2>1, <3>2
    <3> QED BY <2>2, <2>4, <3>1, <3>3 DEF Holds
  <2> QED BY <2>3, <2>4
<1>10. Met(q, H, S) = Met(r, H, S)
  BY <1>5 DEF Met
<1> QED BY <1>5, <1>7, <1>8, <1>9, <1>10 DEF Sound

\* A blob leaves.
LEMMA Dropped ==
    ASSUME NEW r, NEW h, NEW B, NEW P, NEW S, Sound(r, h, B, P, S), NEW b \in DOMAIN B \ {0}
    PROVE  /\ Sound(r, h, Without(B, b), P, S)
           /\ Heads(Without(B, b), P) = Heads(B, P) \ {b} /\ b \in Heads(B, P)
           /\ Uses(r, b) \cap Met(r, Heads(Without(B, b), P), S) = {}
           /\ Met(r, Heads(B, P), S) = Met(r, Heads(Without(B, b), P), S) \cup Uses(r, b)
<1> DEFINE C == Without(B, b)
           H == Heads(B, P)
<1>1. DOMAIN C = DOMAIN B \ {b} /\ \A x \in DOMAIN C : C[x] = B[x]
  BY DEF Without
<1> HIDE DEF C
<1>2. b \in H /\ b \notin P
  BY DEF Heads, Sound
<1>3. Heads(C, P) = H \ {b}
  BY <1>1, <1>2 DEF Heads
<1> HIDE DEF H
<1>4. Apart(r, H, S)
  BY DEF Sound, H
<1>5. Apart(r, H \ {b}, S)
  BY <1>4 DEF Apart
<1>6. Uses(r, b) \cap Met(r, H \ {b}, S) = {}
  BY <1>2, <1>4 DEF Apart, Met
<1>7. Met(r, H, S) = Met(r, H \ {b}, S) \cup Uses(r, b)
  BY <1>2 DEF Met
<1>8. \A x \in DOMAIN C \ {0} : Holds(r, x, C[x])
  BY <1>1 DEF Sound
<1>9. Sound(r, h, C, P, S)
  BY <1>1, <1>3, <1>5, <1>8 DEF Sound
<1> QED BY <1>2, <1>3, <1>6, <1>7, <1>9 DEF C, H

\* A head joins.
LEMMA ApartWith ==
    ASSUME NEW r, NEW H, NEW S, Apart(r, H, S), NEW x \in BlockOf, Freeable(r, x),
           Uses(r, x) \cap Met(r, H, S) = {}
    PROVE  Apart(r, H \cup {x}, S) /\ Met(r, H \cup {x}, S) = Met(r, H, S) \cup Uses(r, x)
<1>1. \A y \in H : Uses(r, x) \cap Uses(r, y) = {}
  BY DEF Met
<1>2. Uses(r, x) \cap S = {}
  BY DEF Met
<1>3. Apart(r, H \cup {x}, S)
  BY <1>1, <1>2 DEF Apart
<1> QED BY <1>3 DEF Met

\* A blob to free joins.
LEMMA Pended ==
    ASSUME NEW r, NEW h, NEW B, NEW P, NEW S, Sound(r, h, B, P, S),
           NEW x \in BlockOf, Freeable(r, x), Uses(r, x) \cap Met(r, Heads(B, P), S) = {}
    PROVE  /\ Sound(r, h, B, P \cup {x}, S)
           /\ Heads(B, P \cup {x}) = Heads(B, P) \cup {x}
           /\ Met(r, Heads(B, P \cup {x}), S) = Met(r, Heads(B, P), S) \cup Uses(r, x)
<1>1. Heads(B, P \cup {x}) = Heads(B, P) \cup {x}
  BY DEF Heads
<1>2. x \notin DOMAIN B
  <2>1. x \in Uses(r, x) /\ x # 0
    BY UsesItself DEF BlockOf, NO_BLOCK
  <2>2. x \notin Heads(B, P)
    BY <2>1, SoundFacts
  <2> QED BY <2>1, <2>2 DEF Heads
<1>3. /\ Apart(r, Heads(B, P) \cup {x}, S)
      /\ Met(r, Heads(B, P) \cup {x}, S) = Met(r, Heads(B, P), S) \cup Uses(r, x)
  BY ApartWith DEF Sound
<1> QED BY <1>1, <1>2, <1>3 DEF Sound

\* A blob joins.
LEMMA Added ==
    ASSUME NEW r, NEW h, NEW B, NEW P, NEW S, Sound(r, h, B, P, S),
           NEW x \in BlockOf, NEW d, Holds(r, x, d),
           Uses(r, x) \cap Met(r, Heads(B, P), S) = {}
    PROVE  /\ Sound(r, h, Onto(At(x, d), B), P, S)
           /\ Heads(Onto(At(x, d), B), P) = Heads(B, P) \cup {x}
           /\ Met(r, Heads(Onto(At(x, d), B), P), S) = Met(r, Heads(B, P), S) \cup Uses(r, x)
<1> DEFINE C == Onto(At(x, d), B)
<1>1. x \in Uses(r, x) /\ x # 0 /\ Freeable(r, x)
  BY UsesItself, HoldsIsFreeable DEF BlockOf, NO_BLOCK
<1>2. x \notin Heads(B, P)
  BY <1>1, SoundFacts
<1>3. DOMAIN C = DOMAIN B \cup {x} /\ C[x] = d /\ \A y \in DOMAIN B \ {x} : C[y] = B[y]
  BY DEF Onto, At
<1> HIDE DEF C
<1>4. Heads(C, P) = Heads(B, P) \cup {x}
  BY <1>1, <1>3 DEF Heads
<1>5. /\ Apart(r, Heads(B, P) \cup {x}, S)
      /\ Met(r, Heads(B, P) \cup {x}, S) = Met(r, Heads(B, P), S) \cup Uses(r, x)
  BY <1>1, ApartWith DEF Sound
<1>6. DOMAIN C \cap P = {}
  BY <1>2, <1>3 DEF Sound, Heads
<1>7. \A y \in DOMAIN C \ {0} : Holds(r, y, C[y])
  BY <1>2, <1>3 DEF Sound, Heads
<1>8. Sound(r, h, C, P, S)
  BY <1>4, <1>5, <1>6, <1>7 DEF Sound
<1> QED BY <1>4, <1>5, <1>8 DEF C

\* q is r with p, the first block of a blob to free, on the free list instead;
\* the rest of that blob is to be freed.
OneFreed(r, q, B, P, S, p) ==
    LET next == {r[p].next} \ {NO_BLOCK}
        Q == (P \ {p}) \cup next
    IN  /\ Sound(q, p, B, Q, S \cup {p})
        /\ Met(q, Heads(B, Q), S \cup {p}) = Met(r, Heads(B, P), S)
        /\ \A x \in Heads(B, P) \ {p} : Uses(q, x) = Uses(r, x)
        /\ r[p].next \notin Heads(B, P)
        /\ \A x \in next : Uses(q, x) = {x} /\ q[x].next = NO_BLOCK
        /\ next \subseteq BlockOf /\ p \notin next

\* Putting one block on the free list frees it and nothing else.
LEMMA FreedOne ==
    ASSUME NEW r, NEW h, NEW B, NEW P, NEW S, Sound(r, h, B, P, S), NEW p \in P,
           NEW q, q[p].next = h, \A y \in BlockOf \ {p} : q[y] = r[y]
    PROVE  OneFreed(r, q, B, P, S, p)
<1> DEFINE c == r[p].next
           next == {c} \ {NO_BLOCK}
           H == Heads(B, P)
           G == H \ {p}
<1>1. Apart(r, H, S) /\ Listed(r, h, S) /\ DOMAIN B \cap P = {} /\ p \in H
  BY DEF Sound, Heads
<1>2. H \subseteq BlockOf /\ S \subseteq BlockOf /\ p \in BlockOf /\ Freeable(r, p)
  BY <1>1, SoundFacts DEF Apart
<1>3. next \subseteq BlockOf /\ p \notin next /\ \A x \in next : r[x].next = NO_BLOCK
  BY <1>2 DEF Freeable, BlockOf
<1>4. Uses(r, p) = {p} \cup next
  BY <1>2 DEF Uses, BlockOf
<1>5. ASSUME NEW x \in G PROVE p \notin Uses(r, x) /\ next \cap Uses(r, x) = {}
  BY <1>1, <1>4 DEF Apart
<1>6. p \notin S /\ next \cap S = {}
  BY <1>1, <1>4 DEF Apart
<1>7. c \notin H
  <2>1. c = NO_BLOCK => c \notin H
    BY <1>2 DEF BlockOf
  <2>2. c \in next => c # p
    BY <1>3
  <2>3. \A x \in G : x \in Uses(r, x)
    BY <1>2, UsesItself
  <2> QED BY <1>5, <2>1, <2>2, <2>3
<1>8. Listed(q, p, S \cup {p})
  <2>1. \A y \in S : q[y].next = r[y].next
    BY <1>2, <1>6
  <2>2. p \in BlockOf \ S
    BY <1>2, <1>6
  <2> QED BY <1>1, <2>1, <2>2, PushIsListed
<1>10. Sound(r, h, B, P \ {p}, S)
  <2>1. Heads(B, P \ {p}) = G
    BY <1>1 DEF Heads
  <2>2. Apart(r, G, S)
    BY <1>1 DEF Apart
  <2>3. DOMAIN B \cap (P \ {p}) = {}
    BY <1>1
  <2> QED BY <1>1, <2>1, <2>2, <2>3 DEF Sound
<1>11. Heads(B, P \ {p}) = G
  BY <1>1 DEF Heads
<1> HIDE DEF G, H, c, next
<1>12. p \notin Met(r, G, S) /\ next \cap Met(r, G, S) = {}
  BY <1>5, <1>6 DEF Met
<1>13. Met(r, G, S) \subseteq BlockOf
  BY <1>10, <1>11, SoundFacts
<1>14. \A y \in Met(r, G, S) : q[y] = r[y]
  BY <1>12, <1>13
<1>15. /\ Sound(q, h, B, P \ {p}, S)
       /\ \A x \in G : Uses(q, x) = Uses(r, x)
       /\ Met(q, G, S) = Met(r, G, S)
  BY <1>10, <1>11, <1>14, Framed
<1>16. /\ Sound(q, p, B, P \ {p}, S \cup {p})
       /\ Met(q, G, S \cup {p}) = Met(r, G, S) \cup {p}
  <2>1. \A x \in G : p \notin Uses(q, x)
    BY <1>5, <1>15
  <2>2. Apart(q, G, S \cup {p})
    BY <1>11, <1>15, <2>1 DEF Sound, Apart
  <2>3. Sound(q, p, B, P \ {p}, S \cup {p})
    BY <1>8, <1>11, <1>15, <2>2 DEF Sound
  <2>4. Met(q, G, S \cup {p}) = Met(q, G, S) \cup {p}
    BY DEF Met
  <2> QED BY <1>15, <2>3, <2>4
<1>17. \A x \in next : Uses(q, x) = {x} /\ q[x].next = NO_BLOCK
  <2>1. \A x \in next : q[x] = r[x] /\ x # NO_BLOCK
    BY <1>3 DEF BlockOf
  <2> QED BY <1>3, <2>1 DEF Uses
<1>18. H = G \cup {p}
  BY <1>1 DEF G
<1>19. Met(r, H, S) = Met(r, G, S) \cup {p} \cup next
  <2>1. Met(r, H, S) = Met(r, G, S) \cup Uses(r, p)
    BY <1>18 DEF Met
  <2> QED BY <1>4, <2>1
<1> DEFINE Q == (P \ {p}) \cup next
<1>20. Sound(q, p, B, Q, S \cup {p}) /\ Met(q, Heads(B, Q), S \cup {p}) = Met(r, H, S)
  <2>1. CASE next = {}
    <3>1. Q = P \ {p}
      BY <2>1
    <3> QED BY <1>11, <1>16, <1>19, <2>1, <3>1
  <2>2. CASE next # {}
    <3>1. next = {c} /\ c \in next
      BY <2>2 DEF next
    <3>2. c \in BlockOf /\ Freeable(q, c) /\ Uses(q, c) = {c}
      BY <1>3, <1>17, <3>1 DEF Freeable
    <3>3. Uses(q, c) \cap Met(q, Heads(B, P \ {p}), S \cup {p}) = {}
      BY <1>3, <1>11, <1>12, <1>16, <3>1, <3>2
    <3> DEFINE R == P \ {p}
               F == S \cup {p}
    <3> HIDE DEF R, F
    <3>5. Sound(q, p, B, R, F) /\ Uses(q, c) \cap Met(q, Heads(B, R), F) = {}
      BY <1>16, <3>3 DEF R, F
    <3>6. /\ Sound(q, p, B, R \cup {c}, F)
          /\ Met(q, Heads(B, R \cup {c}), F) = Met(q, Heads(B, R), F) \cup Uses(q, c)
      BY <3>2, <3>5, Pended
    <3>4. /\ Sound(q, p, B, (P \ {p}) \cup {c}, S \cup {p})
          /\ Met(q, Heads(B, (P \ {p}) \cup {c}), S \cup {p})
                 = Met(q, Heads(B, P \ {p}), S \cup {p}) \cup Uses(q, c)
      BY <3>6 DEF R, F
    <3> QED BY <1>11, <1>16, <1>19, <3>1, <3>2, <3>4
  <2> QED BY <2>1, <2>2
<1> QED BY <1>3, <1>7, <1>15, <1>17, <1>20 DEF OneFreed, c, next, H, G

\* What Linked makes of the blocks a blob takes.
LEMMA LinkedHolds ==
    ASSUME NEW d \in Data, NEW w \in Seq(BlockOf), Len(w) = Needed(d),
           \A i, j \in 1 .. Len(w) : w[i] = w[j] => i = j,
           NEW q, \A x \in ToSet(w) : q[x] = Linked(w, d)[x]
    PROVE  w[1] \in BlockOf /\ Holds(q, w[1], d) /\ Uses(q, w[1]) = ToSet(w)
<1>1. ASSUME NEW i \in 1 .. Len(w)
      PROVE  /\ w[i] \in BlockOf /\ w[i] \in ToSet(w)
             /\ q[w[i]] = FileBlock(IF i = Len(w) THEN NO_BLOCK ELSE w[i + 1], d, i)
  <2>1. w[i] \in BlockOf /\ w[i] \in ToSet(w)
    BY DEF ToSet
  <2>2. \E j \in 1 .. Len(w) : w[j] = w[i]
    OBVIOUS
  <2>3. (CHOOSE j \in 1 .. Len(w) : w[j] = w[i]) = i
    BY <2>2
  <2>4. Linked(w, d)[w[i]] = LET j == CHOOSE j \in 1 .. Len(w) : w[j] = w[i]
                             IN  FileBlock(IF j = Len(w) THEN NO_BLOCK ELSE w[j + 1], d, j)
    BY <2>1 DEF Linked
  <2> QED BY <2>1, <2>3, <2>4
<1>2. CASE d \notin Big
  <2>1. Len(w) = 1 /\ 1 \in 1 .. Len(w)
    BY <1>2 DEF Needed
  <2>2. q[w[1]] = FileBlock(NO_BLOCK, d, 1) /\ w[1] \in BlockOf
    BY <1>1, <2>1
  <2>3. ToSet(w) = {w[1]}
    BY <2>1 DEF ToSet
  <2>4. Uses(q, w[1]) = {w[1]}
    BY <2>2 DEF Uses, FileBlock, BlockOf
  <2> QED BY <1>2, <2>2, <2>3, <2>4 DEF Holds
<1>3. CASE d \in Big
  <2>1. Len(w) = 2 /\ 1 \in 1 .. Len(w) /\ 2 \in 1 .. Len(w)
    BY <1>3 DEF Needed
  <2>2. /\ q[w[1]] = FileBlock(w[2], d, 1) /\ q[w[2]] = FileBlock(NO_BLOCK, d, 2)
        /\ w[1] \in BlockOf /\ w[2] \in BlockOf
    <3>1. q[w[1]] = FileBlock(IF 1 = Len(w) THEN NO_BLOCK ELSE w[1 + 1], d, 1)
      BY <1>1, <2>1
    <3>2. q[w[2]] = FileBlock(IF 2 = Len(w) THEN NO_BLOCK ELSE w[2 + 1], d, 2)
      BY <1>1, <2>1
    <3>3. w[1] \in BlockOf /\ w[2] \in BlockOf
      BY <1>1, <2>1
    <3> QED BY <2>1, <3>1, <3>2, <3>3
  <2>3. ToSet(w) = {w[1], w[2]}
    <3>1. \A i \in 1 .. 2 : i = 1 \/ i = 2
      OBVIOUS
    <3> QED BY <2>1, <3>1 DEF ToSet
  <2>4. Uses(q, w[1]) = {w[1], w[2]}
    BY <2>2 DEF Uses, FileBlock, BlockOf
  <2> QED BY <1>3, <2>2, <2>3, <2>4 DEF Holds
<1> QED BY <1>2, <1>3

\* q is r with one more blob, d, in the blocks of w.
OneMore(r, q, k, B, P, Q, w, d) ==
    LET C == Onto(At(w[1], d), B)
    IN  /\ Sound(q, k, C, P, Q)
        /\ Heads(C, P) = Heads(B, P) \cup {w[1]}
        /\ Met(q, Heads(C, P), Q) = Met(r, Heads(B, P), Q) \cup ToSet(w)
        /\ \A x \in Heads(B, P) : Uses(q, x) = Uses(r, x)
        /\ Uses(q, w[1]) = ToSet(w) /\ w[1] \in BlockOf

\* A blob is written to blocks that were free or new.
LEMMA Stored ==
    ASSUME NEW r, NEW h, NEW B, NEW P, NEW S, Sound(r, h, B, P, S),
           NEW Q, Q \subseteq S, NEW k, Listed(r, k, Q),
           NEW d \in Data, NEW w \in Seq(BlockOf), Len(w) = Needed(d),
           \A i, j \in 1 .. Len(w) : w[i] = w[j] => i = j,
           ToSet(w) \cap Met(r, Heads(B, P), Q) = {},
           NEW q, \A x \in ToSet(w) : q[x] = Linked(w, d)[x],
           \A x \in BlockOf \ ToSet(w) : q[x] = r[x]
    PROVE  OneMore(r, q, k, B, P, Q, w, d)
<1>1. Sound(r, k, B, P, Q)
  BY Shrunk
<1>2. w[1] \in BlockOf /\ Holds(q, w[1], d) /\ Uses(q, w[1]) = ToSet(w)
  BY LinkedHolds
<1>3. \A x \in Met(r, Heads(B, P), Q) : q[x] = r[x]
  BY <1>1, SoundFacts
<1>4. /\ Sound(q, k, B, P, Q)
      /\ \A x \in Heads(B, P) : Uses(q, x) = Uses(r, x)
      /\ Met(q, Heads(B, P), Q) = Met(r, Heads(B, P), Q)
  BY <1>1, <1>3, Framed
<1>5. Uses(q, w[1]) \cap Met(q, Heads(B, P), Q) = {}
  BY <1>2, <1>4
<1> DEFINE x == w[1]
<1>6. x \in BlockOf /\ Holds(q, x, d) /\ Uses(q, x) \cap Met(q, Heads(B, P), Q) = {}
  BY <1>2, <1>5
<1> HIDE DEF x
<1>7. /\ Sound(q, k, Onto(At(x, d), B), P, Q)
      /\ Heads(Onto(At(x, d), B), P) = Heads(B, P) \cup {x}
      /\ Met(q, Heads(Onto(At(x, d), B), P), Q) = Met(q, Heads(B, P), Q) \cup Uses(q, x)
  BY <1>4, <1>6, Added
<1> QED BY <1>2, <1>4, <1>7 DEF x, OneMore

-----------------------------------------------------------------------------
(* What memory and file hold. *)

\* The blocks with a staged write, those in a batch, all that there are, the
\* blobs to free, and the blocks that are used or free when S is the free list.
Staged == DOMAIN stagedWrites
Batch == DOMAIN stagedBatch
Known == DOMAIN blockFile \cup Staged \cup Batch
Pending == ToSet(pendingFrees)
Taken(S) == Met(ReadRawBlock, Heads(blobs, Pending), S)

\* The form of the variables. The file has no holes.
Shape ==
    /\ \E k \in -1 .. LastBlock : DOMAIN blockFile = 0 .. k
    /\ blockFile = [b \in DOMAIN blockFile |-> blockFile[b]]
    /\ Staged \subseteq BlockId /\ Batch \subseteq BlockId
    /\ pendingFrees \in Seq(BlockOf)
    /\ header = FileBlock(header.next, header.data, 0)
    /\ 0 \in DOMAIN blobs /\ 0 \in DOMAIN saved

\* S is the free list as it is read, staged writes included. A block is staged
\* once, and only if it is in use; a free block is in no blob that a crash would
\* bring back; a blob to free is not in a batch, whose extents are written last.
Kept(S) ==
    /\ Sound(ReadRawBlock, header.next, blobs, Pending, S)
    /\ ReadRawBlock[0] = header
    /\ \E m \in 0 .. LastBlock : Known = 0 .. m
    /\ Taken(S) \subseteq Known /\ Known \ {0} \subseteq Taken(S) \cup abandoned
    /\ (Staged \cup Batch) \ {0} \subseteq Taken(S) /\ S \cap (Staged \cup Batch) = {}
    /\ Staged \cap Batch = {} /\ 0 \notin Batch /\ Pending \cap Batch = {}
    /\ \A x \in Heads(blobs, Pending) : x \notin Batch => Uses(ReadRawBlock, x) \cap Batch = {}
    /\ \A x \in DOMAIN saved \ {0} : Uses(OnFile, x) \cap S = {}
    /\ \A i, j \in 1 .. Len(pendingFrees) : pendingFrees[i] = pendingFrees[j] => i = j

\* The same of the file alone, whose free list is S: what a crash leaves.
FileKept(S) ==
    /\ Sound(OnFile, OnFile[0].next, saved, {}, S)
    /\ Met(OnFile, Heads(saved, {}), S) \subseteq DOMAIN blockFile
    /\ DOMAIN blockFile \ {0} \subseteq Met(OnFile, Heads(saved, {}), S) \cup abandoned
    /\ OnFile[0] = FileBlock(OnFile[0].next, saved[0], 0)

\* The inductive invariant. A commit that failed after freeing blobs leaves the
\* free list to the next opening; any other leaves all as it should be.
BlockInv ==
    /\ Shape
    /\ \E S : FileKept(S)
    /\ \A b \in DOMAIN blobs \ {0} : b \in BlockOf /\ Holds(ReadRawBlock, b, blobs[b])
    /\ header.data = blobs[0]
    /\ ~halfFreed => \E S : Kept(S)

\* Blocks are numbered without gaps, and the next one is new.
LEMMA BaseIs ==
    ASSUME Shape, NEW m \in 0 .. LastBlock, Known = 0 .. m
    PROVE  Base = m + 1
<1>1. LastBlock \in Nat
  BY BlockAssumption
<1>2. PICK k \in -1 .. LastBlock : DOMAIN blockFile = 0 .. k
  BY DEF Shape
<1>3. Cardinality(DOMAIN blockFile) = k + 1
  <2>1. Cardinality(0 .. k) = IF 0 > k THEN 0 ELSE k - 0 + 1
    BY <1>1, FS_Interval
  <2> QED BY <1>1, <1>2, <2>1
<1> DEFINE X == {0, Cardinality(DOMAIN blockFile) - 1} \cup Staged \cup Batch
<1>4. Cardinality(DOMAIN blockFile) - 1 = k
  BY <1>1, <1>3
<1>5. m \in X
  <2>1. m \in Known
    BY <1>1
  <2>2. CASE m \in 0 .. k
    <3>1. 0 .. k \subseteq 0 .. m
      BY <1>2 DEF Known
    <3>2. k \in 0 .. k
      BY <1>1, <2>2
    <3>3. k = m
      BY <1>1, <2>2, <3>1, <3>2
    <3> QED BY <1>4, <3>3
  <2> QED BY <1>2, <2>1, <2>2 DEF Known
<1>6. \A x \in X : x <= m /\ x \in Int
  <2>1. \A x \in Staged \cup Batch : x \in 0 .. m
    BY DEF Known
  <2>2. k <= m
    <3>1. 0 .. k \subseteq 0 .. m
      BY <1>2 DEF Known
    <3>2. k >= 0 => k \in 0 .. k
      BY <1>1
    <3> QED BY <1>1, <3>1, <3>2
  <2> QED BY <1>1, <1>4, <2>1, <2>2
<1>7. Base = 1 + SetMax(X)
  BY DEF Base, Staged, Batch
<1> HIDE DEF X
<1>8. SetMax(X) = m
  <2>1. \E x \in X : \A y \in X : y <= x
    BY <1>5, <1>6
  <2>2. SetMax(X) \in X /\ \A y \in X : y <= SetMax(X)
    BY <2>1 DEF SetMax
  <2>3. m <= SetMax(X) /\ SetMax(X) <= m /\ SetMax(X) \in Int /\ m \in Int
    BY <1>5, <1>6, <2>2
  <2> QED BY <2>3
<1> QED BY <1>1, <1>7, <1>8

\* What allocateBlocks gives: blocks of the free list and blocks past the end,
\* which nobody has.
LEMMA AllocatedIs ==
    ASSUME Shape, NEW S, Kept(S), NEW n \in Nat
    PROVE  LET w == Allocated(n).blocks
               W == ToSet(w)
           IN  /\ w \in Seq(Nat) /\ Len(w) = n
               /\ WithinBound(w) =>
                      /\ w \in Seq(BlockOf)
                      /\ \A i, j \in 1 .. n : w[i] = w[j] => i = j
                      /\ \A x \in W : x \in S \/ x \notin Known
                      /\ \E o \in 0 .. LastBlock : Known \cup W = 0 .. o
                      /\ Listed(ReadRawBlock, Allocated(n).head, S \ W)
<1>1. PICK m \in 0 .. LastBlock : Known = 0 .. m
  BY DEF Kept
<1>2. LastBlock \in Nat /\ m \in Nat /\ Base = m + 1
  BY <1>1, BaseIs, BlockAssumption
<1>3. S \subseteq Known /\ S \subseteq BlockOf /\ Listed(ReadRawBlock, header.next, S)
  BY ChainOfListed DEF Kept, Taken, Met, Sound
<1> DEFINE p == ChainUpTo(ReadRawBlock, header.next, n)
           f == Fresh(n - Len(p))
           w == Allocated(n).blocks
           W == ToSet(w)
<1>4. /\ p \in Seq(S) /\ Len(p) <= n
      /\ \A i, j \in 1 .. Len(p) : p[i] = p[j] => i = j
      /\ Len(p) < n => S = ToSet(p)
      /\ Listed(ReadRawBlock, IF p = <<>> THEN header.next ELSE ReadRawBlock[Last(p)].next,
                S \ ToSet(p))
  BY <1>3, PopIsListed
<1>5. w = p \o f
      /\ Allocated(n).head = IF p = <<>> THEN header.next ELSE ReadRawBlock[Last(p)].next
  BY DEF Allocated
<1> HIDE DEF p
<1>6. Len(p) \in Nat /\ n - Len(p) \in Nat
  BY <1>4
<1>7. /\ f \in Seq(Nat) /\ Len(f) = n - Len(p)
      /\ \A i \in 1 .. n - Len(p) : f[i] = m + i
  <2>1. f = [i \in 1 .. n - Len(p) |-> m + 1 + i - 1]
    BY <1>2 DEF Fresh
  <2>2. \A i \in 1 .. n - Len(p) : m + 1 + i - 1 \in Nat /\ m + 1 + i - 1 = m + i
    BY <1>2
  <2>3. f \in [1 .. n - Len(p) -> Nat]
    BY <2>1, <2>2
  <2> HIDE DEF f
  <2>4. f \in Seq(Nat)
    BY <1>6, <2>3
  <2>5. Len(f) = n - Len(p)
    BY <1>6, <2>3
  <2> QED BY <2>1, <2>2, <2>4, <2>5
<1> HIDE DEF f, w
<1>8. p \in Seq(Nat)
  <2>0. \A x \in S : x \in Nat
    BY <1>2, <1>3 DEF BlockOf, BlockId
  <2>1. \A i \in 1 .. Len(p) : p[i] \in Nat
    BY <1>4, <2>0
  <2>2. p = [i \in 1 .. Len(p) |-> p[i]]
    BY <1>4
  <2> QED BY <1>6, <2>1, <2>2
<1>9. /\ w \in Seq(Nat) /\ Len(w) = n
      /\ \A i \in 1 .. Len(p) : w[i] = p[i]
      /\ \A i \in Len(p) + 1 .. n : w[i] = f[i - Len(p)]
  <2>1. /\ w \in Seq(Nat) /\ Len(w) = Len(p) + Len(f)
        /\ \A i \in 1 .. Len(p) + Len(f) : w[i] = IF i <= Len(p) THEN p[i] ELSE f[i - Len(p)]
    BY <1>5, <1>7, <1>8, ConcatProperties
  <2>2. Len(p) + Len(f) = n
    BY <1>6, <1>7
  <2>3. \A i \in 1 .. Len(p) : i \in 1 .. n /\ i <= Len(p)
    BY <1>4, <1>6
  <2>4. \A i \in Len(p) + 1 .. n : i \in 1 .. n /\ ~(i <= Len(p))
    BY <1>6
  <2> QED BY <2>1, <2>2, <2>3, <2>4
<1>17. SUFFICES ASSUME WithinBound(w)
                PROVE  /\ w \in Seq(BlockOf)
                       /\ \A i, j \in 1 .. n : w[i] = w[j] => i = j
                       /\ \A x \in W : x \in S \/ x \notin Known
                       /\ \E o \in 0 .. LastBlock : Known \cup W = 0 .. o
                       /\ Listed(ReadRawBlock, Allocated(n).head, S \ W)
  BY <1>9 DEF w
<1>10. ASSUME NEW i \in 1 .. n
       PROVE  /\ w[i] \in BlockOf
              /\ \/ i <= Len(p) /\ w[i] = p[i] /\ w[i] \in S /\ w[i] \in 0 .. m
                 \/ i > Len(p) /\ w[i] = m + (i - Len(p)) /\ w[i] > m
  <2>1. CASE i <= Len(p)
    <3>1. i \in 1 .. Len(p) /\ w[i] = p[i] /\ p[i] \in S
      BY <1>4, <1>6, <1>9, <2>1
    <3> QED BY <1>1, <1>3, <2>1, <3>1
  <2>2. CASE i > Len(p)
    <3>1. i \in Len(p) + 1 .. n /\ i - Len(p) \in 1 .. n - Len(p)
      BY <1>6, <2>2
    <3>2. w[i] = m + (i - Len(p))
      BY <1>7, <1>9, <3>1
    <3>3. w[i] <= LastBlock
      BY <1>9, <1>17 DEF WithinBound
    <3>4. w[i] > m /\ w[i] \in Nat
      BY <1>2, <1>6, <2>2, <3>2
    <3> QED BY <1>2, <2>2, <3>2, <3>3, <3>4 DEF BlockOf, BlockId, NO_BLOCK
  <2> QED BY <1>6, <2>1, <2>2
<1>11. w \in Seq(BlockOf)
  <2>1. w = [i \in 1 .. n |-> w[i]] /\ \A i \in 1 .. n : w[i] \in BlockOf
    BY <1>9, <1>10
  <2> QED BY <2>1
<1>12. \A i, j \in 1 .. n : w[i] = w[j] => i = j
  <2> TAKE i, j \in 1 .. n
  <2>1. CASE i <= Len(p) /\ j <= Len(p)
    <3>1. i \in 1 .. Len(p) /\ j \in 1 .. Len(p)
      BY <1>6, <2>1
    <3> QED BY <1>4, <1>9, <3>1
  <2>2. CASE i > Len(p) /\ j > Len(p)
    BY <1>2, <1>6, <1>10, <2>2
  <2>3. CASE i <= Len(p) /\ j > Len(p)
    BY <1>2, <1>6, <1>10, <2>3
  <2>4. CASE i > Len(p) /\ j <= Len(p)
    BY <1>2, <1>6, <1>10, <2>4
  <2> QED BY <1>6, <2>1, <2>2, <2>3, <2>4
<1>13. W = {w[i] : i \in 1 .. n}
  <2>1. DOMAIN w = 1 .. n
    BY <1>9
  <2> QED BY <2>1 DEF ToSet
<1> HIDE DEF W
<1>14. \A x \in W : x \in S \/ x \notin Known
  BY <1>1, <1>2, <1>10, <1>13
<1>15. S \ W = S \ ToSet(p)
  <2>1. ToSet(p) \subseteq W
    <3>1. \A i \in 1 .. Len(p) : i \in 1 .. n /\ w[i] = p[i]
      BY <1>4, <1>6, <1>9
    <3>2. ToSet(p) = {p[i] : i \in 1 .. Len(p)}
      BY <1>4 DEF ToSet
    <3> QED BY <1>13, <3>1, <3>2
  <2>2. \A x \in W \cap S : x \in ToSet(p)
    <3> SUFFICES ASSUME NEW i \in 1 .. n, w[i] \in S PROVE w[i] \in ToSet(p)
      BY <1>13
    <3>1. w[i] \in 0 .. m
      BY <1>1, <1>3
    <3>2. i <= Len(p) /\ w[i] = p[i]
      BY <1>2, <1>10, <3>1
    <3>3. i \in 1 .. Len(p)
      BY <1>6, <3>2
    <3> QED BY <1>4, <3>2, <3>3 DEF ToSet
  <2> QED BY <2>1, <2>2
<1>16. \E o \in 0 .. LastBlock : Known \cup W = 0 .. o
  <2> DEFINE o == m + (n - Len(p))
  <2>1. o \in 0 .. LastBlock
    <3>1. CASE n = Len(p)
      BY <1>2, <3>1
    <3>2. CASE n # Len(p)
      <4>1. n \in 1 .. n /\ n > Len(p)
        <5> DEFINE k == Len(p)
        <5>1. k \in Nat /\ n - k \in Nat /\ n # k /\ n \in Nat
          BY <1>6, <3>2
        <5> HIDE DEF k
        <5>2. n > k /\ n \in 1 .. n
          BY <5>1
        <5> QED BY <5>2 DEF k
      <4>2. w[n] = o /\ w[n] \in BlockOf
        BY <1>6, <1>10, <4>1
      <4> HIDE DEF o
      <4> QED BY <4>2 DEF BlockOf, BlockId
    <3> QED BY <3>1, <3>2
  <2>2. \A x \in W : x \in 0 .. o
    <3> SUFFICES ASSUME NEW i \in 1 .. n PROVE w[i] \in 0 .. o
      BY <1>13
    <3> QED BY <1>2, <1>6, <1>10
  <2>3. \A x \in 0 .. o : x \in 0 .. m \/ x \in W
    <3> SUFFICES ASSUME NEW x \in 0 .. o, x \notin 0 .. m PROVE x \in W
      OBVIOUS
    <3>1. x - m + Len(p) \in 1 .. n /\ x - m + Len(p) > Len(p) /\ m + (x - m + Len(p) - Len(p)) = x
      BY <1>2, <1>6
    <3>2. w[x - m + Len(p)] = x
      BY <1>2, <1>6, <1>10, <3>1
    <3> QED BY <1>13, <3>1, <3>2
  <2>4. \A x \in 0 .. m : x \in 0 .. o
    BY <1>2, <1>6
  <2> HIDE DEF o
  <2>5. Known \cup W = 0 .. o
    BY <1>1, <2>2, <2>3, <2>4
  <2> QED BY <2>1, <2>5
<1> QED BY <1>4, <1>5, <1>11, <1>12, <1>14, <1>15, <1>16

\* What Kept says of the blobs and the free list.
LEMMA KeptHolds ==
    ASSUME NEW S, Kept(S)
    PROVE  /\ \A b \in DOMAIN blobs \ {0} : b \in BlockOf /\ Holds(ReadRawBlock, b, blobs[b])
           /\ Taken(S) \subseteq BlockOf /\ Heads(blobs, Pending) \subseteq BlockOf
           /\ S \subseteq BlockOf /\ S \subseteq Taken(S)
<1>1. Sound(ReadRawBlock, header.next, blobs, Pending, S)
  BY DEF Kept
<1>2. Heads(blobs, Pending) \subseteq BlockOf /\ S \subseteq BlockOf
      /\ Met(ReadRawBlock, Heads(blobs, Pending), S) \subseteq BlockOf
  BY <1>1, SoundFacts
<1> QED BY <1>1, <1>2 DEF Sound, Heads, Taken, Met

\* A call that changes memory alone leaves the file as it is.
LEMMA MemoryStep ==
    ASSUME BlockInv, UNCHANGED <<blockFile, saved, abandoned>>,
           Shape', (header.data = blobs[0])', NEW Q, Kept(Q)'
    PROVE  BlockInv'
<1>1. PICK S : FileKept(S)
  BY DEF BlockInv
<1>2. OnFile' = OnFile
  BY DEF OnFile
<1>3. FileKept(S)'
  BY <1>1, <1>2 DEF FileKept
<1>4. (\A b \in DOMAIN blobs \ {0} : b \in BlockOf /\ Holds(ReadRawBlock, b, blobs[b]))'
  <2>1. Sound(ReadRawBlock', header'.next, blobs', Pending', Q)
    BY DEF Kept
  <2>2. Heads(blobs', Pending') \subseteq BlockOf
    BY <2>1, SoundFacts
  <2> QED BY <2>1, <2>2 DEF Sound, Heads
<1> QED BY <1>3, <1>4 DEF BlockInv

\* A sequence with one more element, which may be new to it.
LEMMA Appended ==
    ASSUME NEW T, NEW s \in Seq(T), NEW x \in T
    PROVE  /\ Append(s, x) \in Seq(T)
           /\ ToSet(Append(s, x)) = ToSet(s) \cup {x}
           /\ (\A i, j \in 1 .. Len(s) : s[i] = s[j] => i = j) /\ x \notin ToSet(s) =>
                  \A i, j \in 1 .. Len(Append(s, x)) : Append(s, x)[i] = Append(s, x)[j] => i = j
<1> DEFINE t == Append(s, x)
<1>1. /\ t \in Seq(T) /\ Len(s) \in Nat /\ Len(t) = Len(s) + 1 /\ t[Len(s) + 1] = x
      /\ \A i \in 1 .. Len(s) : t[i] = s[i]
  OBVIOUS
<1> HIDE DEF t
<1>2. \A i \in 1 .. Len(t) : i \in 1 .. Len(s) \/ i = Len(s) + 1
  BY <1>1
<1>3. 1 .. Len(s) \subseteq 1 .. Len(t) /\ Len(s) + 1 \in 1 .. Len(t)
  BY <1>1
<1>4. ToSet(s) = {s[i] : i \in 1 .. Len(s)} /\ ToSet(t) = {t[i] : i \in 1 .. Len(t)}
  <2>1. DOMAIN s = 1 .. Len(s) /\ DOMAIN t = 1 .. Len(t)
    BY <1>1
  <2> QED BY <2>1 DEF ToSet
<1>5. ToSet(t) = ToSet(s) \cup {x}
  BY <1>1, <1>2, <1>3, <1>4
<1>6. ASSUME \A i, j \in 1 .. Len(s) : s[i] = s[j] => i = j, x \notin ToSet(s)
      PROVE  \A i, j \in 1 .. Len(t) : t[i] = t[j] => i = j
  <2>1. \A i \in 1 .. Len(s) : t[i] # x
    BY <1>1, <1>4, <1>6
  <2> QED BY <1>1, <1>2, <1>6, <2>1
<1> QED BY <1>1, <1>5, <1>6 DEF t

\* freeBlob moves a blob to those to free.
LEMMA FreeBlobStep ==
    ASSUME BlockInv, NEW b \in DOMAIN blobs, FreeBlob(b), ~BatchMayChange, ~FreesAgain
    PROVE  BlockInv'
<1>1. PICK S : Kept(S)
  BY DEF BlockInv, FreeBlob, Usable
<1>2. /\ b # 0 /\ b \notin Batch
      /\ pendingFrees' = Append(pendingFrees, b) /\ blobs' = Without(blobs, b)
      /\ UNCHANGED <<blockFile, stagedWrites, stagedBatch, header, saved, abandoned>>
  BY DEF FreeBlob, MayChange, Batch
<1>3. /\ ReadRawBlock' = ReadRawBlock /\ OnFile' = OnFile
      /\ Staged' = Staged /\ Batch' = Batch /\ Known' = Known
  BY <1>2 DEF ReadRawBlock, OnFile, Staged, Batch, Known
<1> DEFINE r == ReadRawBlock
           C == Without(blobs, b)
           H == Heads(blobs, Pending)
<1>4. Shape /\ Sound(r, header.next, blobs, Pending, S)
  BY <1>1 DEF BlockInv, Kept
<1>5. /\ Sound(r, header.next, C, Pending, S)
      /\ Heads(C, Pending) = H \ {b} /\ b \in H
      /\ Uses(r, b) \cap Met(r, Heads(C, Pending), S) = {}
      /\ Met(r, H, S) = Met(r, Heads(C, Pending), S) \cup Uses(r, b)
  BY <1>2, <1>4, Dropped
<1>6. b \in BlockOf /\ Freeable(r, b) /\ b \notin Pending
  BY <1>2, <1>4, <1>5 DEF Sound, Apart
<1>7. /\ Sound(r, header.next, C, Pending \cup {b}, S)
      /\ Heads(C, Pending \cup {b}) = Heads(C, Pending) \cup {b}
      /\ Met(r, Heads(C, Pending \cup {b}), S) = Met(r, Heads(C, Pending), S) \cup Uses(r, b)
  BY <1>5, <1>6, Pended
<1>8. pendingFrees' \in Seq(BlockOf) /\ Pending' = Pending \cup {b}
      /\ \A i, j \in 1 .. Len(pendingFrees') : pendingFrees'[i] = pendingFrees'[j] => i = j
  <2>1. pendingFrees \in Seq(BlockOf) /\ b \notin ToSet(pendingFrees)
    BY <1>4, <1>6 DEF Shape, Pending
  <2>2. \A i, j \in 1 .. Len(pendingFrees) : pendingFrees[i] = pendingFrees[j] => i = j
    BY <1>1 DEF Kept
  <2> QED BY <1>2, <1>6, <2>1, <2>2, Appended DEF Pending
<1>9. Heads(blobs', Pending') = H /\ Taken(S)' = Taken(S)
  <2>1. Heads(C, Pending \cup {b}) = H
    BY <1>5, <1>7
  <2>2. Heads(blobs', Pending') = Heads(C, Pending \cup {b})
    BY <1>2, <1>8
  <2>3. Met(r, H, S) = Met(r, Heads(C, Pending \cup {b}), S)
    BY <1>5, <1>7
  <2> HIDE DEF C, H
  <2>4. Met(r, Heads(blobs', Pending'), S) = Met(r, H, S)
    BY <2>1, <2>2
  <2> QED BY <1>3, <2>1, <2>2, <2>4 DEF Taken, H
<1>10. 0 \in DOMAIN blobs' /\ blobs'[0] = blobs[0]
  BY <1>2, <1>4 DEF Shape, Without
<1>11. Shape'
  BY <1>2, <1>3, <1>4, <1>8, <1>10 DEF Shape
<1>12. Kept(S)'
  <2>1. Sound(ReadRawBlock, header.next, blobs, Pending, S)'
    BY <1>2, <1>3, <1>7, <1>8
  <2>2. (Pending \cap Batch = {})'
    BY <1>1, <1>2, <1>3, <1>8 DEF Kept
  <2>3. (\A x \in Heads(blobs, Pending) : x \notin Batch => Uses(ReadRawBlock, x) \cap Batch = {})'
    BY <1>1, <1>3, <1>9 DEF Kept
  <2>4. (\A x \in DOMAIN saved \ {0} : Uses(OnFile, x) \cap S = {})'
    BY <1>1, <1>2, <1>3 DEF Kept
  <2>5. /\ (ReadRawBlock[0] = header)'
        /\ (\E m \in 0 .. LastBlock : Known = 0 .. m)'
        /\ (Taken(S) \subseteq Known /\ Known \ {0} \subseteq Taken(S) \cup abandoned)'
        /\ ((Staged \cup Batch) \ {0} \subseteq Taken(S) /\ S \cap (Staged \cup Batch) = {})'
        /\ (Staged \cap Batch = {} /\ 0 \notin Batch)'
    BY <1>1, <1>2, <1>3, <1>9 DEF Kept
  <2> QED BY <1>8, <2>1, <2>2, <2>3, <2>4, <2>5 DEF Kept
<1> QED BY <1>2, <1>10, <1>11, <1>12, MemoryStep DEF BlockInv

\* What is staged is what is read.
LEMMA ReadAfter ==
    ASSUME NEW w, stagedWrites' = Onto(w, stagedWrites), UNCHANGED <<stagedBatch, blockFile>>
    PROVE  /\ \A x \in BlockId : ReadRawBlock'[x] = IF x \in DOMAIN w THEN w[x]
                                                    ELSE ReadRawBlock[x]
           /\ Staged' = Staged \cup DOMAIN w /\ Batch' = Batch
           /\ Known' = Known \cup DOMAIN w
           /\ OnFile' = OnFile
<1>1. DOMAIN stagedWrites' = DOMAIN stagedWrites \cup DOMAIN w
      /\ \A x \in DOMAIN stagedWrites' :
            stagedWrites'[x] = IF x \in DOMAIN w THEN w[x] ELSE stagedWrites[x]
  BY DEF Onto
<1>2. \A x \in BlockId : ReadRawBlock'[x] = IF x \in DOMAIN w THEN w[x] ELSE ReadRawBlock[x]
  BY <1>1 DEF ReadRawBlock
<1> QED BY <1>1, <1>2 DEF Staged, Batch, Known, OnFile

\* writeHeader changes block 0 alone.
LEMMA WriteHeaderStep ==
    ASSUME BlockInv, NEW d, WriteHeader(d), ~FreesAgain
    PROVE  BlockInv'
<1>1. PICK S : Kept(S)
  BY DEF BlockInv, WriteHeader, Usable
<1>2. /\ header' = [header EXCEPT !.data = d] /\ stagedWrites' = Onto(At(0, header'), stagedWrites)
      /\ blobs' = [blobs EXCEPT ![0] = d]
      /\ UNCHANGED <<blockFile, stagedBatch, pendingFrees, saved, abandoned>>
  BY DEF WriteHeader
<1>3. DOMAIN At(0, header') = {0} /\ At(0, header')[0] = header'
  BY DEF At
<1>4. /\ \A x \in BlockId : ReadRawBlock'[x] = IF x = 0 THEN header' ELSE ReadRawBlock[x]
      /\ Staged' = Staged \cup {0} /\ Batch' = Batch /\ Known' = Known \cup {0} /\ OnFile' = OnFile
  <2> DEFINE w == At(0, header')
  <2>1. DOMAIN w = {0} /\ w[0] = header' /\ stagedWrites' = Onto(w, stagedWrites)
        /\ UNCHANGED <<stagedBatch, blockFile>>
    BY <1>2, <1>3
  <2> HIDE DEF w
  <2>2. /\ \A x \in BlockId : ReadRawBlock'[x] = IF x \in DOMAIN w THEN w[x] ELSE ReadRawBlock[x]
        /\ Staged' = Staged \cup DOMAIN w /\ Batch' = Batch
        /\ Known' = Known \cup DOMAIN w /\ OnFile' = OnFile
    BY <2>1, ReadAfter
  <2> QED BY <2>1, <2>2
<1>5. 0 \in BlockId
  BY BlockAssumption DEF BlockId
<1>6. Shape
  BY DEF BlockInv
<1>7. header' = FileBlock(header.next, d, 0)
  <2>1. header = FileBlock(header.next, header.data, 0)
    BY <1>6 DEF Shape
  <2> QED BY <1>2, <2>1 DEF FileBlock
<1>8. header'.next = header.next /\ header'.data = d /\ header' = FileBlock(header'.next, header'.data, 0)
  BY <1>7 DEF FileBlock
<1>9. DOMAIN blobs' = DOMAIN blobs /\ blobs'[0] = d
      /\ \A x \in DOMAIN blobs \ {0} : blobs'[x] = blobs[x]
  BY <1>2, <1>6 DEF Shape
<1>10. Pending' = Pending /\ Heads(blobs', Pending) = Heads(blobs, Pending)
  BY <1>2, <1>9 DEF Pending, Heads
<1>11. Known' = Known
  <2>1. PICK m \in 0 .. LastBlock : Known = 0 .. m
    BY <1>1 DEF Kept
  <2>2. 0 \in Known
    BY <2>1, BlockAssumption
  <2> QED BY <1>4, <2>2
<1>12. Taken(S) \subseteq BlockOf /\ S \subseteq BlockOf
  BY <1>1, KeptHolds
<1>13. /\ Sound(ReadRawBlock', header.next, blobs, Pending, S)
       /\ \A x \in Heads(blobs, Pending) : Uses(ReadRawBlock', x) = Uses(ReadRawBlock, x)
       /\ Met(ReadRawBlock', Heads(blobs, Pending), S) = Taken(S)
  <2>1. \A y \in Met(ReadRawBlock, Heads(blobs, Pending), S) : ReadRawBlock'[y] = ReadRawBlock[y]
    BY <1>4, <1>12 DEF Taken, BlockOf, NO_BLOCK
  <2>2. Sound(ReadRawBlock, header.next, blobs, Pending, S)
    BY <1>1 DEF Kept
  <2> QED BY <2>1, <2>2, Framed DEF Taken
<1>14. Sound(ReadRawBlock', header'.next, blobs', Pending', S)
  BY <1>8, <1>9, <1>10, <1>13 DEF Sound
<1>15. Taken(S)' = Taken(S)
  BY <1>10, <1>13 DEF Taken
<1>16. Shape'
  BY <1>2, <1>4, <1>5, <1>6, <1>8, <1>9 DEF Shape
<1>17. Kept(S)'
  <2>1. (ReadRawBlock[0] = header)'
    BY <1>4, <1>5
  <2>2. (\A x \in Heads(blobs, Pending) : x \notin Batch => Uses(ReadRawBlock, x) \cap Batch = {})'
    BY <1>1, <1>4, <1>10, <1>13 DEF Kept
  <2>3. (\A x \in DOMAIN saved \ {0} : Uses(OnFile, x) \cap S = {})'
    BY <1>1, <1>2, <1>4 DEF Kept
  <2>4. /\ (\E m \in 0 .. LastBlock : Known = 0 .. m)'
        /\ (Taken(S) \subseteq Known /\ Known \ {0} \subseteq Taken(S) \cup abandoned)'
    BY <1>1, <1>2, <1>11, <1>15 DEF Kept
  <2>5. S \cap (Staged' \cup Batch') = {}
    BY <1>1, <1>4, <1>12 DEF Kept, BlockOf, NO_BLOCK
  <2>6. /\ ((Staged \cup Batch) \ {0} \subseteq Taken(S))'
        /\ (Staged \cap Batch = {} /\ 0 \notin Batch /\ Pending \cap Batch = {})'
    BY <1>1, <1>4, <1>10, <1>15 DEF Kept
  <2>7. (\A i, j \in 1 .. Len(pendingFrees) : pendingFrees[i] = pendingFrees[j] => i = j)'
    BY <1>1, <1>2 DEF Kept
  <2> QED BY <1>14, <2>1, <2>2, <2>3, <2>4, <2>5, <2>6, <2>7 DEF Kept
<1> QED BY <1>2, <1>8, <1>9, <1>16, <1>17, MemoryStep

\* Two facts about functions.
LEMMA OntoOnto ==
    ASSUME NEW f, NEW g, NEW h
    PROVE  Onto(f, Onto(g, h)) = Onto(Onto(f, g), h)
BY DEF Onto

LEMMA LinkedDomain ==
    ASSUME NEW w, NEW d
    PROVE  DOMAIN Linked(w, d) = ToSet(w)
BY DEF Linked

\* A blob is staged, with or without the header.
LEMMA StagedBlob ==
    ASSUME Shape, NEW S, Kept(S), NEW w \in Seq(BlockOf), NEW d, NEW k,
           header' = [header EXCEPT !.next = k],
           \/ stagedWrites' = Onto(Linked(w, d), WithHead(stagedWrites, k))
           \/ k = header.next /\ stagedWrites' = Onto(Linked(w, d), stagedWrites),
           UNCHANGED <<stagedBatch, blockFile>>
    PROVE  /\ \A x \in ToSet(w) : ReadRawBlock'[x] = Linked(w, d)[x]
           /\ \A x \in BlockOf \ ToSet(w) : ReadRawBlock'[x] = ReadRawBlock[x]
           /\ ReadRawBlock'[0] = header'
           /\ header' = FileBlock(k, header.data, 0)
           /\ Staged' \ {0} = (Staged \cup ToSet(w)) \ {0} /\ Staged' \subseteq BlockId
           /\ Batch' = Batch /\ Known' = Known \cup ToSet(w) /\ OnFile' = OnFile
<1>1. header' = FileBlock(k, header.data, 0)
  <2>1. header = FileBlock(header.next, header.data, 0)
    BY DEF Shape
  <2> QED BY <2>1 DEF FileBlock
<1>2. ToSet(w) \subseteq BlockOf /\ BlockOf \subseteq BlockId /\ 0 \notin BlockOf /\ 0 \in BlockId
  BY BlockAssumption DEF ToSet, BlockOf, BlockId, NO_BLOCK
<1>3. 0 \in Known
  <2>1. PICK m \in 0 .. LastBlock : Known = 0 .. m
    BY DEF Kept
  <2> QED BY <2>1, BlockAssumption
<1>4. Staged \subseteq BlockId
  BY DEF Shape
<1>5. CASE stagedWrites' = Onto(Linked(w, d), WithHead(stagedWrites, k))
  <2> DEFINE v == Onto(Linked(w, d), At(0, header'))
  <2>1. DOMAIN At(0, header') = {0} /\ At(0, header')[0] = header'
    BY DEF At
  <2>2. DOMAIN v = ToSet(w) \cup {0} /\ v[0] = header'
        /\ \A x \in ToSet(w) : v[x] = Linked(w, d)[x]
    BY <1>2, <2>1, LinkedDomain DEF Onto
  <2>3. stagedWrites' = Onto(v, stagedWrites)
    BY <1>5, OntoOnto DEF WithHead
  <2> HIDE DEF v
  <2>4. /\ \A x \in BlockId : ReadRawBlock'[x] = IF x \in DOMAIN v THEN v[x] ELSE ReadRawBlock[x]
        /\ Staged' = Staged \cup DOMAIN v /\ Batch' = Batch
        /\ Known' = Known \cup DOMAIN v /\ OnFile' = OnFile
    BY <2>3, ReadAfter
  <2>5. /\ \A x \in ToSet(w) : ReadRawBlock'[x] = Linked(w, d)[x]
        /\ \A x \in BlockOf \ ToSet(w) : ReadRawBlock'[x] = ReadRawBlock[x]
        /\ ReadRawBlock'[0] = header'
    BY <1>2, <2>2, <2>4
  <2>6. /\ Staged' \ {0} = (Staged \cup ToSet(w)) \ {0} /\ Staged' \subseteq BlockId
        /\ Batch' = Batch /\ Known' = Known \cup ToSet(w) /\ OnFile' = OnFile
    BY <1>2, <1>3, <1>4, <2>2, <2>4
  <2> QED BY <1>1, <2>5, <2>6
<1>6. CASE k = header.next /\ stagedWrites' = Onto(Linked(w, d), stagedWrites)
  <2> DEFINE v == Linked(w, d)
  <2>1. DOMAIN v = ToSet(w)
    BY LinkedDomain
  <2>2. header' = header
    BY <1>1, <1>6 DEF Shape
  <2>3. stagedWrites' = Onto(v, stagedWrites)
    BY <1>6
  <2> HIDE DEF v
  <2>4. /\ \A x \in BlockId : ReadRawBlock'[x] = IF x \in DOMAIN v THEN v[x] ELSE ReadRawBlock[x]
        /\ Staged' = Staged \cup DOMAIN v /\ Batch' = Batch
        /\ Known' = Known \cup DOMAIN v /\ OnFile' = OnFile
    BY <2>3, ReadAfter
  <2>5. /\ \A x \in ToSet(w) : ReadRawBlock'[x] = v[x]
        /\ \A x \in BlockOf \ ToSet(w) : ReadRawBlock'[x] = ReadRawBlock[x]
        /\ ReadRawBlock'[0] = header'
    BY <1>2, <2>1, <2>2, <2>4 DEF Kept
  <2>6. /\ Staged' \ {0} = (Staged \cup ToSet(w)) \ {0} /\ Staged' \subseteq BlockId
        /\ Batch' = Batch /\ Known' = Known \cup ToSet(w) /\ OnFile' = OnFile
    BY <1>2, <1>4, <2>1, <2>4
  <2> QED BY <1>1, <2>5, <2>6 DEF v
<1> QED BY <1>5, <1>6

\* The blobs B and the blobs to free P are kept when one more is written to w,
\* which leaves S \ w free.
LEMMA BlobStaged ==
    ASSUME BlockInv, NEW S, Kept(S), NEW B, NEW P,
           Sound(ReadRawBlock, header.next, B, P, S),
           0 \in DOMAIN B /\ B[0] = blobs[0] /\ P \cap Batch = {},
           \A x \in Heads(B, P) : x \notin Batch => Uses(ReadRawBlock, x) \cap Batch = {},
           NEW d \in Data, NEW w \in Seq(BlockOf), Len(w) = Needed(d),
           \A i, j \in 1 .. Len(w) : w[i] = w[j] => i = j,
           NEW k, Listed(ReadRawBlock, k, S \ ToSet(w)),
           ToSet(w) \cap Met(ReadRawBlock, Heads(B, P), S \ ToSet(w)) = {},
           Met(ReadRawBlock, Heads(B, P), S) \cup ToSet(w) = Taken(S) \cup ToSet(w),
           ToSet(w) \cap Batch = {},
           \E m \in 0 .. LastBlock : Known \cup ToSet(w) = 0 .. m,
           header' = [header EXCEPT !.next = k],
           \/ stagedWrites' = Onto(Linked(w, d), WithHead(stagedWrites, k))
           \/ k = header.next /\ stagedWrites' = Onto(Linked(w, d), stagedWrites),
           blobs' = Onto(At(w[1], d), B),
           Pending' = P, pendingFrees' \in Seq(BlockOf),
           \A i, j \in 1 .. Len(pendingFrees') : pendingFrees'[i] = pendingFrees'[j] => i = j,
           UNCHANGED <<stagedBatch, blockFile, saved, abandoned>>
    PROVE  BlockInv'
<1> DEFINE r == ReadRawBlock
           q == ReadRawBlock'
           W == ToSet(w)
           Q == S \ W
<1>1. Shape
  BY DEF BlockInv
<1>2. /\ \A x \in ToSet(w) : ReadRawBlock'[x] = Linked(w, d)[x]
      /\ \A x \in BlockOf \ ToSet(w) : ReadRawBlock'[x] = ReadRawBlock[x]
      /\ ReadRawBlock'[0] = header'
      /\ header' = FileBlock(k, header.data, 0)
      /\ Staged' \ {0} = (Staged \cup ToSet(w)) \ {0} /\ Staged' \subseteq BlockId
      /\ Batch' = Batch /\ Known' = Known \cup ToSet(w) /\ OnFile' = OnFile
  BY <1>1, StagedBlob
<1>3. header'.next = k /\ header' = FileBlock(header'.next, header'.data, 0)
      /\ header'.data = header.data
  BY <1>2 DEF FileBlock
<1>4. Q \subseteq S
  OBVIOUS
<1> HIDE DEF Q, r, q
<1>5. OneMore(r, q, k, B, P, Q, w, d)
  <2>1. /\ Sound(r, header.next, B, P, S) /\ Listed(r, k, Q)
        /\ ToSet(w) \cap Met(r, Heads(B, P), Q) = {}
        /\ \A x \in ToSet(w) : q[x] = Linked(w, d)[x]
        /\ \A x \in BlockOf \ ToSet(w) : q[x] = r[x]
    BY <1>2 DEF Q, r, q
  <2> QED BY <1>4, <2>1, Stored
<1>6. /\ Sound(q, k, blobs', P, Q)
      /\ Heads(blobs', P) = Heads(B, P) \cup {w[1]}
      /\ Met(q, Heads(blobs', P), Q) = Met(r, Heads(B, P), Q) \cup W
      /\ \A x \in Heads(B, P) : Uses(q, x) = Uses(r, x)
      /\ Uses(q, w[1]) = W /\ w[1] \in BlockOf
  BY <1>5 DEF OneMore
<1>7. Taken(Q)' = Taken(S) \cup W
  <2>1. Met(r, Heads(B, P), Q) \cup W = Met(r, Heads(B, P), S) \cup W
    BY DEF Met, Q
  <2> QED BY <1>6, <2>1 DEF Taken, q, r
<1>8. 0 \in DOMAIN blobs' /\ blobs'[0] = blobs[0]
  <2>1. w[1] # 0
    BY <1>6 DEF BlockOf, NO_BLOCK
  <2> QED BY <2>1 DEF Onto, At
<1>9. Shape'
  BY <1>1, <1>2, <1>3, <1>8 DEF Shape
<1>10. Taken(S) \subseteq BlockOf /\ S \subseteq BlockOf
  BY KeptHolds
<1>11. Kept(Q)'
  <2>1. Sound(ReadRawBlock, header.next, blobs, Pending, Q)'
    BY <1>3, <1>6 DEF q
  <2>2. (\E m \in 0 .. LastBlock : Known = 0 .. m)'
    BY <1>2
  <2>3. (Taken(Q) \subseteq Known /\ Known \ {0} \subseteq Taken(Q) \cup abandoned)'
    <3>1. Taken(S) \subseteq Known /\ Known \ {0} \subseteq Taken(S) \cup abandoned
      BY DEF Kept
    <3> QED BY <1>2, <1>7, <3>1
  <2>4. ((Staged \cup Batch) \ {0} \subseteq Taken(Q))'
    <3>1. (Staged \cup Batch) \ {0} \subseteq Taken(S)
      BY DEF Kept
    <3> QED BY <1>2, <1>7, <3>1
  <2>5. (Q \cap (Staged \cup Batch) = {})'
    <3>1. S \cap (Staged \cup Batch) = {} /\ 0 \notin S
      BY <1>10 DEF Kept, BlockOf, NO_BLOCK
    <3>2. Q \cap (Staged' \cup Batch') = {}
      BY <1>2, <3>1 DEF Q
    <3> QED BY <3>2
  <2>6. (Staged \cap Batch = {} /\ 0 \notin Batch /\ Pending \cap Batch = {})'
    <3>1. Staged \cap Batch = {} /\ 0 \notin Batch
      BY DEF Kept
    <3> QED BY <1>2, <3>1
  <2>7. (\A x \in Heads(blobs, Pending) : x \notin Batch => Uses(ReadRawBlock, x) \cap Batch = {})'
    BY <1>2, <1>6 DEF q, r
  <2>8. (\A x \in DOMAIN saved \ {0} : Uses(OnFile, x) \cap Q = {})'
    <3>1. \A x \in DOMAIN saved \ {0} : Uses(OnFile, x) \cap Q = {}
      BY <1>4 DEF Kept
    <3> QED BY <1>2, <3>1
  <2> QED BY <1>2, <2>1, <2>2, <2>3, <2>4, <2>5, <2>6, <2>7, <2>8 DEF Kept
<1>12. (header.data = blobs[0])'
  BY <1>3, <1>8 DEF BlockInv
<1> QED BY <1>9, <1>11, <1>12, MemoryStep

\* allocateAndWrite makes one more blob, of blocks that were free or new.
LEMMA AllocateAndWriteStep ==
    ASSUME BlockInv, NEW d \in Data, AllocateAndWrite(d), ~FreesAgain
    PROVE  BlockInv'
<1> DEFINE w == Allocated(Needed(d)).blocks
           k == Allocated(Needed(d)).head
<1>1. PICK S : Kept(S)
  BY DEF BlockInv, AllocateAndWrite, Usable
<1>2. /\ header' = [header EXCEPT !.next = k] /\ WithinBound(w)
      /\ stagedWrites' = Onto(Linked(w, d), WithHead(stagedWrites, k))
      /\ blobs' = Onto(At(w[1], d), blobs)
      /\ UNCHANGED <<blockFile, stagedBatch, pendingFrees, saved, abandoned>>
  BY DEF AllocateAndWrite
<1>3. Shape /\ Needed(d) \in Nat
  BY DEF BlockInv, Needed
<1>4. /\ w \in Seq(BlockOf) /\ Len(w) = Needed(d)
      /\ \A i, j \in 1 .. Needed(d) : w[i] = w[j] => i = j
      /\ \A x \in ToSet(w) : x \in S \/ x \notin Known
      /\ \E m \in 0 .. LastBlock : Known \cup ToSet(w) = 0 .. m
      /\ Listed(ReadRawBlock, k, S \ ToSet(w))
  BY <1>1, <1>2, <1>3, AllocatedIs
<1> HIDE DEF w, k
<1>5. ToSet(w) \cap Met(ReadRawBlock, Heads(blobs, Pending), S \ ToSet(w)) = {}
  <2>1. \A x \in Heads(blobs, Pending) : Uses(ReadRawBlock, x) \cap S = {}
    BY <1>1 DEF Kept, Sound, Apart
  <2>2. S \cup UNION {Uses(ReadRawBlock, x) : x \in Heads(blobs, Pending)} \subseteq Known
    BY <1>1 DEF Kept, Taken, Met
  <2> QED BY <1>4, <2>1, <2>2 DEF Met
<1>6. ToSet(w) \cap Batch = {}
  <2>1. S \cap Batch = {} /\ Batch \subseteq Known
    BY <1>1 DEF Kept, Known
  <2> QED BY <1>4, <2>1
<1>7. Pending' = Pending /\ Met(ReadRawBlock, Heads(blobs, Pending), S) = Taken(S)
  BY <1>2 DEF Pending, Taken
<1>8. /\ Sound(ReadRawBlock, header.next, blobs, Pending, S) /\ Pending \cap Batch = {}
      /\ \A x \in Heads(blobs, Pending) : x \notin Batch => Uses(ReadRawBlock, x) \cap Batch = {}
  BY <1>1 DEF Kept
<1>9. /\ pendingFrees' \in Seq(BlockOf) /\ 0 \in DOMAIN blobs
      /\ \A i, j \in 1 .. Len(pendingFrees') : pendingFrees'[i] = pendingFrees'[j] => i = j
  BY <1>1, <1>2, <1>3 DEF Kept, Shape
<1>10. \A i, j \in 1 .. Len(w) : w[i] = w[j] => i = j
  BY <1>4
<1> QED BY <1>1, <1>2, <1>4, <1>5, <1>6, <1>7, <1>8, <1>9, <1>10, BlobStaged

\* What overwriteBlock keeps of a blob, p, and what it leaves of it, from tail on.
Cut(r, b, n, p, tail) ==
    /\ p \in Seq(BlockOf) /\ Len(p) \in 1 .. n /\ p[1] = b
    /\ \A i, j \in 1 .. Len(p) : p[i] = p[j] => i = j
    /\ tail = NO_BLOCK => ToSet(p) = Uses(r, b)
    /\ tail # NO_BLOCK =>
          /\ Len(p) = n /\ tail \in BlockOf /\ Freeable(r, tail)
          /\ Uses(r, tail) = {tail} /\ tail \notin ToSet(p)
          /\ ToSet(p) \cup {tail} = Uses(r, b)

\* Which blocks of its blob overwriteBlock keeps, and which it frees.
LEMMA KeptOfBlob ==
    ASSUME NEW r, NEW b \in BlockOf, Freeable(r, b), NEW n \in Nat, n # 0,
           NEW p, p = ChainUpTo(r, b, n), NEW tail, tail = r[Last(p)].next
    PROVE  Cut(r, b, n, p, tail)
<1> DEFINE U == Uses(r, b)
           Z == U \ ToSet(p)
<1>1. Listed(r, b, U)
  <2>1. CASE r[b].next = NO_BLOCK
    <3> DEFINE f == [i \in 1 .. 1 |-> b]
    <3>1. IsList(r, b, f, 1)
      BY <2>1, SingleIsList
    <3>2. f \in [1 .. 1 -> BlockOf] /\ U = {f[i] : i \in 1 .. 1}
      BY <2>1 DEF Uses, BlockOf
    <3> HIDE DEF f, U
    <3>3. 1 \in Nat
      OBVIOUS
    <3> QED BY <3>1, <3>2, <3>3 DEF Listed
  <2>2. CASE r[b].next # NO_BLOCK
    <3> DEFINE c == r[b].next
               f == [i \in 1 .. 2 |-> IF i = 1 THEN b ELSE c]
    <3>1. c \in BlockOf /\ r[c].next = NO_BLOCK
      BY <2>2 DEF Freeable
    <3>2. IsList(r, b, f, 2)
      BY <3>1, PairIsList
    <3>3. U = {b, c}
      BY <2>2 DEF Uses, BlockOf
    <3>4. f \in [1 .. 2 -> BlockOf] /\ f[1] = b /\ f[2] = c /\ 1 \in 1 .. 2 /\ 2 \in 1 .. 2
          /\ \A i \in 1 .. 2 : i = 1 \/ i = 2
      BY <3>1
    <3> HIDE DEF f, U, c
    <3>5. U = {f[i] : i \in 1 .. 2}
      BY <3>3, <3>4
    <3>6. 2 \in Nat
      OBVIOUS
    <3> QED BY <3>2, <3>4, <3>5, <3>6 DEF Listed
  <2> QED BY <2>1, <2>2
<1>2. n \in Nat /\ n # 0 /\ b \in U /\ U \subseteq BlockOf
  BY <1>1, UsesItself, ChainOfListed
<1> HIDE DEF U
<1>3. /\ p \in Seq(U) /\ Len(p) <= n
      /\ \A i, j \in 1 .. Len(p) : p[i] = p[j] => i = j
      /\ Len(p) < n => U = ToSet(p)
      /\ p # <<>> => p[1] = b
      /\ Listed(r, IF p = <<>> THEN b ELSE r[Last(p)].next, U \ ToSet(p))
  BY ZenonT(60), <1>1, <1>2, PopIsListed
<1>4. p # <<>>
  <2> SUFFICES ASSUME p = <<>> PROVE FALSE
    OBVIOUS
  <2>1. Len(p) = 0 /\ ToSet(p) = {}
    BY DEF ToSet
  <2> QED BY <1>2, <1>3, <2>1
<1>5. Len(p) \in 1 .. n /\ p[1] = b /\ Listed(r, tail, Z) /\ b \in ToSet(p)
  <2>1. Len(p) \in Nat /\ Len(p) # 0
    BY <1>3, <1>4
  <2>2. 1 \in DOMAIN p /\ p[1] = b
    BY <1>3, <1>4, <2>1
  <2> QED BY <1>2, <1>3, <1>4, <2>1, <2>2 DEF ToSet
<1>6. p \in Seq(BlockOf)
  <2>1. p = [i \in 1 .. Len(p) |-> p[i]] /\ \A i \in 1 .. Len(p) : p[i] \in BlockOf
    BY <1>2, <1>3
  <2>2. Len(p) \in Nat
    BY <1>3
  <2> QED BY <2>1, <2>2
<1>7. ToSet(p) \subseteq U
  BY <1>3 DEF ToSet
<1>8. ASSUME tail = NO_BLOCK PROVE ToSet(p) = U
  <2>1. Z = {}
    <3>1. Listed(r, NO_BLOCK, Z)
      BY <1>5, <1>8
    <3> HIDE DEF Z
    <3> QED BY <3>1, NothingListed
  <2> QED BY <1>7, <2>1
<1>9. ASSUME tail # NO_BLOCK
      PROVE  /\ Len(p) = n /\ tail \in BlockOf /\ Freeable(r, tail)
             /\ Uses(r, tail) = {tail} /\ tail \notin ToSet(p)
             /\ ToSet(p) \cup {tail} = U
  <2> HIDE DEF Z
  <2>1. tail \in Z /\ tail \in BlockOf /\ Listed(r, r[tail].next, Z \ {tail})
    BY <1>5, <1>9, HeadIsListed
  <2>2. Len(p) = n
    BY <1>2, <1>3, <1>5, <2>1 DEF Z
  <2>3. \A x, y \in Z : x = y
    BY <1>5 DEF Z, U, Uses
  <2>4. Z \ {tail} = {}
    BY <2>1, <2>3
  <2>5. r[tail].next = NO_BLOCK
    <3> SUFFICES ASSUME r[tail].next # NO_BLOCK PROVE FALSE
      OBVIOUS
    <3> DEFINE c == r[tail].next
    <3>1. c # NO_BLOCK /\ Listed(r, c, {})
      BY <2>1, <2>4
    <3> HIDE DEF c
    <3>2. c \in {}
      BY <3>1, HeadIsListed
    <3> QED BY <3>2
  <2>6. Uses(r, tail) = {tail}
    BY <2>1, <2>5 DEF Uses, BlockOf
  <2> QED BY <1>7, <2>1, <2>2, <2>4, <2>5, <2>6 DEF Z, Freeable
<1> QED BY <1>3, <1>5, <1>6, <1>8, <1>9 DEF U, Cut

\* A change of one value.
LEMMA OntoWithout ==
    ASSUME NEW f, NEW b \in DOMAIN f, NEW d
    PROVE  [f EXCEPT ![b] = d] = Onto(At(b, d), Without(f, b))
<1>1. DOMAIN Onto(At(b, d), Without(f, b)) = DOMAIN f
  BY DEF Onto, At, Without
<1>2. \A x \in DOMAIN f : Onto(At(b, d), Without(f, b))[x] = IF x = b THEN d ELSE f[x]
  BY DEF Onto, At, Without
<1>3. Onto(At(b, d), Without(f, b))
          = [x \in DOMAIN Onto(At(b, d), Without(f, b)) |-> Onto(At(b, d), Without(f, b))[x]]
  BY DEF Onto
<1> QED BY <1>1, <1>2, <1>3

\* Two sequences without repetitions that share nothing, one after the other.
LEMMA Concatenated ==
    ASSUME NEW T, NEW s \in Seq(T), NEW t \in Seq(T), ToSet(s) \cap ToSet(t) = {},
           \A i, j \in 1 .. Len(s) : s[i] = s[j] => i = j,
           \A i, j \in 1 .. Len(t) : t[i] = t[j] => i = j
    PROVE  /\ s \o t \in Seq(T) /\ Len(s \o t) = Len(s) + Len(t)
           /\ ToSet(s \o t) = ToSet(s) \cup ToSet(t)
           /\ \A i, j \in 1 .. Len(s \o t) : (s \o t)[i] = (s \o t)[j] => i = j
           /\ Len(s) > 0 => (s \o t)[1] = s[1]
<1> DEFINE w == s \o t
           m == Len(s)
           n == Len(t)
<1>1. /\ w \in Seq(T) /\ Len(w) = m + n /\ m \in Nat /\ n \in Nat
      /\ \A i \in 1 .. m + n : w[i] = IF i <= m THEN s[i] ELSE t[i - m]
  BY ConcatProperties
<1>2. /\ ToSet(s) = {s[i] : i \in 1 .. m} /\ ToSet(t) = {t[i] : i \in 1 .. n}
      /\ ToSet(w) = {w[i] : i \in 1 .. m + n}
  <2>1. DOMAIN s = 1 .. m /\ DOMAIN t = 1 .. n /\ DOMAIN w = 1 .. m + n
    BY <1>1
  <2> QED BY <2>1 DEF ToSet
<1> HIDE DEF w, m, n
<1>3. \A i \in 1 .. m : i \in 1 .. m + n /\ w[i] = s[i]
  BY <1>1
<1>4. \A i \in 1 .. n : i + m \in 1 .. m + n /\ w[i + m] = t[i]
  BY <1>1
<1>5. \A i \in 1 .. m + n : \/ i \in 1 .. m /\ w[i] = s[i]
                            \/ i > m /\ i - m \in 1 .. n /\ w[i] = t[i - m]
  BY <1>1
<1>6. ToSet(w) = ToSet(s) \cup ToSet(t)
  <2>1. \A i \in 1 .. m + n : w[i] \in ToSet(s) \cup ToSet(t)
    BY <1>2, <1>5
  <2>2. \A x \in ToSet(s) : x \in ToSet(w)
    BY <1>2, <1>3
  <2>3. \A x \in ToSet(t) : x \in ToSet(w)
    BY <1>2, <1>4
  <2>4. ASSUME NEW x \in ToSet(w) PROVE x \in ToSet(s) \cup ToSet(t)
    <3>1. PICK i \in 1 .. m + n : x = w[i]
      BY <1>2
    <3> QED BY <2>1, <3>1
  <2> QED BY <2>2, <2>3, <2>4
<1>7. \A i, j \in 1 .. m + n : w[i] = w[j] => i = j
  <2> TAKE i, j \in 1 .. m + n
  <2>1. CASE i \in 1 .. m /\ j \in 1 .. m
    BY <1>3, <2>1 DEF m
  <2>2. CASE i > m /\ j > m
    <3>1. i - m \in 1 .. n /\ j - m \in 1 .. n /\ w[i] = t[i - m] /\ w[j] = t[j - m]
      BY <1>1, <1>5, <2>2
    <3>2. w[i] = w[j] => i - m = j - m
      BY <3>1 DEF n
    <3> QED BY <1>1, <3>2
  <2>3. CASE i \in 1 .. m /\ j > m
    <3>1. w[i] = s[i] /\ j - m \in 1 .. n /\ w[j] = t[j - m]
      BY <1>1, <1>3, <1>5, <2>3
    <3>2. w[i] \in ToSet(s) /\ w[j] \in ToSet(t)
      BY <1>2, <2>3, <3>1
    <3> QED BY <3>2
  <2>4. CASE i > m /\ j \in 1 .. m
    <3>1. w[j] = s[j] /\ i - m \in 1 .. n /\ w[i] = t[i - m]
      BY <1>1, <1>3, <1>5, <2>4
    <3>2. w[i] \in ToSet(t) /\ w[j] \in ToSet(s)
      BY <1>2, <2>4, <3>1
    <3> QED BY <3>2
  <2> QED BY <1>5, <2>1, <2>2, <2>3, <2>4
<1>8. m > 0 => w[1] = s[1]
  <2>1. m > 0 => 1 \in 1 .. m
    BY <1>1
  <2> QED BY <1>3, <2>1
<1> QED BY <1>1, <1>6, <1>7, <1>8 DEF w, m, n

\* overwriteBlock drops the blob, gives what is left over to those to free, and
\* writes the blob again, to the blocks it keeps and to free or new ones.
LEMMA OverwriteBlockStep ==
    ASSUME BlockInv, NEW b \in DOMAIN blobs, NEW d \in Data, OverwriteBlock(b, d), ~BatchMayChange, ~FreesAgain
    PROVE  BlockInv'
<1> DEFINE r == ReadRawBlock
           n == Needed(d)
           p == ChainUpTo(r, b, n)
           tail == r[Last(p)].next
           got == Allocated(n - Len(p))
           w == p \o got.blocks
           k == got.head
           B == Without(blobs, b)
           P == Pending \cup ({tail} \ {NO_BLOCK})
           H == Heads(blobs, Pending)
<1>1. PICK S : Kept(S)
  BY DEF BlockInv, OverwriteBlock, Usable
<1>2. /\ b # 0 /\ b \notin Batch
      /\ WithinBound(w) /\ header' = [header EXCEPT !.next = k]
      /\ pendingFrees' = IF tail = NO_BLOCK THEN pendingFrees ELSE Append(pendingFrees, tail)
      /\ stagedWrites' = Onto(Linked(w, d), IF got.blocks = <<>> THEN stagedWrites
                                            ELSE WithHead(stagedWrites, k))
      /\ blobs' = [blobs EXCEPT ![b] = d]
      /\ UNCHANGED <<stagedBatch, blockFile, saved, abandoned>>
  BY DEF OverwriteBlock, MayChange, Batch, TailOf
<1>3. Shape /\ n \in Nat \ {0} /\ Sound(r, header.next, blobs, Pending, S)
  BY <1>1 DEF BlockInv, Needed, Kept
<1>4. /\ Sound(r, header.next, B, Pending, S)
      /\ Heads(B, Pending) = H \ {b} /\ b \in H
      /\ Uses(r, b) \cap Met(r, Heads(B, Pending), S) = {}
      /\ Met(r, H, S) = Met(r, Heads(B, Pending), S) \cup Uses(r, b)
  BY <1>2, <1>3, Dropped
<1>5. b \in BlockOf /\ Freeable(r, b)
  BY <1>3, <1>4 DEF Sound, Apart
<1> HIDE DEF r, n
<1>6. /\ p \in Seq(BlockOf) /\ Len(p) \in 1 .. n /\ p[1] = b
      /\ \A i, j \in 1 .. Len(p) : p[i] = p[j] => i = j
      /\ tail = NO_BLOCK => ToSet(p) = Uses(r, b)
      /\ tail # NO_BLOCK =>
            /\ Len(p) = n /\ tail \in BlockOf /\ Freeable(r, tail)
            /\ Uses(r, tail) = {tail} /\ tail \notin ToSet(p)
            /\ ToSet(p) \cup {tail} = Uses(r, b)
  <2>1. p = ChainUpTo(r, b, n) /\ tail = r[Last(p)].next
    OBVIOUS
  <2> HIDE DEF p, tail
  <2>2. n \in Nat /\ n # 0
    BY <1>3
  <2>3. Cut(r, b, n, p, tail)
    BY <1>5, <2>1, <2>2, KeptOfBlob
  <2> QED BY <2>3 DEF Cut
<1>7. n - Len(p) \in Nat
  BY <1>3, <1>6
<1> HIDE DEF p, B, H, tail
<1>29. {tail} \ {NO_BLOCK} \subseteq Uses(r, b)
  BY <1>6
<1>8. Uses(r, b) \subseteq Taken(S) /\ Taken(S) = Met(r, H, S) /\ Taken(S) \subseteq Known
  BY <1>1, <1>4 DEF Kept, Taken, r, H
<1>9. Uses(r, b) \cap S = {} /\ Uses(r, b) \cap Batch = {}
  <2>1. Uses(r, b) \cap S = {}
    BY <1>3, <1>4 DEF Sound, Apart, H
  <2>2. Uses(r, b) \cap Batch = {}
    BY <1>1, <1>2, <1>4 DEF Kept, r, H
  <2> QED BY <2>1, <2>2
<1>10. /\ Sound(r, header.next, B, P, S)
       /\ Heads(B, P) = (H \ {b}) \cup ({tail} \ {NO_BLOCK})
       /\ Met(r, Heads(B, P), S) = Met(r, Heads(B, Pending), S) \cup ({tail} \ {NO_BLOCK})
  <2>1. CASE tail = NO_BLOCK
    <3>1. P = Pending /\ {tail} \ {NO_BLOCK} = {}
      BY <2>1
    <3> QED BY <1>4, <3>1
  <2>2. CASE tail # NO_BLOCK
    <3>1. P = Pending \cup {tail} /\ {tail} \ {NO_BLOCK} = {tail}
      BY <2>2
    <3>2. tail \in BlockOf /\ Freeable(r, tail) /\ Uses(r, tail) = {tail}
          /\ Uses(r, tail) \cap Met(r, Heads(B, Pending), S) = {}
      BY <1>4, <1>6, <2>2
    <3>3. /\ Sound(r, header.next, B, Pending \cup {tail}, S)
          /\ Heads(B, Pending \cup {tail}) = Heads(B, Pending) \cup {tail}
          /\ Met(r, Heads(B, Pending \cup {tail}), S) = Met(r, Heads(B, Pending), S) \cup Uses(r, tail)
      <4>1. Sound(r, header.next, B, Pending, S)
        BY <1>4
      <4>2. PICK h : h = header.next
        OBVIOUS
      <4>3. PICK x \in BlockOf : x = tail
        BY <3>2
      <4>4. PICK C : C = B
        OBVIOUS
      <4>5. PICK Q : Q = Pending
        OBVIOUS
      <4>6. Sound(r, h, C, Q, S)
        BY <4>1, <4>2, <4>4, <4>5
      <4>7. Freeable(r, x) /\ Uses(r, x) \cap Met(r, Heads(C, Q), S) = {}
        BY <3>2, <4>3, <4>4, <4>5
      <4>8. /\ Sound(r, h, C, Q \cup {x}, S)
            /\ Heads(C, Q \cup {x}) = Heads(C, Q) \cup {x}
            /\ Met(r, Heads(C, Q \cup {x}), S) = Met(r, Heads(C, Q), S) \cup Uses(r, x)
        BY <4>6, <4>7, Pended
      <4> QED BY <4>2, <4>3, <4>4, <4>5, <4>8
    <3> QED BY <1>4, <3>1, <3>2, <3>3
  <2> QED BY <2>1, <2>2
<1> HIDE DEF P
<1> DEFINE g == got.blocks
<1>11. g \in Seq(Nat) /\ Len(g) = n - Len(p) /\ (WithinBound(g) =>
          /\ g \in Seq(BlockOf)
          /\ \A i, j \in 1 .. n - Len(p) : g[i] = g[j] => i = j
          /\ \A x \in ToSet(g) : x \in S \/ x \notin Known
          /\ \E m \in 0 .. LastBlock : Known \cup ToSet(g) = 0 .. m
          /\ Listed(r, k, S \ ToSet(g)))
  <2> DEFINE c == n - Len(p)
  <2>1. c \in Nat
    BY <1>7
  <2> HIDE DEF c
  <2>2. Allocated(c).blocks \in Seq(Nat) /\ Len(Allocated(c).blocks) = c
        /\ (WithinBound(Allocated(c).blocks) =>
              /\ Allocated(c).blocks \in Seq(BlockOf)
              /\ \A i, j \in 1 .. c : Allocated(c).blocks[i] = Allocated(c).blocks[j] => i = j
              /\ \A x \in ToSet(Allocated(c).blocks) : x \in S \/ x \notin Known
              /\ \E m \in 0 .. LastBlock : Known \cup ToSet(Allocated(c).blocks) = 0 .. m
              /\ Listed(r, Allocated(c).head, S \ ToSet(Allocated(c).blocks)))
    BY <1>1, <1>3, <2>1, AllocatedIs DEF r
  <2> QED BY <2>2 DEF c
<1>12. got.blocks = g
  OBVIOUS
<1>13. k = header.next \/ g # <<>>
  <2> SUFFICES ASSUME g = <<>> PROVE k = header.next
    OBVIOUS
  <2> DEFINE c == n - Len(p)
  <2>1. c = 0
    BY <1>11
  <2>2. got = Allocated(0)
    BY <2>1
  <2>3. Listed(r, header.next, S)
    BY <1>3 DEF Sound
  <2>4. Len(ChainUpTo(r, header.next, 0)) <= 0 /\ ChainUpTo(r, header.next, 0) \in Seq(S)
    BY <2>3, PopIsListed
  <2>5. ChainUpTo(r, header.next, 0) = <<>>
    BY <2>4
  <2>6. Allocated(0).head = header.next
    BY <2>5 DEF Allocated, r
  <2> QED BY <2>2, <2>6
<1> HIDE DEF got, g, k
<1>14. WithinBound(g)
  <2>1. BlockOf \subseteq Nat
    BY BlockAssumption DEF BlockOf, BlockId
  <2>2. p \in Seq(Nat)
    <3>1. p = [i \in 1 .. Len(p) |-> p[i]] /\ \A i \in 1 .. Len(p) : p[i] \in Nat
      BY <1>6, <2>1
    <3>2. Len(p) \in Nat
      BY <1>6
    <3> QED BY <3>1, <3>2
  <2>3. /\ Len(w) = Len(p) + Len(g)
        /\ \A i \in 1 .. Len(p) + Len(g) : w[i] = IF i <= Len(p) THEN p[i] ELSE g[i - Len(p)]
    BY <1>11, <1>12, <2>2, ConcatProperties
  <2>4. Len(p) \in Nat /\ Len(g) \in Nat
    BY <1>6, <1>11
  <2>5. ASSUME NEW i \in 1 .. Len(g) PROVE g[i] <= LastBlock
    <3>1. i + Len(p) \in 1 .. Len(p) + Len(g) /\ ~(i + Len(p) <= Len(p)) /\ i + Len(p) - Len(p) = i
      BY <2>4
    <3>2. w[i + Len(p)] = g[i]
      BY <2>3, <3>1
    <3>3. w[i + Len(p)] <= LastBlock
      BY <1>2, <2>3, <3>1 DEF WithinBound
    <3> QED BY <3>2, <3>3
  <2> QED BY <2>5 DEF WithinBound
<1>15. /\ g \in Seq(BlockOf)
       /\ \A i, j \in 1 .. Len(g) : g[i] = g[j] => i = j
       /\ \A x \in ToSet(g) : x \in S \/ x \notin Known
       /\ \E m \in 0 .. LastBlock : Known \cup ToSet(g) = 0 .. m
       /\ Listed(r, k, S \ ToSet(g))
  BY <1>11, <1>14
<1>16. ToSet(p) \subseteq Uses(r, b)
  BY <1>6
<1>17. ToSet(p) \cap ToSet(g) = {}
  BY <1>8, <1>9, <1>15, <1>16
<1>18. /\ w \in Seq(BlockOf) /\ Len(w) = n
       /\ ToSet(w) = ToSet(p) \cup ToSet(g)
       /\ \A i, j \in 1 .. Len(w) : w[i] = w[j] => i = j
       /\ w[1] = b
  <2>1. /\ p \o g \in Seq(BlockOf) /\ Len(p \o g) = Len(p) + Len(g)
        /\ ToSet(p \o g) = ToSet(p) \cup ToSet(g)
        /\ \A i, j \in 1 .. Len(p \o g) : (p \o g)[i] = (p \o g)[j] => i = j
        /\ Len(p) > 0 => (p \o g)[1] = p[1]
    BY <1>6, <1>15, <1>17, Concatenated
  <2>2. Len(p) + Len(g) = n /\ Len(p) > 0
    BY <1>3, <1>6, <1>11
  <2> QED BY <1>6, <1>12, <2>1, <2>2
<1> HIDE DEF w
<1>19. S \ ToSet(w) = S \ ToSet(g)
  BY <1>9, <1>16, <1>18
<1>20. ToSet(w) \cap Met(r, Heads(B, P), S \ ToSet(w)) = {}
  <2>1. ToSet(p) \cap Met(r, Heads(B, P), S) = {}
    BY <1>4, <1>6, <1>10, <1>16
  <2>2. Met(r, Heads(B, P), S) \subseteq Taken(S)
    BY <1>4, <1>8, <1>10, <1>29
  <2>3. \A x \in Heads(B, P) : Uses(r, x) \cap S = {}
    BY <1>10 DEF Sound, Apart
  <2>4. ASSUME NEW x \in ToSet(g) PROVE x \notin Met(r, Heads(B, P), S \ ToSet(w))
    <3>1. CASE x \in S
      <4>1. x \notin S \ ToSet(w)
        BY <1>18
      <4>2. \A y \in Heads(B, P) : x \notin Uses(r, y)
        BY <2>3, <3>1
      <4> QED BY <4>1, <4>2 DEF Met
    <3>2. CASE x \notin Known
      <4>1. x \notin Met(r, Heads(B, P), S)
        BY <1>8, <2>2, <3>2
      <4> QED BY <4>1 DEF Met
    <3> QED BY <1>15, <3>1, <3>2
  <2>5. ASSUME NEW x \in ToSet(p) PROVE x \notin Met(r, Heads(B, P), S \ ToSet(w))
    BY <2>1 DEF Met
  <2> QED BY <1>18, <2>4, <2>5
<1>21. Met(r, Heads(B, P), S) \cup ToSet(w) = Taken(S) \cup ToSet(w)
  <2>1. Uses(r, b) = ToSet(p) \cup ({tail} \ {NO_BLOCK})
    BY <1>6
  <2>2. Met(r, Heads(B, P), S) = Met(r, Heads(B, Pending), S) \cup ({tail} \ {NO_BLOCK})
    BY <1>10
  <2>3. Taken(S) = Met(r, Heads(B, Pending), S) \cup Uses(r, b)
    BY <1>4, <1>8
  <2> QED BY <1>18, <2>1, <2>2, <2>3
<1>22. ToSet(w) \cap Batch = {}
  <2>1. S \cap Batch = {} /\ Batch \subseteq Known
    BY <1>1 DEF Kept, Known
  <2> QED BY <1>9, <1>15, <1>16, <1>18, <2>1
<1>23. \E m \in 0 .. LastBlock : Known \cup ToSet(w) = 0 .. m
  <2>1. Known \cup ToSet(w) = Known \cup ToSet(g)
    BY <1>8, <1>16, <1>18
  <2> QED BY <1>15, <2>1
<1>24. P \cap Batch = {}
       /\ \A x \in Heads(B, P) : x \notin Batch => Uses(r, x) \cap Batch = {}
  <2>1. Pending \cap Batch = {}
        /\ \A x \in H : x \notin Batch => Uses(r, x) \cap Batch = {}
    BY <1>1 DEF Kept, r, H
  <2>2. \A x \in {tail} \ {NO_BLOCK} : Uses(r, x) \subseteq Uses(r, b) /\ x \in Uses(r, b)
    BY <1>6
  <2> QED BY <1>9, <1>10, <2>1, <2>2 DEF P
<1>25. 0 \in DOMAIN B /\ B[0] = blobs[0] /\ blobs' = Onto(At(w[1], d), B)
  <2>1. 0 \in DOMAIN blobs
    BY <1>3 DEF Shape
  <2>2. 0 \in DOMAIN B /\ B[0] = blobs[0]
    BY <1>2, <2>1 DEF B, Without
  <2>3. blobs' = Onto(At(b, d), B)
    BY <1>2, OntoWithout DEF B
  <2> QED BY <1>18, <2>2, <2>3
<1>26. /\ Pending' = P /\ pendingFrees' \in Seq(BlockOf)
       /\ \A i, j \in 1 .. Len(pendingFrees') : pendingFrees'[i] = pendingFrees'[j] => i = j
  <2>1. pendingFrees \in Seq(BlockOf)
        /\ \A i, j \in 1 .. Len(pendingFrees) : pendingFrees[i] = pendingFrees[j] => i = j
    BY <1>1, <1>3 DEF Shape, Kept
  <2>2. CASE tail = NO_BLOCK
    BY <1>2, <2>1, <2>2 DEF Pending, P
  <2>3. CASE tail # NO_BLOCK
    <3>1. tail \in Uses(r, b) /\ tail \in BlockOf
      BY <1>6, <2>3
    <3>2. tail \notin Pending
      <4>1. Pending \subseteq Heads(B, Pending) /\ \A x \in Heads(B, Pending) : x \in BlockOf
        BY <1>4, SoundFacts DEF Heads
      <4>2. \A x \in Pending : x \in Met(r, Heads(B, Pending), S)
        BY <1>4, <4>1, SoundFacts
      <4> QED BY <1>4, <3>1, <4>2
    <3>3. /\ Append(pendingFrees, tail) \in Seq(BlockOf)
          /\ ToSet(Append(pendingFrees, tail)) = Pending \cup {tail}
          /\ \A i, j \in 1 .. Len(Append(pendingFrees, tail)) :
                Append(pendingFrees, tail)[i] = Append(pendingFrees, tail)[j] => i = j
      BY <2>1, <3>1, <3>2, Appended DEF Pending
    <3>4. P = Pending \cup {tail}
      BY <2>3 DEF P
    <3>5. pendingFrees' = Append(pendingFrees, tail)
      BY <1>2, <2>3
    <3> QED BY <3>3, <3>4, <3>5 DEF Pending
  <2> QED BY <2>2, <2>3
<1>27. \/ stagedWrites' = Onto(Linked(w, d), WithHead(stagedWrites, k))
       \/ k = header.next /\ stagedWrites' = Onto(Linked(w, d), stagedWrites)
  BY <1>2, <1>12, <1>13
<1>28. Listed(r, k, S \ ToSet(w)) /\ Len(w) = Needed(d)
  BY <1>15, <1>18, <1>19 DEF n
<1>30. /\ header' = [header EXCEPT !.next = k]
       /\ UNCHANGED <<stagedBatch, blockFile, saved, abandoned>>
  BY <1>2
<1>31. Sound(r, header.next, B, P, S)
  BY <1>10
<1>32. w \in Seq(BlockOf) /\ \A i, j \in 1 .. Len(w) : w[i] = w[j] => i = j
  BY <1>18
<1> QED
  BY <1>1, <1>20, <1>21, <1>22, <1>23, <1>24, <1>25, <1>26, <1>27, <1>28, <1>30, <1>31, <1>32,
     BlobStaged DEF r

\* The blocks past the end, for two blobs.
LEMMA FreshIs ==
    ASSUME Shape, NEW m \in 0 .. LastBlock, Known = 0 .. m, NEW a \in Nat \ {0}, NEW c \in Nat \ {0},
           WithinBound(Fresh(a + c))
    PROVE  LET all == Fresh(a + c)
               one == SubSeq(all, 1, a)
               two == SubSeq(all, a + 1, Len(all))
           IN  /\ one \in Seq(BlockOf) /\ Len(one) = a
               /\ two \in Seq(BlockOf) /\ Len(two) = c
               /\ \A i \in 1 .. a : one[i] = m + i
               /\ \A i \in 1 .. c : two[i] = m + a + i
               /\ m + a + c \in 0 .. LastBlock
<1> DEFINE all == Fresh(a + c)
           one == SubSeq(all, 1, a)
           two == SubSeq(all, a + 1, Len(all))
<1>1. Base = m + 1 /\ m \in Nat /\ LastBlock \in Nat /\ a \in Nat /\ a > 0 /\ c \in Nat /\ c > 0
  BY BaseIs, BlockAssumption
<1>2. all = [i \in 1 .. a + c |-> m + 1 + i - 1]
  BY <1>1 DEF Fresh
<1>3. Len(all) = a + c /\ \A i \in 1 .. a + c : all[i] = m + i
  <2>1. a + c \in Nat /\ \A i \in 1 .. a + c : m + 1 + i - 1 = m + i
    BY <1>1
  <2> QED BY <1>2, <2>1
<1>4. \A i \in 1 .. a + c : m + i \in BlockOf
  <2> TAKE i \in 1 .. a + c
  <2>1. all[i] <= LastBlock
    BY <1>3 DEF WithinBound
  <2> HIDE DEF all
  <2> QED BY <1>1, <1>3, <2>1 DEF BlockOf, BlockId, NO_BLOCK
<1>5. all \in Seq(BlockOf)
  <2>1. all = [i \in 1 .. a + c |-> all[i]]
    BY <1>2
  <2> HIDE DEF all
  <2>2. \A i \in 1 .. a + c : all[i] \in BlockOf
    BY <1>3, <1>4
  <2>3. a + c \in Nat
    BY <1>1
  <2> QED BY <2>1, <2>2, <2>3
<1> HIDE DEF all
<1>6. /\ one \in Seq(BlockOf) /\ Len(one) = a
      /\ \A i \in 1 .. a : one[i] = m + i
  <2>1. 1 \in 1 .. Len(all) + 1 /\ a \in 1 - 1 .. Len(all)
    BY <1>1, <1>3
  <2>2. /\ one \in Seq(BlockOf) /\ Len(one) = a - 1 + 1
        /\ \A i \in 1 .. a - 1 + 1 : one[i] = all[1 + i - 1]
    BY <1>5, <2>1, SubSeqProperties
  <2>3. a - 1 + 1 = a /\ \A i \in 1 .. a : 1 + i - 1 = i /\ i \in 1 .. a + c
    BY <1>1
  <2> HIDE DEF one
  <2> QED BY <1>3, <2>2, <2>3
<1>7. /\ two \in Seq(BlockOf) /\ Len(two) = c
      /\ \A i \in 1 .. c : two[i] = m + a + i
  <2>1. a + 1 \in 1 .. Len(all) + 1 /\ Len(all) \in a + 1 - 1 .. Len(all)
    BY <1>1, <1>3
  <2>2. /\ two \in Seq(BlockOf) /\ Len(two) = Len(all) - (a + 1) + 1
        /\ \A i \in 1 .. Len(all) - (a + 1) + 1 : two[i] = all[a + 1 + i - 1]
    BY SMTT(30), <1>5, <2>1, SubSeqProperties
  <2>3. Len(all) - (a + 1) + 1 = c
        /\ \A i \in 1 .. c : a + 1 + i - 1 = a + i /\ a + i \in 1 .. a + c /\ m + (a + i) = m + a + i
    BY <1>1, <1>3
  <2> HIDE DEF two
  <2> QED BY <1>3, <2>2, <2>3
<1>8. m + a + c \in 0 .. LastBlock
  <2>1. a + c \in 1 .. a + c
    BY <1>1
  <2>2. m + (a + c) \in BlockOf
    BY <1>4, <2>1
  <2> QED BY <1>1, <2>2 DEF BlockOf, BlockId
<1> QED BY <1>6, <1>7, <1>8 DEF all

\* allocateAndWriteMany makes two more blobs past the end, and takes no free block.
LEMMA AllocateAndWriteManyStep ==
    ASSUME BlockInv, NEW d \in Data, NEW e \in Data, AllocateAndWriteMany(d, e), ~FreesAgain
    PROVE  BlockInv'
<1> DEFINE a == Needed(d)
           c == Needed(e)
           all == Fresh(a + c)
           one == SubSeq(all, 1, a)
           two == SubSeq(all, a + 1, Len(all))
           r == ReadRawBlock
           q == ReadRawBlock'
           H == Heads(blobs, Pending)
           v == Onto(Linked(one, d), Linked(two, e))
<1>1. PICK S : Kept(S)
  BY DEF BlockInv, AllocateAndWriteMany, Usable
<1>2. /\ WithinBound(all) /\ stagedBatch' = Onto(v, stagedBatch)
      /\ blobs' = Onto(Onto(At(one[1], d), At(two[1], e)), blobs)
      /\ UNCHANGED <<blockFile, stagedWrites, pendingFrees, header, saved, abandoned>>
  BY DEF AllocateAndWriteMany
<1>3. Shape /\ Sound(r, header.next, blobs, Pending, S) /\ Taken(S) = Met(r, H, S)
  BY <1>1 DEF BlockInv, Kept, Taken
<1>4. PICK m \in 0 .. LastBlock : Known = 0 .. m
  BY <1>1 DEF Kept
<1>5. /\ a \in Nat \ {0} /\ c \in Nat \ {0}
      /\ m \in Nat /\ LastBlock \in Nat /\ a \in Nat /\ a > 0 /\ c \in Nat /\ c > 0
  BY BlockAssumption DEF Needed
<1> HIDE DEF a, c
<1>6. /\ one \in Seq(BlockOf) /\ Len(one) = a
      /\ two \in Seq(BlockOf) /\ Len(two) = c
      /\ \A i \in 1 .. a : one[i] = m + i
      /\ \A i \in 1 .. c : two[i] = m + a + i
      /\ m + a + c \in 0 .. LastBlock
  BY <1>2, <1>3, <1>4, <1>5, FreshIs
<1> HIDE DEF one, two, all, r, q, H
<1> DEFINE U == ToSet(one)
           V == ToSet(two)
<1>7. U = {m + i : i \in 1 .. a} /\ V = {m + a + i : i \in 1 .. c}
  <2>1. DOMAIN one = 1 .. a /\ DOMAIN two = 1 .. c
    BY <1>6
  <2> QED BY <1>6, <2>1 DEF ToSet
<1>8. U \subseteq BlockOf /\ V \subseteq BlockOf
  <2>1. DOMAIN one = 1 .. a /\ DOMAIN two = 1 .. c
    BY <1>6
  <2> QED BY <1>6, <2>1 DEF ToSet
<1>9. DOMAIN v = U \cup V /\ (\A x \in U : v[x] = Linked(one, d)[x])
      /\ \A x \in V \ U : v[x] = Linked(two, e)[x]
  BY LinkedDomain DEF Onto
<1> HIDE DEF U, V, v
<1>10. U \cap V = {} /\ U \cap Known = {} /\ V \cap Known = {}
       /\ Known \cup U \cup V = 0 .. m + a + c
  <2>1. \A x \in U : x \in m + 1 .. m + a
    BY <1>5, <1>7
  <2>2. \A x \in V : x \in m + a + 1 .. m + a + c
    BY <1>5, <1>7
  <2>3. ASSUME NEW x \in 0 .. m + a + c PROVE x \in 0 .. m \/ x \in U \/ x \in V
    <3>1. CASE x \in m + 1 .. m + a
      <4>1. x - m \in 1 .. a /\ m + (x - m) = x
        BY <1>5, <3>1
      <4> QED BY <1>7, <4>1
    <3>2. CASE x \in m + a + 1 .. m + a + c
      <4>1. x - (m + a) \in 1 .. c /\ m + a + (x - (m + a)) = x
        BY <1>5, <3>2
      <4> QED BY <1>7, <4>1
    <3> QED BY <1>5, <3>1, <3>2
  <2>4. U \cap V = {} /\ U \cap Known = {} /\ V \cap Known = {}
    BY <1>4, <1>5, <2>1, <2>2
  <2>5. \A x \in Known \cup U \cup V : x \in 0 .. m + a + c
    BY <1>4, <1>5, <2>1, <2>2
  <2> QED BY <1>4, <2>3, <2>4, <2>5
<1>11. \A i, j \in 1 .. Len(one) : one[i] = one[j] => i = j
  BY <1>5, <1>6
<1>12. \A i, j \in 1 .. Len(two) : two[i] = two[j] => i = j
  BY <1>5, <1>6
<1>13. Batch' = Batch \cup U \cup V /\ Staged' = Staged /\ OnFile' = OnFile
       /\ Known' = Known \cup U \cup V /\ Pending' = Pending
       /\ \A x \in DOMAIN stagedBatch' :
             stagedBatch'[x] = IF x \in U \cup V THEN v[x] ELSE stagedBatch[x]
  BY <1>2, <1>9 DEF Batch, Staged, Known, OnFile, Pending, Onto
<1>14. /\ \A x \in U : q[x] = Linked(one, d)[x]
       /\ \A x \in V : q[x] = Linked(two, e)[x]
       /\ \A x \in BlockId \ (U \cup V) : q[x] = r[x]
  <2>1. BlockOf \subseteq BlockId
    BY DEF BlockOf
  <2>2. \A x \in BlockId : q[x] = IF x \in Staged THEN stagedWrites[x]
                                  ELSE IF x \in Batch' THEN stagedBatch'[x]
                                  ELSE IF x \in DOMAIN blockFile THEN blockFile[x] ELSE Zeros
    BY <1>2 DEF q, ReadRawBlock, Staged, Batch
  <2>3. \A x \in BlockId : r[x] = IF x \in Staged THEN stagedWrites[x]
                                  ELSE IF x \in Batch THEN stagedBatch[x]
                                  ELSE IF x \in DOMAIN blockFile THEN blockFile[x] ELSE Zeros
    BY DEF r, ReadRawBlock, Staged, Batch
  <2>4. \A x \in U \cup V : x \in BlockId /\ x \notin Staged /\ x \in Batch'
    BY <1>8, <1>10, <1>13, <2>1 DEF Known
  <2>5. \A x \in U \cup V : q[x] = v[x]
    BY <1>13, <2>2, <2>4 DEF Batch
  <2>6. \A x \in BlockId \ (U \cup V) : q[x] = r[x]
    BY <1>13, <2>2, <2>3 DEF Batch
  <2> QED BY <1>9, <1>10, <2>5, <2>6
<1> DEFINE s == [x \in BlockOf |-> IF x \in V THEN Linked(two, e)[x] ELSE r[x]]
           B == Onto(At(two[1], e), blobs)
<1>15. /\ \A x \in V : s[x] = Linked(two, e)[x]
       /\ \A x \in BlockOf \ V : s[x] = r[x]
  BY <1>8
<1>16. Met(r, H, S) \subseteq Known /\ S \subseteq Known /\ Listed(r, header.next, S)
  BY <1>1, <1>3 DEF Kept, Met, Sound
<1> HIDE DEF s, B
<1>17. /\ Sound(s, header.next, B, Pending, S)
       /\ Heads(B, Pending) = H \cup {two[1]}
       /\ Met(s, Heads(B, Pending), S) = Met(r, H, S) \cup V
       /\ \A x \in H : Uses(s, x) = Uses(r, x)
       /\ Uses(s, two[1]) = V /\ two[1] \in BlockOf
  <2>1. ToSet(two) \cap Met(r, Heads(blobs, Pending), S) = {}
    BY <1>10, <1>16 DEF V, H
  <2>2. Len(two) = Needed(e) /\ S \subseteq S
    BY <1>6 DEF c
  <2>3. (\A x \in ToSet(two) : s[x] = Linked(two, e)[x])
        /\ \A x \in BlockOf \ ToSet(two) : s[x] = r[x]
    BY <1>15 DEF V
  <2>4. OneMore(r, s, header.next, blobs, Pending, S, two, e)
    <3>1. two \in Seq(BlockOf) /\ Listed(r, header.next, S)
      BY <1>6, <1>16
    <3>2. Sound(r, header.next, blobs, Pending, S)
      BY <1>3
    <3> QED BY <1>12, <2>1, <2>2, <2>3, <3>1, <3>2, Stored
  <2> QED BY <2>4 DEF B, H, V, OneMore
<1> DEFINE C == Onto(At(one[1], d), B)
<1> HIDE DEF C
<1>18. /\ Sound(q, header.next, C, Pending, S)
       /\ Heads(C, Pending) = Heads(B, Pending) \cup {one[1]}
       /\ Met(q, Heads(C, Pending), S) = Met(r, H, S) \cup V \cup U
       /\ \A x \in Heads(B, Pending) : Uses(q, x) = Uses(s, x)
       /\ Uses(q, one[1]) = U /\ one[1] \in BlockOf
  <2>1. ToSet(one) \cap Met(s, Heads(B, Pending), S) = {}
    BY <1>10, <1>16, <1>17 DEF U
  <2>2. Len(one) = Needed(d) /\ S \subseteq S
    BY <1>6 DEF a
  <2>3. (\A x \in ToSet(one) : q[x] = Linked(one, d)[x])
        /\ \A x \in BlockOf \ ToSet(one) : q[x] = s[x]
    BY <1>14, <1>15 DEF U, BlockOf
  <2>4. Listed(s, header.next, S)
    BY <1>17 DEF Sound
  <2>5. OneMore(s, q, header.next, B, Pending, S, one, d)
    <3>1. one \in Seq(BlockOf)
      BY <1>6
    <3>2. Sound(s, header.next, B, Pending, S)
      BY <1>17
    <3> QED BY <1>11, <2>1, <2>2, <2>3, <2>4, <3>1, <3>2, Stored
  <2> QED BY <1>17, <2>5 DEF C, U, OneMore
<1>19. blobs' = C
  BY <1>2, OntoOnto DEF B, C
<1>20. 0 \in DOMAIN blobs' /\ blobs'[0] = blobs[0]
  <2>1. one[1] # 0 /\ two[1] # 0 /\ 0 \in DOMAIN blobs
    BY <1>3, <1>17, <1>18 DEF BlockOf, NO_BLOCK, Shape
  <2> QED BY <1>19, <2>1 DEF B, C, Onto, At
<1>21. Shape'
  <2>1. BlockOf \subseteq BlockId
    BY DEF BlockOf
  <2> QED BY <1>2, <1>3, <1>8, <1>13, <1>20, <2>1 DEF Shape
<1>22. Taken(S)' = Taken(S) \cup U \cup V
  <2>1. Taken(S)' = Met(q, Heads(C, Pending), S)
    BY <1>13, <1>19 DEF Taken, q
  <2> QED BY <1>3, <1>18, <2>1
<1>23. Taken(S) \subseteq BlockOf /\ S \subseteq BlockOf /\ 0 \notin BlockOf /\ 0 \in BlockId
  BY <1>1, KeptHolds, BlockAssumption DEF BlockOf, NO_BLOCK, BlockId
<1>24. Kept(S)'
  <2>1. Sound(ReadRawBlock, header.next, blobs, Pending, S)'
    BY <1>2, <1>13, <1>18, <1>19 DEF q
  <2>2. (ReadRawBlock[0] = header)'
    <3>1. 0 \in BlockId \ (U \cup V) /\ r[0] = header
      BY <1>1, <1>8, <1>23 DEF Kept, r
    <3> QED BY <1>2, <1>14, <3>1 DEF q
  <2>3. (\E o \in 0 .. LastBlock : Known = 0 .. o)'
    BY <1>6, <1>10, <1>13
  <2>4. (Taken(S) \subseteq Known /\ Known \ {0} \subseteq Taken(S) \cup abandoned)'
    <3>1. Taken(S) \subseteq Known /\ Known \ {0} \subseteq Taken(S) \cup abandoned
      BY <1>1 DEF Kept
    <3> QED BY <1>2, <1>13, <1>22, <3>1
  <2>5. ((Staged \cup Batch) \ {0} \subseteq Taken(S) /\ S \cap (Staged \cup Batch) = {})'
    <3>1. (Staged \cup Batch) \ {0} \subseteq Taken(S) /\ S \cap (Staged \cup Batch) = {}
      BY <1>1 DEF Kept
    <3>2. S \cap (U \cup V) = {}
      BY <1>10, <1>16
    <3> QED BY <1>13, <1>22, <3>1, <3>2
  <2>6. (Staged \cap Batch = {} /\ 0 \notin Batch /\ Pending \cap Batch = {})'
    <3>1. Staged \cap Batch = {} /\ 0 \notin Batch /\ Pending \cap Batch = {}
      BY <1>1 DEF Kept
    <3>2. Staged \subseteq Known /\ Pending \subseteq Known
      <4>1. \A x \in H : x \in Met(r, H, S)
        BY <1>3, SoundFacts DEF H
      <4> QED BY <1>16, <4>1 DEF Known, H, Heads
    <3> QED BY <1>8, <1>10, <1>13, <1>23, <3>1, <3>2
  <2>7. (\A x \in Heads(blobs, Pending) : x \notin Batch => Uses(ReadRawBlock, x) \cap Batch = {})'
    <3>1. one[1] \in U /\ two[1] \in V
      BY <1>17, <1>18, UsesItself
    <3>2. \A x \in H : Uses(q, x) = Uses(r, x) /\ Uses(r, x) \subseteq Known
      BY <1>16, <1>17, <1>18 DEF Met
    <3>3. \A x \in H : x \notin Batch => Uses(r, x) \cap Batch = {}
      BY <1>1 DEF Kept, r, H
    <3>4. \A x \in H : x \notin Batch' => Uses(q, x) \cap Batch' = {}
      BY <1>10, <1>13, <3>2, <3>3
    <3>5. Heads(blobs', Pending') = H \cup {two[1]} \cup {one[1]}
      BY <1>13, <1>17, <1>18, <1>19
    <3> QED BY <1>13, <3>1, <3>4, <3>5 DEF q
  <2>8. (\A x \in DOMAIN saved \ {0} : Uses(OnFile, x) \cap S = {})'
    BY <1>1, <1>2, <1>13 DEF Kept
  <2>9. (\A i, j \in 1 .. Len(pendingFrees) : pendingFrees[i] = pendingFrees[j] => i = j)'
    BY <1>1, <1>2 DEF Kept
  <2> QED BY <2>1, <2>2, <2>3, <2>4, <2>5, <2>6, <2>7, <2>8, <2>9 DEF Kept
<1>25. (header.data = blobs[0])'
  BY <1>2, <1>20 DEF BlockInv
<1> QED BY <1>2, <1>21, <1>24, <1>25, MemoryStep

-----------------------------------------------------------------------------
(* The loops of commit that put the blobs to free on the free list. *)

\* What the loops read in the state f.
RawOf(f) == [b \in BlockId |-> IF b \in DOMAIN f.staged THEN f.staged[b] ELSE ReadRawBlock[b]]

\* The blobs still to free, the rest of the current one included.
PendingOf(f) == ToSet(f.todo) \cup ({f.current} \ {NO_BLOCK})

\* M is what the loops started with: they move blocks to the free list, S.
Loop(f, S, M) ==
    /\ f = [staged |-> f.staged, head |-> f.head, current |-> f.current, todo |-> f.todo]
    /\ Sound(RawOf(f), f.head, blobs, PendingOf(f), S)
    /\ Met(RawOf(f), Heads(blobs, PendingOf(f)), S) = M
    /\ DOMAIN f.staged \subseteq BlockId /\ Staged \subseteq DOMAIN f.staged
    /\ DOMAIN f.staged \ Staged \subseteq M /\ DOMAIN f.staged \cap Batch = {}
    /\ RawOf(f)[0] = ReadRawBlock[0]
    /\ \A x \in PendingOf(f) : Uses(RawOf(f), x) \cap Batch = {}
    /\ f.todo \in Seq(BlockOf) /\ f.current \notin ToSet(f.todo)
    /\ \A i, j \in 1 .. Len(f.todo) : f.todo[i] = f.todo[j] => i = j
    /\ pendingFrees = <<>> => f = ToFree

\* The loops have ended, or how many rounds are left, at most.
Done(f) == f.current = NO_BLOCK /\ f.todo = <<>>

Left(f) == 3 * Len(f.todo)
               + IF f.current = NO_BLOCK THEN 0
                 ELSE IF RawOf(f)[f.current].next = NO_BLOCK THEN 1 ELSE 2

\* Before the first round.
LEMMA LoopStarts ==
    ASSUME Shape, NEW S, Kept(S)
    PROVE  Loop(ToFree, S, Taken(S)) /\ Left(ToFree) = 3 * Len(pendingFrees)
<1> DEFINE f == ToFree
<1>1. /\ f.staged = stagedWrites /\ f.head = header.next
      /\ f.current = NO_BLOCK /\ f.todo = pendingFrees
      /\ f = [staged |-> f.staged, head |-> f.head, current |-> f.current, todo |-> f.todo]
  BY DEF ToFree
<1> HIDE DEF f
<1>2. RawOf(f) = ReadRawBlock
  <2>1. \A b \in BlockId : b \in DOMAIN stagedWrites => stagedWrites[b] = ReadRawBlock[b]
    BY DEF ReadRawBlock
  <2>2. ReadRawBlock = [b \in BlockId |-> ReadRawBlock[b]]
    BY DEF ReadRawBlock
  <2>3. RawOf(f) = [b \in BlockId |-> IF b \in DOMAIN stagedWrites THEN stagedWrites[b]
                                      ELSE ReadRawBlock[b]]
    BY <1>1 DEF RawOf
  <2> QED BY <2>1, <2>2, <2>3
<1>3. PendingOf(f) = Pending
  BY <1>1 DEF PendingOf, Pending
<1>4. 0 \notin BlockOf /\ ToSet(pendingFrees) \subseteq BlockOf
  BY DEF BlockOf, NO_BLOCK, Shape, ToSet
<1>5. \A x \in Pending : Uses(ReadRawBlock, x) \cap Batch = {}
  <2>1. Pending \subseteq Heads(blobs, Pending)
    BY DEF Heads
  <2> QED BY <2>1 DEF Kept
<1>6. Loop(f, S, Taken(S))
  <2>1. /\ Sound(RawOf(f), f.head, blobs, PendingOf(f), S)
        /\ Met(RawOf(f), Heads(blobs, PendingOf(f)), S) = Taken(S)
    BY <1>1, <1>2, <1>3 DEF Kept, Taken
  <2>2. /\ DOMAIN f.staged \subseteq BlockId /\ Staged \subseteq DOMAIN f.staged
        /\ DOMAIN f.staged \ Staged \subseteq Taken(S) /\ DOMAIN f.staged \cap Batch = {}
    BY <1>1 DEF Staged, Shape, Kept
  <2>3. f.todo \in Seq(BlockOf) /\ f.current \notin ToSet(f.todo)
    BY <1>1, <1>4 DEF Shape, NO_BLOCK
  <2>4. \A i, j \in 1 .. Len(f.todo) : f.todo[i] = f.todo[j] => i = j
    BY <1>1 DEF Kept
  <2> QED BY <1>1, <1>2, <1>3, <1>5, <2>1, <2>2, <2>3, <2>4 DEF Loop, f
<1>7. Left(f) = 3 * Len(pendingFrees)
  <2>1. Len(pendingFrees) \in Nat
    BY DEF Shape
  <2> QED BY <1>1, <2>1 DEF Left
<1> QED BY <1>6, <1>7 DEF f

\* Every round keeps Loop, and until the loops have ended leaves less to do.
LEMMA LoopGoesOn ==
    ASSUME NEW f, NEW S, NEW M, Loop(f, S, M)
    PROVE  /\ \E Q : Loop(FreeNext(f), Q, M)
           /\ Left(f) \in Nat
           /\ Done(f) => FreeNext(f) = f
           /\ ~Done(f) => Left(FreeNext(f)) + 1 <= Left(f)
<1> DEFINE r == RawOf(f)
           p == f.current
           c == r[p].next
           g == FreeNext(f)
           q == RawOf(g)
<1>1. /\ f = [staged |-> f.staged, head |-> f.head, current |-> f.current, todo |-> f.todo]
      /\ f.todo \in Seq(BlockOf) /\ Len(f.todo) \in Nat /\ Left(f) \in Nat
  BY DEF Loop, Left
<1>2. CASE p # NO_BLOCK
  <2>1. p \in PendingOf(f) /\ Sound(r, f.head, blobs, PendingOf(f), S)
    BY <1>2 DEF PendingOf, Loop
  <2>2. p \in BlockOf /\ Freeable(r, p) /\ p \in BlockId
    BY <2>1 DEF Sound, Apart, Heads, BlockOf
  <2>3. c = (IF p \in DOMAIN f.staged THEN f.staged[p] ELSE ReadRawBlock[p]).next
    BY <2>2 DEF RawOf
  <2>4. g = [f EXCEPT !.staged = Onto(At(p, FileBlock(f.head, Nil, 0)), f.staged),
                      !.head = p, !.current = c]
    BY <1>2, <2>3 DEF FreeNext
  <2>5. /\ g.staged = Onto(At(p, FileBlock(f.head, Nil, 0)), f.staged)
        /\ g.head = p /\ g.current = c /\ g.todo = f.todo
        /\ g = [staged |-> g.staged, head |-> g.head, current |-> g.current, todo |-> g.todo]
    <3> HIDE DEF c
    <3> QED BY <1>1, <2>4
  <2> HIDE DEF g
  <2>6. /\ DOMAIN g.staged = DOMAIN f.staged \cup {p}
        /\ g.staged[p] = FileBlock(f.head, Nil, 0)
        /\ \A y \in DOMAIN f.staged \ {p} : g.staged[y] = f.staged[y]
    BY <2>5 DEF Onto, At
  <2>7. q[p].next = f.head /\ \A y \in BlockId \ {p} : q[y] = r[y]
    <3>1. q[p] = FileBlock(f.head, Nil, 0)
      BY <2>2, <2>6 DEF RawOf
    <3>2. \A y \in BlockId \ {p} : q[y] = r[y]
      BY <2>6 DEF RawOf
    <3> QED BY <3>1, <3>2 DEF FileBlock
  <2> HIDE DEF r, q, c, p
  <2> DEFINE next == {c} \ {NO_BLOCK}
             P == PendingOf(f)
             Q == (P \ {p}) \cup next
  <2>8. /\ Sound(q, p, blobs, Q, S \cup {p})
        /\ Met(q, Heads(blobs, Q), S \cup {p}) = Met(r, Heads(blobs, P), S)
        /\ \A x \in Heads(blobs, P) \ {p} : Uses(q, x) = Uses(r, x)
        /\ c \notin Heads(blobs, P)
        /\ \A x \in next : Uses(q, x) = {x} /\ q[x].next = NO_BLOCK
        /\ next \subseteq BlockOf /\ p \notin next
    <3>1. \A y \in BlockOf \ {p} : q[y] = r[y]
      BY <2>7 DEF BlockOf
    <3>2. q[p].next = f.head
      BY <2>7
    <3> HIDE DEF P
    <3>3. p \in P /\ Sound(r, f.head, blobs, P, S)
      BY <2>1 DEF P
    <3>4. OneFreed(r, q, blobs, P, S, p)
      BY <3>1, <3>2, <3>3, FreedOne
    <3> QED BY <3>4 DEF OneFreed, c
  <2>9. PendingOf(g) = Q
    <3>1. p \notin ToSet(f.todo)
      BY DEF Loop, p
    <3>2. P \ {p} = ToSet(f.todo)
      BY <3>1 DEF PendingOf, p
    <3> QED BY <2>5, <3>2 DEF PendingOf
  <2>10. c \notin ToSet(f.todo)
    BY <2>8 DEF Heads, PendingOf
  <2>11. p \in M /\ 0 \notin BlockOf
    <3>1. \A x \in Heads(blobs, P) : x \in Met(r, Heads(blobs, P), S)
      BY <2>1, SoundFacts
    <3>2. Met(r, Heads(blobs, P), S) = M
      BY DEF Loop, r
    <3> QED BY <2>1, <3>1, <3>2 DEF Heads, BlockOf, NO_BLOCK
  <2>12. \A x \in P : Uses(r, x) \cap Batch = {}
    BY DEF Loop, r
  <2>13. p \notin Batch /\ next \cap Batch = {}
    <3>1. Uses(r, p) = {p} \cup next
      BY <2>2 DEF Uses, c, BlockOf
    <3> QED BY <2>1, <2>12, <3>1
  <2>14. \A x \in Q : Uses(q, x) \cap Batch = {}
    BY <2>8, <2>12, <2>13 DEF Heads
  <2>15. Loop(g, S \cup {p}, M)
    <3> HIDE DEF P, Q, next
    <3>1. /\ Sound(q, g.head, blobs, PendingOf(g), S \cup {p})
          /\ Met(q, Heads(blobs, PendingOf(g)), S \cup {p}) = M
      <4>1. Met(r, Heads(blobs, P), S) = M
        BY DEF Loop, r, P
      <4> QED BY <2>5, <2>8, <2>9, <4>1
    <3>2. /\ DOMAIN g.staged \subseteq BlockId /\ Staged \subseteq DOMAIN g.staged
          /\ DOMAIN g.staged \ Staged \subseteq M /\ DOMAIN g.staged \cap Batch = {}
      BY <2>2, <2>6, <2>11, <2>13 DEF Loop
    <3>3. q[0] = ReadRawBlock[0]
      <4>1. 0 \in BlockId \ {p}
        BY <2>2, <2>11, BlockAssumption DEF BlockId
      <4> QED BY <2>7, <4>1 DEF Loop, r
    <3>4. \A x \in PendingOf(g) : Uses(q, x) \cap Batch = {}
      BY <2>9, <2>14
    <3>5. /\ g.todo \in Seq(BlockOf) /\ g.current \notin ToSet(g.todo)
          /\ \A i, j \in 1 .. Len(g.todo) : g.todo[i] = g.todo[j] => i = j
      BY <2>5, <2>10 DEF Loop
    <3>6. pendingFrees # <<>>
      <4>1. ToFree.current = NO_BLOCK
        BY DEF ToFree
      <4> QED BY <1>2, <4>1 DEF Loop, p
    <3> QED BY <2>5, <3>1, <3>2, <3>3, <3>4, <3>5, <3>6 DEF Loop, q
  <2>16. ~Done(f)
    BY <1>2 DEF Done, p
  <2>17. Left(g) + 1 <= Left(f)
    <3>1. Left(f) = 3 * Len(f.todo) + IF c = NO_BLOCK THEN 1 ELSE 2
      BY <1>2 DEF Left, r, p, c
    <3>2. Left(g) = 3 * Len(f.todo) + IF c = NO_BLOCK THEN 0 ELSE 1
      <4>1. c # NO_BLOCK => q[c].next = NO_BLOCK
        BY <2>8
      <4> QED BY <2>5, <4>1 DEF Left, q
    <3> QED BY <1>1, <3>1, <3>2
  <2> QED BY <1>1, <2>15, <2>16, <2>17 DEF g
<1>3. CASE p = NO_BLOCK /\ f.todo # <<>>
  <2>1. g = [f EXCEPT !.current = Head(f.todo), !.todo = Tail(f.todo)]
    BY <1>3 DEF FreeNext
  <2>2. /\ g.staged = f.staged /\ g.head = f.head
        /\ g.current = Head(f.todo) /\ g.todo = Tail(f.todo)
        /\ g = [staged |-> g.staged, head |-> g.head, current |-> g.current, todo |-> g.todo]
    BY <1>1, <2>1
  <2> DEFINE s == f.todo
             h == Head(s)
             t == Tail(s)
             m == Len(s)
  <2>3. /\ m \in Nat /\ m > 0 /\ h = s[1] /\ h \in BlockOf
        /\ t \in Seq(BlockOf) /\ Len(t) = m - 1
        /\ \A i \in 1 .. m - 1 : t[i] = s[i + 1]
    BY <1>1, <1>3
  <2>4. \A i, j \in 1 .. m : s[i] = s[j] => i = j
    BY DEF Loop
  <2>5. ToSet(s) = {s[i] : i \in 1 .. m} /\ ToSet(t) = {t[i] : i \in 1 .. m - 1}
    <3>1. DOMAIN s = 1 .. m /\ DOMAIN t = 1 .. m - 1
      BY <1>1, <2>3
    <3> QED BY <3>1 DEF ToSet
  <2> HIDE DEF g, h, t, m
  <2>6. \A i \in 1 .. m - 1 : i + 1 \in 1 .. m /\ i + 1 # 1 /\ 1 \in 1 .. m
    BY <2>3
  <2>7. h \notin ToSet(t)
    BY <2>3, <2>4, <2>5, <2>6
  <2>8. \A i, j \in 1 .. m - 1 : t[i] = t[j] => i = j
    <3> TAKE i, j \in 1 .. m - 1
    <3>1. t[i] = t[j] => i + 1 = j + 1
      BY <2>3, <2>4, <2>6
    <3> QED BY <3>1
  <2>9. ToSet(s) = ToSet(t) \cup {h}
    <3>1. \A i \in 1 .. m : i = 1 \/ (i - 1 \in 1 .. m - 1 /\ t[i - 1] = s[i])
      BY <2>3
    <3>2. 1 \in 1 .. m
      BY <2>3
    <3>3. ASSUME NEW x \in ToSet(s) PROVE x \in ToSet(t) \cup {h}
      <4>1. PICK i \in 1 .. m : x = s[i]
        BY <2>5
      <4> QED BY <2>3, <2>5, <3>1, <4>1
    <3>4. ASSUME NEW x \in ToSet(t) PROVE x \in ToSet(s)
      <4>1. PICK i \in 1 .. m - 1 : x = t[i]
        BY <2>5
      <4> QED BY <2>3, <2>5, <2>6, <4>1
    <3> QED BY <2>3, <2>5, <3>2, <3>3, <3>4
  <2>10. h # NO_BLOCK
    BY <2>3 DEF BlockOf
  <2>11. PendingOf(g) = PendingOf(f) /\ q = r
    <3>1. PendingOf(f) = ToSet(s)
      BY <1>3 DEF PendingOf
    <3>2. PendingOf(g) = ToSet(t) \cup {h}
      BY <2>2, <2>10 DEF PendingOf, h, t
    <3> QED BY <2>2, <2>9, <3>1, <3>2 DEF RawOf
  <2>12. Loop(g, S, M)
    <3>1. /\ g.todo \in Seq(BlockOf) /\ g.current \notin ToSet(g.todo)
          /\ \A i, j \in 1 .. Len(g.todo) : g.todo[i] = g.todo[j] => i = j
      BY <2>2, <2>3, <2>7, <2>8 DEF h, t
    <3>2. pendingFrees # <<>>
      <4>1. ToFree.todo = pendingFrees
        BY DEF ToFree
      <4> QED BY <1>3, <4>1 DEF Loop
    <3> QED BY <2>2, <2>11, <3>1, <3>2 DEF Loop
  <2>13. ~Done(f)
    BY <1>3 DEF Done
  <2>14. Left(g) + 1 <= Left(f)
    <3>1. Left(f) = 3 * m
      BY <1>3, <2>3 DEF Left, m
    <3>2. Left(g) <= 3 * (m - 1) + 2 /\ Left(g) \in Nat
      <4>1. Len(g.todo) = m - 1
        BY <2>2, <2>3 DEF t
      <4> QED BY <2>3, <4>1 DEF Left
    <3> QED BY <2>3, <3>1, <3>2
  <2> QED BY <1>1, <2>12, <2>13, <2>14 DEF g
<1>4. CASE p = NO_BLOCK /\ f.todo = <<>>
  <2>1. g = f /\ Done(f)
    BY <1>4 DEF FreeNext, Done
  <2> QED BY <1>1, <2>1
<1> QED BY <1>2, <1>3, <1>4

\* The first n rounds, and that there are such.
AfterRounds(n, g) == g = [j \in 0 .. n |-> IF j = 0 THEN ToFree ELSE FreeNext(g[j - 1])]

LEMMA AfterRoundsExist ==
    ASSUME NEW i \in Nat
    PROVE  \E g : AfterRounds(i, g)
<1> DEFINE Missing == {k \in Nat : \A g : ~ AfterRounds(k, g)}
<1>1. SUFFICES ASSUME Missing # {} PROVE FALSE
  OBVIOUS
<1>2. PICK m \in Missing : \A k \in Missing : m <= k
  BY <1>1, LeastExists
<1>3. CASE m = 0
  <2>1. AfterRounds(0, [j \in 0 .. 0 |-> ToFree])
    BY DEF AfterRounds
  <2> QED BY <1>3, <2>1
<1>4. CASE m # 0
  <2>1. m - 1 \in Nat /\ m - 1 \notin Missing
    BY <1>2, <1>4
  <2>2. PICK h : AfterRounds(m - 1, h)
    BY <2>1
  <2> DEFINE g == [j \in 0 .. m |-> IF j = m THEN FreeNext(h[m - 1]) ELSE h[j]]
  <2>3. \A j \in 0 .. m - 1 : g[j] = IF j = 0 THEN ToFree ELSE FreeNext(g[j - 1])
    BY <1>4, <2>1, <2>2 DEF AfterRounds
  <2>4. g[m] = FreeNext(g[m - 1])
    BY <1>4, <2>1
  <2>5. \A j \in 0 .. m : g[j] = IF j = 0 THEN ToFree ELSE FreeNext(g[j - 1])
    <3> HIDE DEF g
    <3>1. m \in Nat /\ \A j \in 0 .. m : j \in 0 .. m - 1 \/ j = m
      BY <2>1
    <3> QED BY <1>4, <2>3, <2>4, <3>1
  <2>6. \E f : f = g
    OBVIOUS
  <2>7. PICK f : f = g
    BY <2>6
  <2>8. f = [j \in 0 .. m |-> f[j]]
    BY <2>7
  <2> HIDE DEF g
  <2>9. AfterRounds(m, f)
    BY <2>5, <2>7, <2>8 DEF AfterRounds
  <2> QED BY <2>9
<1> QED BY <1>3, <1>4

\* Pending frees are blocks, each once: there are no more of them than blocks.
LEMMA FewToFree ==
    ASSUME Shape, NEW S, Kept(S)
    PROVE  Len(pendingFrees) \in Nat /\ Len(pendingFrees) <= LastBlock
<1> DEFINE n == Len(pendingFrees)
<1>1. n \in Nat /\ pendingFrees \in [1 .. n -> BlockOf] /\ LastBlock \in Nat
  BY BlockAssumption DEF Shape
<1>2. BlockOf = 1 .. LastBlock
  BY <1>1 DEF BlockOf, BlockId, NO_BLOCK
<1> HIDE DEF n
<1>3. pendingFrees \in Injection(1 .. n, 1 .. LastBlock)
  BY <1>1, <1>2 DEF Kept, Injection, IsInjective, n
<1>4. IsFiniteSet(1 .. LastBlock) /\ Cardinality(1 .. LastBlock) = LastBlock
  <2>1. /\ IsFiniteSet(1 .. LastBlock)
        /\ Cardinality(1 .. LastBlock) = IF 1 > LastBlock THEN 0 ELSE LastBlock - 1 + 1
    BY <1>1, FS_Interval
  <2> QED BY <1>1, <2>1
<1>5. Cardinality(1 .. n) <= Cardinality(1 .. LastBlock)
  BY <1>3, <1>4, FS_Injection
<1>6. Cardinality(1 .. n) = n
  <2>1. Cardinality(1 .. n) = IF 1 > n THEN 0 ELSE n - 1 + 1
    BY <1>1, FS_Interval
  <2> QED BY <1>1, <2>1
<1> QED BY <1>1, <1>4, <1>5, <1>6 DEF n

\* Each round leaves less to do, so that Rounds of them do it all.
LEMMA FreedIs ==
    ASSUME Shape, NEW S0, Kept(S0)
    PROVE  \E S : Loop(Freed, S, Taken(S0)) /\ Done(Freed)
<1> DEFINE M == Taken(S0)
           n == Len(pendingFrees)
           Good(j, f) == \E S : Loop(f, S, M) /\ (Done(f) \/ Left(f) + j <= 3 * n)
<1>1. Rounds \in Nat /\ n \in Nat /\ 3 * n < Rounds
  BY FewToFree, BlockAssumption DEF Rounds
<1> DEFINE g == CHOOSE D : D = [j \in 0 .. Rounds |-> IF j = 0 THEN ToFree ELSE FreeNext(D[j - 1])]
<1>2. Freed = g[Rounds]
  BY DEF Freed
<1>3. AfterRounds(Rounds, g)
  <2>1. \E D : D = [j \in 0 .. Rounds |-> IF j = 0 THEN ToFree ELSE FreeNext(D[j - 1])]
    BY <1>1, AfterRoundsExist DEF AfterRounds
  <2> QED BY <2>1 DEF AfterRounds
<1> HIDE DEF g
<1>4. g[0] = ToFree /\ \A j \in 1 .. Rounds : g[j] = FreeNext(g[j - 1])
  BY <1>1, <1>3 DEF AfterRounds
<1>5. \A j \in 0 .. Rounds : Good(j, g[j])
  <2> DEFINE Bad == {j \in 0 .. Rounds : ~ Good(j, g[j])}
  <2>1. SUFFICES ASSUME Bad # {} PROVE FALSE
    OBVIOUS
  <2>2. PICK j \in Bad : \A k \in Bad : j <= k
    <3>1. Bad \in SUBSET Nat
      OBVIOUS
    <3> HIDE DEF Bad
    <3> QED BY <2>1, <3>1, LeastExists
  <2>3. j # 0
    <3>1. Loop(g[0], S0, M) /\ Left(g[0]) = 3 * n
      BY <1>4, LoopStarts
    <3>2. Good(0, g[0])
      BY <1>1, <3>1
    <3> QED BY <3>2
  <2>4. j \in 1 .. Rounds /\ j - 1 \in 0 .. Rounds /\ j - 1 < j
    BY <1>1, <2>3
  <2>5. Good(j - 1, g[j - 1])
    BY <2>2, <2>4
  <2> DEFINE f == g[j - 1]
  <2>6. PICK S : Loop(f, S, M) /\ (Done(f) \/ Left(f) + (j - 1) <= 3 * n)
    BY <2>5
  <2>7. g[j] = FreeNext(f)
    BY <1>4, <2>4
  <2> HIDE DEF f, M, n
  <2>8. /\ \E Q : Loop(FreeNext(f), Q, M)
        /\ Left(f) \in Nat
        /\ Done(f) => FreeNext(f) = f
        /\ ~Done(f) => Left(FreeNext(f)) + 1 <= Left(f)
    BY <2>6, LoopGoesOn
  <2>9. PICK Q : Loop(FreeNext(f), Q, M)
    BY <2>8
  <2>10. Left(FreeNext(f)) \in Nat
    BY <2>9, LoopGoesOn
  <2>11. Done(FreeNext(f)) \/ Left(FreeNext(f)) + j <= 3 * n
    <3>1. CASE Done(f)
      BY <2>8, <3>1
    <3>2. CASE ~Done(f)
      BY <1>1, <2>4, <2>6, <2>8, <2>10, <3>2
    <3> QED BY <3>1, <3>2
  <2>12. Good(j, g[j])
    BY <2>7, <2>9, <2>11
  <2> QED BY <2>12
<1>6. PICK S : Loop(Freed, S, M) /\ (Done(Freed) \/ Left(Freed) + Rounds <= 3 * n)
  BY <1>1, <1>2, <1>5
<1>7. Left(Freed) \in Nat
  BY <1>6, LoopGoesOn
<1> QED BY <1>1, <1>6, <1>7

\* What a read gives once commit has staged what it writes.
ReadPrepared ==
    [b \in BlockId |-> IF b \in DOMAIN Prepared THEN Prepared[b] ELSE ReadRawBlock[b]]

\* Of the blocks taken before, S0 in the free list, commit leaves S in it, and
\* nothing to free.
Readied(S0, S) ==
    /\ Sound(ReadPrepared, Freed.head, blobs, {}, S)
    /\ Met(ReadPrepared, Heads(blobs, {}), S) = Taken(S0)
    /\ 0 \in DOMAIN Prepared /\ Prepared[0] = FileBlock(Freed.head, header.data, 0)
    /\ DOMAIN Prepared \subseteq BlockId /\ Staged \subseteq DOMAIN Prepared
    /\ DOMAIN Prepared \ {0} \subseteq Taken(S0) /\ DOMAIN Prepared \cap Batch = {}

\* What commit stages keeps the blobs and frees those to free.
LEMMA PreparedIs ==
    ASSUME Shape, NEW S0, Kept(S0)
    PROVE  \E S : Readied(S0, S)
<1> DEFINE f == Freed
           r == RawOf(f)
           q == ReadPrepared
           M == Taken(S0)
<1>1. PICK S : Loop(f, S, M) /\ Done(f)
  BY FreedIs
<1>2. header = FileBlock(header.next, header.data, 0) /\ 0 \in BlockId /\ 0 \notin BlockOf
      /\ ReadRawBlock[0] = header
  BY BlockAssumption DEF Shape, Kept, BlockId, BlockOf, NO_BLOCK
<1>3. Prepared = IF pendingFrees # <<>> \/ 0 \notin DOMAIN stagedWrites
                 THEN WithHead(f.staged, f.head) ELSE stagedWrites
  BY DEF Prepared
<1>4. PendingOf(f) = {}
  BY <1>1 DEF PendingOf, Done, ToSet
<1> HIDE DEF f
<1>5. /\ Sound(r, f.head, blobs, {}, S) /\ Met(r, Heads(blobs, {}), S) = M
      /\ DOMAIN f.staged \subseteq BlockId /\ Staged \subseteq DOMAIN f.staged
      /\ DOMAIN f.staged \ Staged \subseteq M /\ DOMAIN f.staged \cap Batch = {}
      /\ (pendingFrees = <<>> => f = ToFree)
  BY <1>1, <1>4 DEF Loop
<1>6. Staged \ {0} \subseteq M /\ 0 \notin Batch
  BY DEF Kept
<1>7. /\ DOMAIN Prepared = DOMAIN f.staged \cup {0}
      /\ Prepared[0] = FileBlock(f.head, header.data, 0)
      /\ \A y \in DOMAIN f.staged \ {0} : Prepared[y] = f.staged[y]
  <2>1. CASE pendingFrees # <<>> \/ 0 \notin DOMAIN stagedWrites
    <3> DEFINE v == [header EXCEPT !.next = f.head]
    <3>1. v = FileBlock(f.head, header.data, 0)
      BY <1>2 DEF FileBlock
    <3> HIDE DEF v
    <3>2. Prepared = Onto(At(0, v), f.staged)
      BY <1>3, <2>1 DEF WithHead, v
    <3> QED BY <3>1, <3>2 DEF Onto, At
  <2>2. CASE pendingFrees = <<>> /\ 0 \in DOMAIN stagedWrites
    <3>1. Prepared = stagedWrites /\ f = ToFree
      BY <1>3, <1>5, <2>2
    <3>2. f.staged = stagedWrites /\ f.head = header.next
      BY <3>1 DEF ToFree
    <3>3. stagedWrites[0] = header
      BY <1>2, <2>2 DEF ReadRawBlock
    <3> QED BY <1>2, <2>2, <3>1, <3>2, <3>3
  <2> QED BY <2>1, <2>2
<1>8. \A y \in BlockOf : q[y] = r[y]
  BY <1>2, <1>7 DEF ReadPrepared, RawOf, BlockOf
<1>9. /\ Sound(q, f.head, blobs, {}, S)
      /\ Met(q, Heads(blobs, {}), S) = Met(r, Heads(blobs, {}), S)
  <2>1. Met(r, Heads(blobs, {}), S) \subseteq BlockOf
    BY <1>5, SoundFacts
  <2>2. \A y \in Met(r, Heads(blobs, {}), S) : q[y] = r[y]
    BY <1>8, <2>1
  <2> HIDE DEF q, r
  <2> QED BY <1>5, <2>2, Framed
<1>10. Readied(S0, S)
  BY <1>2, <1>5, <1>6, <1>7, <1>9 DEF Readied, f
<1> QED BY <1>10

\* commit extends the file to the last block known and writes them all.
LEMMA WrittenIs ==
    ASSUME Shape, NEW S0, Kept(S0), NEW S, Readied(S0, S), NEW m \in 0 .. LastBlock, Known = 0 .. m
    PROVE  /\ Extended = [b \in 0 .. m |-> OnFile[b]]
           /\ Written(Extended) = [b \in 0 .. m |-> ReadPrepared[b]]
           /\ \A b \in BlockId \ (0 .. m) : ReadPrepared[b] = Zeros /\ OnFile[b] = Zeros
           /\ \A b \in BlockId : ReadPrepared[b] = IF b \in DOMAIN Prepared THEN Prepared[b]
                                                   ELSE IF b \in Batch THEN stagedBatch[b]
                                                   ELSE OnFile[b]
           /\ DOMAIN Prepared \subseteq 0 .. m /\ DOMAIN blockFile \subseteq 0 .. m
           /\ 0 .. m \subseteq BlockId
<1>1. LastBlock \in Nat /\ m \in Nat /\ 0 .. m \subseteq BlockId
  BY BlockAssumption DEF BlockId
<1>2. DOMAIN Prepared \subseteq Known /\ Staged \subseteq DOMAIN Prepared
      /\ DOMAIN Prepared \cap Batch = {}
  <2>1. Taken(S0) \subseteq Known /\ 0 \in Known
    BY <1>1 DEF Kept
  <2> QED BY <2>1 DEF Readied
<1>3. DOMAIN blockFile \cup DOMAIN Prepared \cup DOMAIN stagedBatch = 0 .. m
  BY <1>2 DEF Known, Batch
<1>4. SetMax(0 .. m) = m
  <2>1. m \in 0 .. m /\ \A y \in 0 .. m : y <= m
    BY <1>1
  <2>2. \A x \in 0 .. m : (\A y \in 0 .. m : y <= x) => x = m
    BY <1>1
  <2> QED BY <2>1, <2>2 DEF SetMax
<1>5. Extended = [b \in 0 .. m |-> OnFile[b]]
  BY <1>3, <1>4 DEF Extended
<1>6. \A b \in BlockId : ReadPrepared[b] = IF b \in DOMAIN Prepared THEN Prepared[b]
                                           ELSE IF b \in Batch THEN stagedBatch[b]
                                           ELSE OnFile[b]
  BY <1>2 DEF ReadPrepared, ReadRawBlock, OnFile, Staged, Batch
<1>7. \A b \in BlockId \ (0 .. m) : OnFile[b] = Zeros
  BY <1>3 DEF OnFile
<1>8. \A b \in BlockId \ (0 .. m) : ReadPrepared[b] = Zeros
  BY <1>3, <1>6, <1>7 DEF Batch
<1>9. Written(Extended) = [b \in 0 .. m |-> ReadPrepared[b]]
  <2> DEFINE W == Onto(Prepared, Extended)
  <2>1. DOMAIN W = 0 .. m
        /\ \A b \in 0 .. m : W[b] = IF b \in DOMAIN Prepared THEN Prepared[b] ELSE OnFile[b]
    BY <1>3, <1>5 DEF Onto
  <2> HIDE DEF W
  <2>2. Written(Extended) = Onto(stagedBatch, W)
    BY DEF Written, W
  <2>3. Onto(stagedBatch, W) = [b \in 0 .. m |-> IF b \in Batch THEN stagedBatch[b] ELSE W[b]]
    BY <1>3, <2>1 DEF Onto, Batch
  <2>4. \A b \in 0 .. m : (IF b \in Batch THEN stagedBatch[b] ELSE W[b]) = ReadPrepared[b]
    BY <1>1, <1>2, <1>6, <2>1
  <2> QED BY <2>2, <2>3, <2>4
<1> QED BY <1>1, <1>2, <1>3, <1>5, <1>6, <1>7, <1>8, <1>9

\* The writes applied: the file holds what the callers see.
LEMMA FileWritten ==
    ASSUME Shape, header.data = blobs[0], NEW S0, Kept(S0), NEW S, Readied(S0, S),
           blockFile' = Written(Extended), saved' = blobs,
           abandoned \ (DOMAIN Prepared \cup Batch) \subseteq abandoned'
    PROVE  /\ FileKept(S)' /\ OnFile' = ReadPrepared
           /\ OnFile'[0] = FileBlock(Freed.head, header.data, 0)
           /\ DOMAIN blockFile' = Known
           /\ blockFile' = [b \in DOMAIN blockFile' |-> blockFile'[b]]
           /\ \E m \in 0 .. LastBlock : Known = 0 .. m
<1> DEFINE q == ReadPrepared
<1>1. PICK m \in 0 .. LastBlock : Known = 0 .. m
  BY DEF Kept
<1>2. /\ Written(Extended) = [b \in 0 .. m |-> q[b]]
      /\ \A b \in BlockId \ (0 .. m) : q[b] = Zeros
      /\ 0 .. m \subseteq BlockId
  BY <1>1, WrittenIs
<1>3. /\ DOMAIN blockFile' = 0 .. m /\ \A b \in 0 .. m : blockFile'[b] = q[b]
      /\ blockFile' = [b \in DOMAIN blockFile' |-> blockFile'[b]]
  <2> HIDE DEF q
  <2> QED BY <1>2
<1>4. OnFile' = q
  <2>1. OnFile' = [b \in BlockId |-> IF b \in DOMAIN blockFile' THEN blockFile'[b] ELSE Zeros]
    BY DEF OnFile
  <2>2. q = [b \in BlockId |-> q[b]]
    BY DEF ReadPrepared
  <2> HIDE DEF q
  <2>3. \A b \in BlockId : (IF b \in DOMAIN blockFile' THEN blockFile'[b] ELSE Zeros) = q[b]
    BY <1>2, <1>3
  <2> QED BY <2>1, <2>2, <2>3
<1>5. q[0] = FileBlock(Freed.head, header.data, 0)
  <2>1. 0 \in BlockId
    BY BlockAssumption DEF BlockId
  <2> QED BY <2>1 DEF ReadPrepared, Readied
<1> HIDE DEF q
<1>6. FileKept(S)'
  <2>1. (OnFile[0])' = q[0] /\ (OnFile[0].next)' = Freed.head
    BY <1>4, <1>5 DEF FileBlock
  <2>2. Sound(OnFile, OnFile[0].next, saved, {}, S)'
    BY <1>4, <2>1 DEF Readied, q
  <2>3. Met(OnFile, Heads(saved, {}), S)' = Taken(S0)
    BY <1>4 DEF Readied, q
  <2>4. Taken(S0) \subseteq Known /\ Known \ {0} \subseteq Taken(S0) \cup abandoned
        /\ Batch \ {0} \subseteq Taken(S0) /\ DOMAIN Prepared \ {0} \subseteq Taken(S0)
    BY DEF Kept, Readied
  <2>5. Known \ {0} \subseteq Taken(S0) \cup abandoned'
    BY <2>4
  <2>6. (OnFile[0] = FileBlock(OnFile[0].next, saved[0], 0))'
    BY <1>5, <2>1
  <2> QED BY <1>1, <1>3, <2>2, <2>3, <2>4, <2>5, <2>6 DEF FileKept
<1> QED BY <1>1, <1>3, <1>4, <1>5, <1>6 DEF q

\* Nothing is staged and the callers see what the file holds.
OnFileAlone(S) ==
    /\ FileKept(S) /\ ReadRawBlock = OnFile /\ header = OnFile[0] /\ blobs = saved
    /\ Staged \subseteq {0} /\ Batch = {} /\ pendingFrees = <<>> /\ 0 \in DOMAIN saved
    /\ \E m \in 0 .. LastBlock : Known = 0 .. m
    /\ \E k \in -1 .. LastBlock : DOMAIN blockFile = 0 .. k
    /\ blockFile = [b \in DOMAIN blockFile |-> blockFile[b]]

Alone == \E S : OnFileAlone(S)

\* So it is after a commit and after an opening, and the invariant holds then.
LEMMA AloneIsKept == Alone => BlockInv
<1> SUFFICES ASSUME NEW S, OnFileAlone(S) PROVE BlockInv
  BY DEF Alone
<1>0. /\ FileKept(S) /\ ReadRawBlock = OnFile /\ header = OnFile[0] /\ blobs = saved
      /\ Staged \subseteq {0} /\ Batch = {} /\ pendingFrees = <<>> /\ 0 \in DOMAIN saved
      /\ (\E m \in 0 .. LastBlock : Known = 0 .. m)
      /\ (\E k \in -1 .. LastBlock : DOMAIN blockFile = 0 .. k)
      /\ blockFile = [b \in DOMAIN blockFile |-> blockFile[b]]
  BY DEF OnFileAlone
<1>1. 0 \in BlockId /\ 0 \notin BlockOf
  BY BlockAssumption DEF BlockId, BlockOf, NO_BLOCK
<1>2. Pending = {} /\ pendingFrees \in Seq(BlockOf) /\ Len(pendingFrees) = 0
  BY <1>0 DEF Pending, ToSet
<1>3. header = FileBlock(header.next, header.data, 0) /\ header.data = blobs[0]
  BY <1>0 DEF FileKept, FileBlock
<1>4. Shape
  BY <1>0, <1>1, <1>2, <1>3 DEF Shape
<1>5. Sound(ReadRawBlock, header.next, blobs, Pending, S)
  BY <1>0, <1>2 DEF FileKept
<1>6. S \subseteq BlockOf /\ Heads(blobs, Pending) \subseteq BlockOf
  BY <1>5, SoundFacts
<1>7. Taken(S) \subseteq Known /\ Known \ {0} \subseteq Taken(S) \cup abandoned
  <2>1. Taken(S) = Met(OnFile, Heads(saved, {}), S)
    BY <1>0, <1>2 DEF Taken
  <2>2. DOMAIN blockFile \subseteq Known /\ Known \ {0} \subseteq DOMAIN blockFile \ {0}
    BY <1>0 DEF Known
  <2> QED BY <1>0, <2>1, <2>2 DEF FileKept
<1>8. \A x \in DOMAIN saved \ {0} : Uses(OnFile, x) \cap S = {}
  <2>1. \A x \in DOMAIN saved \ {0} : x \in Heads(blobs, Pending)
    BY <1>0 DEF Heads
  <2> QED BY <1>0, <1>5, <2>1 DEF Sound, Apart
<1>9. Kept(S)
  <2>1. \A x \in Heads(blobs, Pending) : x \notin Batch => Uses(ReadRawBlock, x) \cap Batch = {}
    BY <1>0
  <2>2. (Staged \cup Batch) \ {0} \subseteq Taken(S) /\ S \cap (Staged \cup Batch) = {}
        /\ Staged \cap Batch = {} /\ 0 \notin Batch /\ Pending \cap Batch = {}
    BY <1>0, <1>1, <1>6
  <2>3. \A i, j \in 1 .. Len(pendingFrees) : pendingFrees[i] = pendingFrees[j] => i = j
    BY <1>2
  <2> QED BY <1>0, <1>5, <1>7, <1>8, <2>1, <2>2, <2>3 DEF Kept
<1>10. \A b \in DOMAIN blobs \ {0} : b \in BlockOf /\ Holds(ReadRawBlock, b, blobs[b])
  BY <1>9, KeptHolds
<1> QED BY <1>0, <1>3, <1>4, <1>9, <1>10 DEF BlockInv

\* commit makes what the callers see the contents of the file.
LEMMA CommitStep ==
    ASSUME BlockInv, Commit, ~FreesAgain
    PROVE  BlockInv'
<1>1. PICK S0 : Kept(S0)
  BY DEF BlockInv, Commit, Usable
<1>2. Shape /\ header.data = blobs[0]
  BY DEF BlockInv
<1>3. PICK S : Readied(S0, S)
  BY <1>1, <1>2, PreparedIs
<1>4. /\ blockFile' = Written(Extended) /\ header' = [Prepared[0] EXCEPT !.part = 0]
      /\ stagedWrites' = None /\ stagedBatch' = None /\ pendingFrees' = <<>>
      /\ saved' = blobs /\ blobs' = blobs
      /\ abandoned' = abandoned \ (DOMAIN Prepared \cup Batch)
  BY DEF Commit, Batch
<1>5. /\ FileKept(S)' /\ OnFile' = ReadPrepared
      /\ OnFile'[0] = FileBlock(Freed.head, header.data, 0)
      /\ DOMAIN blockFile' = Known
      /\ blockFile' = [b \in DOMAIN blockFile' |-> blockFile'[b]]
  BY <1>1, <1>2, <1>3, <1>4, FileWritten
<1>6. PICK m \in 0 .. LastBlock : Known = 0 .. m
  BY <1>1 DEF Kept
<1>7. Staged' = {} /\ Batch' = {} /\ Known' = 0 .. m
  BY <1>4, <1>5, <1>6 DEF Staged, Batch, Known, None
<1>8. (ReadRawBlock = OnFile)'
  BY <1>7 DEF ReadRawBlock, OnFile, Staged, Batch
<1>9. (header = OnFile[0])'
  <2>1. Prepared[0] = FileBlock(Freed.head, header.data, 0)
    BY <1>3 DEF Readied
  <2>2. header' = FileBlock(Freed.head, header.data, 0)
    BY <1>4, <2>1 DEF FileBlock
  <2> QED BY <1>5, <2>2
<1>10. (0 \in DOMAIN saved)' /\ (\E k \in -1 .. LastBlock : DOMAIN blockFile = 0 .. k)'
  BY <1>2, <1>4, <1>5, <1>6 DEF Shape
<1>11. (Staged \subseteq {0})' /\ (blobs = saved)'
  BY <1>4, <1>7
<1>12. m \in 0 .. LastBlock /\ (Known = 0 .. m)'
  BY <1>7
<1>13. Alone'
  BY <1>4, <1>5, <1>7, <1>8, <1>9, <1>10, <1>11, <1>12 DEF Alone, OnFileAlone
<1> QED BY <1>13, AloneIsKept, PTL

\* Opening shows the callers what the file holds.
LEMMA CrashAndOpenStep ==
    ASSUME BlockInv, CrashAndOpen
    PROVE  BlockInv'
<1>1. PICK S : FileKept(S)
  BY DEF BlockInv
<1>2. /\ header' = OnFile[0] /\ stagedBatch' = None /\ pendingFrees' = <<>> /\ blobs' = saved
      /\ stagedWrites' = IF blockFile = None THEN At(0, Zeros) ELSE None
      /\ UNCHANGED <<blockFile, saved, abandoned>>
  BY DEF CrashAndOpen
<1>3. PICK k \in -1 .. LastBlock : DOMAIN blockFile = 0 .. k
  BY DEF BlockInv, Shape
<1>4. LastBlock \in Nat /\ 0 \in BlockId
  BY BlockAssumption DEF BlockId
<1>5. OnFile' = OnFile /\ FileKept(S)'
  <2>1. OnFile' = OnFile
    BY <1>2 DEF OnFile
  <2> QED BY <1>1, <1>2, <2>1 DEF FileKept
<1>6. Batch' = {} /\ DOMAIN None = {}
  BY <1>2 DEF Batch, None
<1>7. /\ Staged' \subseteq {0} /\ (\E m \in 0 .. LastBlock : Known = 0 .. m)'
      /\ \A b \in Staged' : stagedWrites'[b] = OnFile[b]
  <2>1. CASE blockFile = None
    <3>1. Staged' = {0} /\ stagedWrites'[0] = Zeros
      BY <1>2, <2>1 DEF Staged, At
    <3>2. DOMAIN blockFile' = {} /\ OnFile[0] = Zeros
      BY <1>2, <1>4, <1>6, <2>1 DEF OnFile
    <3>3. Known' = 0 .. 0 /\ 0 \in 0 .. LastBlock
      <4>1. Known' = {0}
        BY <1>6, <3>1, <3>2 DEF Known
      <4> QED BY <1>4, <4>1
    <3> QED BY <3>1, <3>2, <3>3
  <2>2. CASE blockFile # None
    <3>1. Staged' = {}
      BY <1>2, <1>6, <2>2 DEF Staged
    <3>2. k # -1
      <4>1. k = -1 => DOMAIN blockFile = {}
        BY <1>3
      <4>2. blockFile = [b \in DOMAIN blockFile |-> blockFile[b]]
        BY DEF BlockInv, Shape
      <4> QED BY <2>2, <4>1, <4>2 DEF None
    <3>3. Known' = 0 .. k /\ k \in 0 .. LastBlock
      BY <1>2, <1>3, <1>4, <1>6, <3>1, <3>2 DEF Known
    <3> QED BY <3>1, <3>3
  <2> QED BY <2>1, <2>2
<1>8. (ReadRawBlock = OnFile)'
  <2>1. ReadRawBlock' = [b \in BlockId |-> IF b \in Staged' THEN stagedWrites'[b]
                                           ELSE IF b \in DOMAIN blockFile' THEN blockFile'[b]
                                           ELSE Zeros]
    BY <1>6 DEF ReadRawBlock, Staged, Batch
  <2>2. OnFile' = [b \in BlockId |-> IF b \in DOMAIN blockFile' THEN blockFile'[b] ELSE Zeros]
    BY DEF OnFile
  <2>3. \A b \in Staged' : b \in BlockId => stagedWrites'[b] = OnFile'[b]
    BY <1>5, <1>7
  <2> QED BY <2>1, <2>2, <2>3
<1>9. PICK m \in 0 .. LastBlock : (Known = 0 .. m)'
  BY <1>7
<1>10. /\ (0 \in DOMAIN saved)' /\ (\E i \in -1 .. LastBlock : DOMAIN blockFile = 0 .. i)'
       /\ (blockFile = [b \in DOMAIN blockFile |-> blockFile[b]])'
  BY <1>2 DEF BlockInv, Shape
<1>11. (header = OnFile[0])' /\ (blobs = saved)' /\ (Staged \subseteq {0})'
  BY <1>2, <1>5, <1>7
<1>12. Alone'
  BY <1>2, <1>5, <1>6, <1>8, <1>9, <1>10, <1>11 DEF Alone, OnFileAlone
<1> QED BY <1>12, AloneIsKept, PTL

\* Where there is nothing to free, commit stages no more than the header.
LEMMA NothingFreed ==
    ASSUME Shape, NEW S0, Kept(S0), pendingFrees = <<>>
    PROVE  ReadPrepared = ReadRawBlock /\ Freed.head = header.next /\ DOMAIN Prepared = Staged \cup {0}
<1>1. Freed = ToFree
  BY FreedIs DEF Loop
<1>2. Freed.head = header.next /\ Freed.staged = stagedWrites
  BY <1>1 DEF ToFree
<1>3. header = FileBlock(header.next, header.data, 0) /\ ReadRawBlock[0] = header /\ 0 \in BlockId
  BY BlockAssumption DEF Shape, Kept, BlockId
<1>4. /\ DOMAIN Prepared = Staged \cup {0} /\ Prepared[0] = header
      /\ \A b \in Staged \ {0} : Prepared[b] = stagedWrites[b]
  <2>1. CASE 0 \in Staged
    <3>1. Prepared = stagedWrites
      BY <2>1 DEF Prepared, Staged
    <3>2. stagedWrites[0] = header
      BY <1>3, <2>1 DEF ReadRawBlock, Staged
    <3> QED BY <2>1, <3>1, <3>2 DEF Staged
  <2>2. CASE 0 \notin Staged
    <3> DEFINE v == [header EXCEPT !.next = header.next]
    <3>1. v = header
      BY <1>3 DEF FileBlock
    <3>2. Prepared = Onto(At(0, v), stagedWrites)
      BY <1>2, <2>2 DEF Prepared, Staged, WithHead
    <3> HIDE DEF v
    <3> QED BY <3>1, <3>2 DEF Onto, At, Staged
  <2> QED BY <2>1, <2>2
<1>5. \A b \in BlockId : b \in DOMAIN Prepared => Prepared[b] = ReadRawBlock[b]
  BY <1>3, <1>4 DEF ReadRawBlock, Staged
<1>6. ReadRawBlock = [b \in BlockId |-> ReadRawBlock[b]]
  BY DEF ReadRawBlock
<1>7. ReadPrepared = ReadRawBlock
  BY <1>5, <1>6 DEF ReadPrepared
<1> QED BY <1>2, <1>4, <1>7

\* A commit that fails has written all or nothing.
LEMMA CommitFailsStep ==
    ASSUME BlockInv, CommitFails, ~FreesAgain
    PROVE  BlockInv'
<1>1. PICK S0 : Kept(S0)
  BY DEF BlockInv, CommitFails, Usable
<1>2. Shape /\ header.data = blobs[0]
  BY DEF BlockInv
<1>3. PICK S : Readied(S0, S)
  BY <1>1, <1>2, PreparedIs
<1>4. /\ halfFreed' = (pendingFrees # <<>>) /\ header' = [header EXCEPT !.next = Freed.head]
      /\ stagedWrites' = Prepared /\ UNCHANGED <<stagedBatch, pendingFrees, blobs>>
  BY DEF CommitFails
<1>5. \/ /\ blockFile' \in {blockFile, Extended} /\ saved' = saved
         /\ abandoned' = abandoned \cup (DOMAIN blockFile' \ DOMAIN blockFile)
      \/ blockFile' = Written(Extended) /\ saved' = blobs /\ abandoned' = abandoned
  BY DEF CommitFails
<1>6. PICK m \in 0 .. LastBlock : Known = 0 .. m
  BY <1>1 DEF Kept
<1>7. /\ Extended = [b \in 0 .. m |-> OnFile[b]]
      /\ Written(Extended) = [b \in 0 .. m |-> ReadPrepared[b]]
      /\ \A b \in BlockId \ (0 .. m) : ReadPrepared[b] = Zeros /\ OnFile[b] = Zeros
      /\ \A b \in BlockId : ReadPrepared[b] = IF b \in DOMAIN Prepared THEN Prepared[b]
                                              ELSE IF b \in Batch THEN stagedBatch[b]
                                              ELSE OnFile[b]
      /\ DOMAIN blockFile \subseteq 0 .. m
      /\ 0 .. m \subseteq BlockId
  BY <1>1, <1>2, <1>3, <1>6, WrittenIs
<1>8. \/ /\ OnFile' = OnFile /\ saved' = saved /\ DOMAIN blockFile' \in {DOMAIN blockFile, 0 .. m}
         /\ abandoned' = abandoned \cup (DOMAIN blockFile' \ DOMAIN blockFile)
      \/ /\ OnFile' = ReadPrepared /\ FileKept(S)' /\ saved' = blobs /\ DOMAIN blockFile' = 0 .. m
         /\ abandoned' = abandoned
  <2>1. CASE /\ blockFile' = Extended /\ saved' = saved
             /\ abandoned' = abandoned \cup (DOMAIN blockFile' \ DOMAIN blockFile)
    <3>1. DOMAIN blockFile' = 0 .. m /\ \A b \in 0 .. m : blockFile'[b] = OnFile[b]
      BY <1>7, <2>1
    <3>2. OnFile' = [b \in BlockId |-> IF b \in DOMAIN blockFile' THEN blockFile'[b] ELSE Zeros]
          /\ OnFile = [b \in BlockId |-> OnFile[b]]
      BY DEF OnFile
    <3>3. OnFile' = OnFile
      BY <1>7, <3>1, <3>2
    <3> QED BY <2>1, <3>1, <3>3
  <2>2. CASE blockFile' = Written(Extended) /\ saved' = blobs /\ abandoned' = abandoned
    <3>1. FileKept(S)' /\ OnFile' = ReadPrepared /\ DOMAIN blockFile' = Known
      BY <1>1, <1>2, <1>3, <2>2, FileWritten
    <3> QED BY <1>6, <2>2, <3>1
  <2>3. CASE /\ blockFile' = blockFile /\ saved' = saved
             /\ abandoned' = abandoned \cup (DOMAIN blockFile' \ DOMAIN blockFile)
    BY <2>3 DEF OnFile
  <2> QED BY <1>5, <2>1, <2>2, <2>3
<1>9. (\E T : FileKept(T))'
  <2>1. CASE /\ OnFile' = OnFile /\ saved' = saved
             /\ DOMAIN blockFile' \in {DOMAIN blockFile, 0 .. m}
             /\ abandoned' = abandoned \cup (DOMAIN blockFile' \ DOMAIN blockFile)
    <3>1. PICK T : FileKept(T)
      BY DEF BlockInv
    <3>2. FileKept(T)'
      BY <1>7, <2>1, <3>1 DEF FileKept
    <3> QED BY <3>2
  <2>2. CASE FileKept(S)'
    BY <2>2
  <2> QED BY <1>8, <2>1, <2>2
<1>10. Shape'
  <2>1. (\E k \in -1 .. LastBlock : DOMAIN blockFile = 0 .. k)' /\ (0 \in DOMAIN saved)'
    BY <1>2, <1>6, <1>8 DEF Shape
  <2>2. (blockFile = [b \in DOMAIN blockFile |-> blockFile[b]])'
    <3>1. CASE blockFile' = [b \in 0 .. m |-> OnFile[b]]
      BY <3>1
    <3>2. CASE blockFile' = [b \in 0 .. m |-> ReadPrepared[b]]
      BY <3>2
    <3>3. CASE blockFile' = blockFile
      BY <1>2, <3>3 DEF Shape
    <3> QED BY <1>5, <1>7, <3>1, <3>2, <3>3
  <2>3. (header = FileBlock(header.next, header.data, 0))'
    BY <1>2, <1>4 DEF Shape, FileBlock
  <2>4. (Staged \subseteq BlockId /\ Batch \subseteq BlockId)'
    BY <1>2, <1>3, <1>4 DEF Shape, Staged, Batch, Readied
  <2>5. (pendingFrees \in Seq(BlockOf) /\ 0 \in DOMAIN blobs)'
    BY <1>2, <1>4 DEF Shape
  <2> QED BY <2>1, <2>2, <2>3, <2>4, <2>5 DEF Shape
<1>11. ReadRawBlock' = ReadPrepared
  <2>1. ReadRawBlock' = [b \in BlockId |-> IF b \in DOMAIN Prepared THEN Prepared[b]
                                           ELSE IF b \in Batch THEN stagedBatch[b]
                                           ELSE OnFile'[b]]
    BY <1>4 DEF ReadRawBlock, OnFile, Batch
  <2>2. ReadPrepared = [b \in BlockId |-> ReadPrepared[b]]
    BY DEF ReadPrepared
  <2>3. \A b \in BlockId : OnFile'[b] = OnFile[b] \/ OnFile'[b] = ReadPrepared[b]
    BY <1>8
  <2>4. \A b \in BlockId : (IF b \in DOMAIN Prepared THEN Prepared[b]
                            ELSE IF b \in Batch THEN stagedBatch[b]
                            ELSE OnFile'[b]) = ReadPrepared[b]
    BY <1>7, <2>3
  <2> QED BY <2>1, <2>2, <2>4
<1>12. (\A b \in DOMAIN blobs \ {0} : b \in BlockOf /\ Holds(ReadRawBlock, b, blobs[b]))'
  <2>1. Sound(ReadPrepared, Freed.head, blobs, {}, S)
    BY <1>3 DEF Readied
  <2>2. Heads(blobs, {}) \subseteq BlockOf
    BY <2>1, SoundFacts
  <2> QED BY <1>4, <1>11, <2>1, <2>2 DEF Sound, Heads
<1>13. (header.data = blobs[0])'
  BY <1>2, <1>4 DEF Shape, FileBlock
<1>14. ASSUME pendingFrees = <<>> PROVE Kept(S0)'
  <2>1. ReadPrepared = ReadRawBlock /\ Freed.head = header.next /\ DOMAIN Prepared = Staged \cup {0}
    BY <1>1, <1>2, <1>14, NothingFreed
  <2>2. /\ ReadRawBlock' = ReadRawBlock /\ Pending' = Pending /\ Batch' = Batch
        /\ Staged' = Staged \cup {0} /\ header' = header
    BY <1>2, <1>4, <1>11, <2>1 DEF Pending, Batch, Staged, Shape, FileBlock
  <2>3. Known' = Known /\ Known = 0 .. m
    <3>1. 0 \in 0 .. m
      OBVIOUS
    <3> QED BY <1>6, <1>7, <1>8, <2>2, <3>1 DEF Known
  <2>4. Taken(S0)' = Taken(S0)
    BY <1>4, <2>2 DEF Taken
  <2>5. 0 \notin BlockOf /\ S0 \subseteq BlockOf /\ 0 \notin Batch
    BY <1>1, KeptHolds DEF Kept, BlockOf, NO_BLOCK
  <2>6. /\ Sound(ReadRawBlock, header.next, blobs, Pending, S0)'
        /\ (ReadRawBlock[0] = header)'
    BY <1>1, <1>4, <2>2 DEF Kept
  <2>7. (Taken(S0) \subseteq Known /\ Known \ {0} \subseteq Taken(S0) \cup abandoned)'
    <3>1. abandoned \subseteq abandoned'
      BY <1>8
    <3> QED BY <1>1, <2>3, <2>4, <3>1 DEF Kept
  <2>8. /\ ((Staged \cup Batch) \ {0} \subseteq Taken(S0) /\ S0 \cap (Staged \cup Batch) = {})'
        /\ (Staged \cap Batch = {} /\ 0 \notin Batch /\ Pending \cap Batch = {})'
    BY <1>1, <2>2, <2>4, <2>5 DEF Kept
  <2>9. (\A x \in Heads(blobs, Pending) : x \notin Batch => Uses(ReadRawBlock, x) \cap Batch = {})'
    BY <1>1, <1>4, <2>2 DEF Kept
  <2>10. (\A x \in DOMAIN saved \ {0} : Uses(OnFile, x) \cap S0 = {})'
    <3>1. CASE OnFile' = OnFile /\ saved' = saved
      BY <1>1, <3>1 DEF Kept
    <3>2. CASE OnFile' = ReadRawBlock /\ saved' = blobs
      BY <1>1, <3>2 DEF Kept, Sound, Apart, Heads
    <3> QED BY <1>8, <2>1, <3>1, <3>2
  <2>11. (\A i, j \in 1 .. Len(pendingFrees) : pendingFrees[i] = pendingFrees[j] => i = j)'
    BY <1>1, <1>4 DEF Kept
  <2>12. (\E k \in 0 .. LastBlock : Known = 0 .. k)'
    BY <2>3
  <2> QED BY <2>6, <2>7, <2>8, <2>9, <2>10, <2>11, <2>12 DEF Kept
<1>15. (~halfFreed => \E T : Kept(T))'
  BY <1>4, <1>14
<1> QED BY <1>9, <1>10, <1>12, <1>13, <1>15 DEF BlockInv

\* An empty file.
LEMMA InitStep ==
    ASSUME BlocksInit
    PROVE  BlockInv
<1> USE DEF BlocksInit
<1>1. /\ 0 \in BlockId /\ LastBlock \in Nat /\ NO_BLOCK = 0
      /\ DOMAIN blockFile = {} /\ Staged = {0} /\ Batch = {} /\ stagedWrites[0] = Zeros
      /\ pendingFrees = <<>>
  BY BlockAssumption DEF BlockId, NO_BLOCK, None, Staged, Batch, At
<1>2. OnFile = [b \in BlockId |-> Zeros] /\ ReadRawBlock = OnFile
  <2>1. OnFile = [b \in BlockId |-> Zeros]
    BY <1>1 DEF OnFile
  <2>2. ReadRawBlock = [b \in BlockId |-> Zeros]
    BY <1>1 DEF ReadRawBlock, Staged, Batch
  <2> QED BY <2>1, <2>2
<1>3. /\ header = Zeros /\ OnFile[0] = Zeros /\ Zeros.next = NO_BLOCK /\ Zeros.data = Nil
      /\ Zeros = FileBlock(Zeros.next, Zeros.data, 0)
  BY <1>1, <1>2 DEF Zeros, FileBlock
<1>4. DOMAIN saved = {0} /\ saved[0] = Nil /\ blobs = saved
  BY DEF At
<1>5. Heads(saved, {}) = {}
  BY <1>4 DEF Heads
<1>6. Met(OnFile, Heads(saved, {}), {}) = {}
  BY <1>5 DEF Met
<1>7. Sound(OnFile, OnFile[0].next, saved, {}, {})
  <2>1. Listed(OnFile, NO_BLOCK, {})
    BY NothingListed
  <2>2. Apart(OnFile, Heads(saved, {}), {})
    BY <1>5 DEF Apart
  <2> QED BY <1>3, <1>4, <2>1, <2>2 DEF Sound
<1>8. FileKept({})
  BY <1>1, <1>3, <1>4, <1>6, <1>7 DEF FileKept
<1>9. \E m \in 0 .. LastBlock : Known = 0 .. m
  <2>1. Known = {0}
    BY <1>1 DEF Known
  <2>2. {0} = 0 .. 0 /\ 0 \in 0 .. LastBlock
    BY <1>1
  <2> QED BY <2>1, <2>2
<1>10. \E k \in -1 .. LastBlock : DOMAIN blockFile = 0 .. k
  <2>1. 0 .. -1 = {} /\ -1 \in -1 .. LastBlock
    BY <1>1
  <2> QED BY <1>1, <2>1
<1>11. blockFile = [b \in DOMAIN blockFile |-> blockFile[b]]
  BY DEF None
<1>12. Alone
  BY <1>1, <1>2, <1>3, <1>4, <1>8, <1>9, <1>10, <1>11 DEF Alone, OnFileAlone
<1> QED BY <1>12, AloneIsKept

-----------------------------------------------------------------------------
(* What BlockInv says of the blocks. *)

\* No block is in two chains, and the chains have all blocks that are taken.
LEMMA ChainsAreApart ==
    ASSUME NEW S, Kept(S), Shape
    PROVE  /\ UNION {ToSet(Chains[s]) : s \in DOMAIN Chains} = Taken(S)
           /\ \A s, t \in DOMAIN Chains : \A i \in DOMAIN Chains[s], j \in DOMAIN Chains[t] :
                  Chains[s][i] = Chains[t][j] => s = t /\ i = j
<1> DEFINE r == ReadRawBlock
           H == Heads(blobs, Pending)
           D == ((DOMAIN blobs \ {0}) \X {"blob"}) \cup (Pending \X {"pending"})
                    \cup (({header.next} \ {NO_BLOCK}) \X {"free"})
           c == Chains
           Of(s) == IF s[2] = "free" THEN S ELSE Uses(r, s[1])
<1>1. c = [s \in D |-> Chain(r, s[1])]
  BY DEF Chains, Pending
<1>2. Sound(r, header.next, blobs, Pending, S) /\ Taken(S) = Met(r, H, S)
  BY DEF Kept, Taken
<1>3. /\ H \subseteq BlockOf /\ Listed(r, header.next, S) /\ DOMAIN blobs \cap Pending = {}
      /\ \A x \in H : Freeable(r, x) /\ Uses(r, x) \cap S = {}
      /\ \A x, y \in H : x # y => Uses(r, x) \cap Uses(r, y) = {}
  BY <1>2 DEF Sound, Apart
<1>4. \A s \in D : \/ s[1] \in DOMAIN blobs \ {0} /\ s = <<s[1], "blob">>
                   \/ s[1] \in Pending /\ s = <<s[1], "pending">>
                   \/ s[1] = header.next /\ header.next # NO_BLOCK /\ s = <<s[1], "free">>
  OBVIOUS
<1>5. \A x \in DOMAIN blobs \ {0} : <<x, "blob">> \in D
  OBVIOUS
<1>6. \A x \in Pending : <<x, "pending">> \in D
  OBVIOUS
<1>7. header.next # NO_BLOCK => <<header.next, "free">> \in D
  OBVIOUS
<1> HIDE DEF c, D, r, H
<1>8. \A s \in D : s[2] # "free" => s[1] \in H
  BY <1>4 DEF H, Heads
<1>9. \A s \in D : ToSet(c[s]) = Of(s)
               /\ \A i, j \in DOMAIN c[s] : c[s][i] = c[s][j] => i = j
  <2> SUFFICES ASSUME NEW s \in D
               PROVE  ToSet(c[s]) = Of(s) /\ \A i, j \in DOMAIN c[s] : c[s][i] = c[s][j] => i = j
    OBVIOUS
  <2>1. c[s] = Chain(r, s[1])
    BY <1>1
  <2>2. CASE s[2] # "free"
    <3>1. s[1] \in BlockOf /\ Freeable(r, s[1])
      BY <1>3, <1>8, <2>2
    <3> QED BY <2>1, <2>2, <3>1, UsesIsChain
  <2>3. CASE s[2] = "free"
    <3>1. s[1] = header.next
      BY <1>4, <2>3
    <3> QED BY <1>3, <2>1, <2>3, <3>1, ChainOfListed
  <2> QED BY <2>2, <2>3
<1>10. ASSUME NEW s \in D, NEW t \in D, s # t PROVE Of(s) \cap Of(t) = {}
  <2>1. CASE s[2] # "free" /\ t[2] # "free"
    <3>1. s[1] # t[1]
      BY <1>3, <1>4, <1>10, <2>1
    <3> QED BY <1>3, <1>8, <2>1, <3>1
  <2>2. CASE s[2] = "free" /\ t[2] # "free"
    BY <1>3, <1>8, <2>2
  <2>3. CASE s[2] # "free" /\ t[2] = "free"
    BY <1>3, <1>8, <2>3
  <2>4. CASE s[2] = "free" /\ t[2] = "free"
    BY <1>4, <1>10, <2>4
  <2> QED BY <2>1, <2>2, <2>3, <2>4
<1>11. DOMAIN c = D
  BY <1>1
<1>12. \A s, t \in DOMAIN c : \A i \in DOMAIN c[s], j \in DOMAIN c[t] :
           c[s][i] = c[t][j] => s = t /\ i = j
  <2> SUFFICES ASSUME NEW s \in D, NEW t \in D, NEW i \in DOMAIN c[s], NEW j \in DOMAIN c[t],
                      c[s][i] = c[t][j]
               PROVE  s = t /\ i = j
    BY <1>11
  <2>1. c[s][i] \in Of(s) /\ c[t][j] \in Of(t)
    <3>1. c[s][i] \in ToSet(c[s]) /\ c[t][j] \in ToSet(c[t])
      BY DEF ToSet
    <3> QED BY <1>9, <3>1
  <2>2. s = t
    BY <1>10, <2>1
  <2> QED BY <1>9, <2>2
<1>13. UNION {ToSet(c[s]) : s \in DOMAIN c} = Taken(S)
  <2>1. ASSUME NEW s \in D, NEW x \in Of(s) PROVE x \in Taken(S)
    BY <1>2, <1>8, <2>1 DEF Met
  <2>2. ASSUME NEW x \in Taken(S) PROVE \E s \in D : x \in Of(s)
    <3>1. CASE x \in S
      <4>1. header.next # NO_BLOCK
        BY <1>3, <3>1, NothingListed
      <4> DEFINE s == <<header.next, "free">>
      <4>2. s \in D /\ s[2] = "free"
        BY <1>7, <4>1
      <4> HIDE DEF s
      <4> QED BY <3>1, <4>2
    <3>2. CASE x \notin S
      <4>1. PICK y \in H : x \in Uses(r, y)
        BY <1>2, <3>2 DEF Met
      <4>2. CASE y \in Pending
        <5> DEFINE s == <<y, "pending">>
        <5>1. s \in D /\ s[1] = y /\ s[2] # "free"
          BY <1>6, <4>2
        <5> HIDE DEF s
        <5> QED BY <4>1, <5>1
      <4>3. CASE y \in DOMAIN blobs \ {0}
        <5> DEFINE s == <<y, "blob">>
        <5>1. s \in D /\ s[1] = y /\ s[2] # "free"
          BY <1>5, <4>3
        <5> HIDE DEF s
        <5> QED BY <4>1, <5>1
      <4> QED BY <4>2, <4>3 DEF H, Heads
    <3> QED BY <3>1, <3>2
  <2> HIDE DEF Of
  <2>3. \A s \in D : ToSet(c[s]) = Of(s)
    BY <1>9
  <2> QED BY <1>11, <2>1, <2>2, <2>3
<1> QED BY <1>12, <1>13 DEF c

\* What getFreeBlockIds finds in the file alone is free in memory, too.
LEMMA FreeIdsAre ==
    ASSUME NEW S, Kept(S), Shape, NEW T, FileKept(T)
    PROVE  FreeIdsAreFree
<1>1. Sound(ReadRawBlock, header.next, blobs, Pending, S)
  BY DEF Kept
<1>2. Listed(OnFile, header.next, S)
  <2>1. S \subseteq BlockId /\ S \cap (Staged \cup Batch) = {}
    BY KeptHolds DEF Kept, BlockOf
  <2>2. \A y \in S : OnFile[y] = ReadRawBlock[y]
    BY <2>1 DEF OnFile, ReadRawBlock, Staged, Batch
  <2> QED BY <1>1, <2>2, SameIsListed DEF Sound
<1>3. GetFreeBlockIds \subseteq S
  BY <1>2, ChainOfListed DEF GetFreeBlockIds
<1>4. \A b \in DOMAIN blobs \ {0} : ToSet(Chain(ReadRawBlock, b)) \cap S = {}
  <2> TAKE b \in DOMAIN blobs \ {0}
  <2>1. b \in Heads(blobs, Pending)
    BY DEF Heads
  <2>2. b \in BlockOf /\ Freeable(ReadRawBlock, b) /\ Uses(ReadRawBlock, b) \cap S = {}
    BY <1>1, <2>1 DEF Sound, Apart
  <2> QED BY <2>2, UsesIsChain
<1>5. \A b \in DOMAIN saved \ {0} : ToSet(Chain(OnFile, b)) \cap S = {}
  <2> TAKE b \in DOMAIN saved \ {0}
  <2>1. b \in Heads(saved, {})
    BY DEF Heads
  <2>2. b \in BlockOf /\ Freeable(OnFile, b)
    BY <2>1 DEF FileKept, Sound, Apart
  <2>3. Uses(OnFile, b) \cap S = {}
    BY DEF Kept
  <2> QED BY <2>2, <2>3, UsesIsChain
<1> DEFINE Used == (UNION {ToSet(Chain(ReadRawBlock, s)) : s \in DOMAIN blobs \ {0}})
                       \cup (UNION {ToSet(Chain(OnFile, s)) : s \in DOMAIN saved \ {0}})
<1>6. Used \cap S = {}
  BY <1>4, <1>5
<1>7. GetFreeBlockIds \cap Used = {}
  BY <1>3, <1>6
<1> QED BY <1>7, Zenon DEF FreeIdsAreFree

\* The property follows.
LEMMA KeptBlobs == BlockInv => BlobsAreKept
<1> SUFFICES ASSUME BlockInv PROVE BlobsAreKept
  OBVIOUS
<1>1. PICK T : FileKept(T)
  BY DEF BlockInv
<1>2. UsedOrFree
  <2> SUFFICES ASSUME ~halfFreed PROVE UsedOrFree
    BY DEF UsedOrFree
  <2>1. PICK S : Kept(S)
    BY DEF BlockInv
  <2>2. /\ UNION {ToSet(Chains[s]) : s \in DOMAIN Chains} = Taken(S)
        /\ \A s, t \in DOMAIN Chains : \A i \in DOMAIN Chains[s], j \in DOMAIN Chains[t] :
               Chains[s][i] = Chains[t][j] => s = t /\ i = j
    BY <2>1, ChainsAreApart DEF BlockInv
  <2>3. Known \ {0} \subseteq Taken(S) \cup abandoned
    BY <2>1 DEF Kept
  <2>4. (DOMAIN blockFile \cup DOMAIN stagedWrites \cup DOMAIN stagedBatch) \ {0}
            \subseteq (UNION {ToSet(Chains[s]) : s \in DOMAIN Chains}) \cup abandoned
    BY <2>2, <2>3 DEF Known, Staged, Batch
  <2> QED BY <2>2, <2>4, Zenon DEF UsedOrFree
<1>3. FreeIdsAreFree
  <2> SUFFICES ASSUME ~halfFreed PROVE FreeIdsAreFree
    BY DEF FreeIdsAreFree
  <2>1. PICK S : Kept(S)
    BY DEF BlockInv
  <2> QED BY <1>1, <2>1, FreeIdsAre DEF BlockInv
<1>4. BlobsReadBack
  <2>1. \A b \in DOMAIN blobs \ {0} : ReadBlob(ReadRawBlock, b) = blobs[b]
    BY HoldsIsRead DEF BlockInv
  <2> QED BY <2>1 DEF BlobsReadBack, BlockInv
<1>5. SavedIsOnFile
  <2>1. \A b \in DOMAIN saved \ {0} : ReadBlob(OnFile, b) = saved[b]
    <3> TAKE b \in DOMAIN saved \ {0}
    <3>1. b \in Heads(saved, {}) /\ Holds(OnFile, b, saved[b])
      BY <1>1 DEF FileKept, Sound, Heads
    <3>2. b \in BlockOf
      BY <1>1, <3>1 DEF FileKept, Sound, Apart
    <3> QED BY <3>1, <3>2, HoldsIsRead
  <2>2. OnFile[0].data = saved[0]
    BY <1>1 DEF FileKept, FileBlock
  <2> QED BY <2>1, <2>2 DEF SavedIsOnFile
<1> QED BY <1>2, <1>3, <1>4, <1>5 DEF BlobsAreKept

\* Nothing changes.
LEMMA StutterStep ==
    ASSUME BlockInv, UNCHANGED blockVars
    PROVE  BlockInv'
<1> USE DEF blockVars, memory, counters
<1>1. /\ ReadRawBlock' = ReadRawBlock /\ OnFile' = OnFile /\ Staged' = Staged
      /\ Batch' = Batch /\ Known' = Known /\ Pending' = Pending /\ Shape' = Shape
  BY DEF ReadRawBlock, OnFile, Staged, Batch, Known, Pending, Shape
<1>2. (\E S : FileKept(S))'
  BY <1>1 DEF BlockInv, FileKept
<1>3. (~halfFreed => \E S : Kept(S))'
  BY <1>1 DEF BlockInv, Kept, Taken
<1> QED BY <1>1, <1>2, <1>3 DEF BlockInv

\* Where no batch is changed before it is committed, and nothing but an opening
\* follows a failed commit that had blobs to free, no block is used twice or
\* lost, and blobs read as they were written, from memory and from the file,
\* whatever was allocated, resized, freed or committed around them, also after a
\* commit that failed or a crash (allocateBlocks, overwriteBlock, commit, open).
THEOREM BlocksAreKept ==
    ASSUME ~BatchMayChange, ~FreesAgain
    PROVE  BlocksSpec => []BlobsAreKept
<1>1. BlocksInit => BlockInv
  BY InitStep
<1>2. BlockInv /\ [BlocksNext]_blockVars => BlockInv'
  <2> SUFFICES ASSUME BlockInv, [BlocksNext]_blockVars PROVE BlockInv'
    OBVIOUS
  <2>1. ASSUME NEW d \in Data, AllocateAndWrite(d) PROVE BlockInv'
    BY <2>1, AllocateAndWriteStep
  <2>2. ASSUME NEW d \in Data, NEW e \in Data, AllocateAndWriteMany(d, e) PROVE BlockInv'
    BY <2>2, AllocateAndWriteManyStep
  <2>3. ASSUME NEW b \in DOMAIN blobs, NEW d \in Data, OverwriteBlock(b, d) PROVE BlockInv'
    BY <2>3, OverwriteBlockStep
  <2>4. ASSUME NEW b \in DOMAIN blobs, FreeBlob(b) PROVE BlockInv'
    BY <2>4, FreeBlobStep
  <2>5. ASSUME NEW d \in Data \ Big, WriteHeader(d) PROVE BlockInv'
    BY <2>5, WriteHeaderStep
  <2>6. CASE Commit
    BY <2>6, CommitStep
  <2>7. CASE CommitFails
    BY <2>7, CommitFailsStep
  <2>8. CASE CrashAndOpen
    BY <2>8, CrashAndOpenStep
  <2>9. CASE UNCHANGED blockVars
    BY <2>9, StutterStep
  <2> QED
    BY <2>1, <2>2, <2>3, <2>4, <2>5, <2>6, <2>7, <2>8, <2>9 DEF BlocksNext
<1> QED BY <1>1, <1>2, KeptBlobs, PTL DEF BlocksSpec
=============================================================================
