---------------------------- MODULE DaemonProofs ----------------------------
(***************************************************************************)
(* Why a node's database is what the applied part of the log makes of a    *)
(* new one, each command executed once and in order, whatever restarts,    *)
(* snapshots and compactions come between.                                 *)
(*                                                                         *)
(* The database after i entries is defined by recursion (DbAfter); the     *)
(* first part shows, by the least number at which it would fail, that it   *)
(* starts with InitialDb, goes from one entry to the next by AfterEntry,   *)
(* and looks at no entry after the i-th (DbAfterLocal), so that a log that *)
(* only grows does not change it.                                          *)
(*                                                                         *)
(* The invariant says of a node what the points at which the apply loop    *)
(* gives up the processor leave behind: between two commands the buffer is *)
(* empty and the database is that of lastApplied; while one is applied, it *)
(* is what the buffer holds, and has been executed or not (Applying).  A   *)
(* snapshot holds the database of its index (Covered), so a restart, an    *)
(* install and a compaction land on a state of the same kind.              *)
(***************************************************************************)
EXTENDS Daemon, WellFoundedInduction, TLAPS

-----------------------------------------------------------------------------
(* The database after a prefix of the log. *)

\* A set of natural numbers has a least element.
LEMMA LeastExists ==
    ASSUME NEW S \in SUBSET Nat, S # {}
    PROVE  \E i \in S : \A j \in S : i <= j
<1> DEFINE R == OpToRel(<, Nat)
<1>1. IsWellFoundedOn(R, Nat)
  BY NatLessThanWellFounded
<1>2. ASSUME NEW x \in Nat, NEW y \in Nat, x < y PROVE <<x, y>> \in R
  BY <1>2 DEF OpToRel
<1> HIDE DEF R
<1>3. PICK x \in S : \A y \in S : ~(<<y, x>> \in R)
  BY <1>1, WFMin
<1>4. ASSUME NEW y \in S PROVE x <= y
  <2>1. x \in Nat /\ y \in Nat
    OBVIOUS
  <2>2. ~(y < x)
    BY <1>2, <1>3, <2>1
  <2> QED BY <2>1, <2>2
<1> QED BY <1>4

\* g runs through the databases after the first entries of l, up to the i-th.
Runs(l, i, g) ==
    g = [j \in 0 .. i |-> IF j = 0 THEN InitialDb ELSE AfterEntry(g[j - 1], l[j])]

LEMMA RunsExist ==
    ASSUME NEW l, NEW i \in Nat
    PROVE  \E g : Runs(l, i, g)
<1> DEFINE Without == {k \in Nat : \A g : ~ Runs(l, k, g)}
<1>1. SUFFICES ASSUME Without # {} PROVE FALSE
  OBVIOUS
<1>2. PICK m \in Without : \A k \in Without : m <= k
  BY <1>1, LeastExists
<1>3. CASE m = 0
  <2>1. Runs(l, 0, [j \in 0 .. 0 |-> InitialDb])
    BY DEF Runs
  <2> QED BY <1>3, <2>1
<1>4. CASE m # 0
  <2>1. m - 1 \in Nat /\ m - 1 \notin Without
    BY <1>2, <1>4
  <2>2. PICK h : Runs(l, m - 1, h)
    BY <2>1
  <2> DEFINE g == [j \in 0 .. m |-> IF j = m THEN AfterEntry(h[m - 1], l[m]) ELSE h[j]]
  <2>3. \A j \in 0 .. m - 1 : g[j] = IF j = 0 THEN InitialDb ELSE AfterEntry(g[j - 1], l[j])
    BY <1>4, <2>1, <2>2 DEF Runs
  <2>4. g[m] = AfterEntry(g[m - 1], l[m])
    BY <1>4, <2>1
  <2>5. \A j \in 0 .. m : g[j] = IF j = 0 THEN InitialDb ELSE AfterEntry(g[j - 1], l[j])
    <3> HIDE DEF g
    <3>1. m \in Nat /\ \A j \in 0 .. m : j \in 0 .. m - 1 \/ j = m
      BY <2>1
    <3>2. g[m] = IF m = 0 THEN InitialDb ELSE AfterEntry(g[m - 1], l[m])
      BY <1>4, <2>4
    <3> QED BY <2>3, <3>1, <3>2
  <2>6. \E f : f = g
    OBVIOUS
  <2>7. PICK f : f = g
    BY <2>6
  <2>8. f = [j \in 0 .. m |-> f[j]]
    BY <2>7
  <2> HIDE DEF g
  <2>9. Runs(l, m, f)
    BY <2>5, <2>7, <2>8 DEF Runs
  <2> QED BY <2>9
<1> QED BY <1>3, <1>4

\* The databases that Decided runs through, for any log.
RunOf(l, i) ==
    CHOOSE D : D = [j \in 0 .. i |-> IF j = 0 THEN InitialDb ELSE AfterEntry(D[j - 1], l[j])]

\* Two runs through the same entries agree: where they differed first, the
\* databases before that entry would be the same.
LEMMA RunOfIsRun ==
    ASSUME NEW l, NEW i \in Nat, NEW m \in Nat, i <= m, NEW g, Runs(l, m, g)
    PROVE  RunOf(l, i)[i] = g[i]
<1>1. Runs(l, i, RunOf(l, i))
  <2>1. \E D : D = [j \in 0 .. i |-> IF j = 0 THEN InitialDb ELSE AfterEntry(D[j - 1], l[j])]
    BY RunsExist DEF Runs
  <2> QED BY <2>1 DEF RunOf, Runs
<1> HIDE DEF RunOf
<1> DEFINE Differ == {j \in 0 .. i : RunOf(l, i)[j] # g[j]}
<1>2. SUFFICES ASSUME Differ # {} PROVE FALSE
  OBVIOUS
<1>3. PICK j \in Differ : \A n \in Differ : j <= n
  <2>1. Differ \in SUBSET Nat
    OBVIOUS
  <2> HIDE DEF Differ
  <2> QED BY <1>2, <2>1, LeastExists
<1>4. j # 0
  BY <1>1 DEF Runs
<1>5. RunOf(l, i)[j - 1] = g[j - 1]
  BY <1>3, <1>4
<1>6. RunOf(l, i)[j] = AfterEntry(RunOf(l, i)[j - 1], l[j]) /\ g[j] = AfterEntry(g[j - 1], l[j])
  BY <1>1, <1>4 DEF Runs
<1> QED BY <1>4, <1>5, <1>6

\* The equations of DbAfter.
LEMMA DbAfterStep ==
    ASSUME NEW l
    PROVE  /\ DbAfter(l, 0) = InitialDb
           /\ \A i \in Nat : DbAfter(l, i + 1) = AfterEntry(DbAfter(l, i), l[i + 1])
<1>0. \A i : DbAfter(l, i) = RunOf(l, i)[i]
  BY DEF DbAfter, RunOf
<1>1. DbAfter(l, 0) = InitialDb
  <2>1. PICK g : Runs(l, 0, g)
    BY RunsExist
  <2>2. RunOf(l, 0)[0] = g[0]
    BY <2>1, RunOfIsRun
  <2>3. g[0] = InitialDb
    BY <2>1 DEF Runs
  <2> QED BY <1>0, <2>2, <2>3
<1>2. ASSUME NEW i \in Nat PROVE DbAfter(l, i + 1) = AfterEntry(DbAfter(l, i), l[i + 1])
  <2>1. PICK g : Runs(l, i + 1, g)
    BY RunsExist
  <2>2. DbAfter(l, i + 1) = g[i + 1] /\ DbAfter(l, i) = g[i]
    BY <1>0, <2>1, RunOfIsRun
  <2>3. g[i + 1] = AfterEntry(g[i], l[i + 1])
    BY <2>1 DEF Runs
  <2> QED BY <2>2, <2>3
<1> QED BY <1>1, <1>2

\* It depends on the entries up to the i-th only.
LEMMA DbAfterLocal ==
    ASSUME NEW k, NEW l, NEW i \in Nat, \A j \in 1 .. i : k[j] = l[j]
    PROVE  DbAfter(k, i) = DbAfter(l, i)
<1>1. DbAfter(k, i) = RunOf(k, i)[i] /\ DbAfter(l, i) = RunOf(l, i)[i]
  BY DEF DbAfter, RunOf
<1>2. PICK g : Runs(k, i, g)
  BY RunsExist
<1>3. Runs(l, i, g)
  <2>1. \A j \in 0 .. i : (IF j = 0 THEN InitialDb ELSE AfterEntry(g[j - 1], k[j]))
                            = (IF j = 0 THEN InitialDb ELSE AfterEntry(g[j - 1], l[j]))
    OBVIOUS
  <2> QED BY <1>2, <2>1 DEF Runs
<1>4. RunOf(k, i)[i] = g[i] /\ RunOf(l, i)[i] = g[i]
  BY <1>2, <1>3, RunOfIsRun
<1> QED BY <1>1, <1>4

-----------------------------------------------------------------------------
(* The invariant. *)

Upto == 0 .. Len(log)

TypeOK ==
    /\ \E S : log \in Seq(S)
    /\ leader \in Node \cup {Nil}
    /\ held \in [Node -> Upto]
    /\ commitIndex \in [Node -> Upto]
    /\ lastApplied \in [Node -> Upto]
    /\ DOMAIN db = Node /\ DOMAIN snapshot = Node /\ DOMAIN buffered = Node
    /\ attached \in [Node -> BOOLEAN]
    /\ \A n \in Node : \E S : buffered[n] \in Seq(S)
    /\ applying \in [Node -> {Nil} \cup Nat]
    /\ status \in [Node -> {"up", "stopped", "down"}]

\* The log starts with the entry of the first leader, and each command of it
\* creates no collection that is there.
LogInv ==
    /\ leader # Nil /\ log = <<>> => Len(log) >= MaxLog
    /\ log # <<>> => log[1].type # "COMMAND"
    /\ \A i \in 1 .. Len(log) :
           log[i].type = "COMMAND" => ~ ReturnsEarly(DbAfter(log, i - 1), log[i].command)

\* The command that is being applied.
Pending(n) == log[lastApplied[n] + 1]

\* Between two commands the buffer is empty; while one is applied it is what
\* the buffer holds, and it has been executed or not.
ApplyingInOrder(n) ==
    /\ applying[n] \in {Nil, 0, 1}
    /\ status[n] = "up" /\ applying[n] = Nil =>
           buffered[n] = <<>> /\ db[n] = DbAfter(log, lastApplied[n])
    /\ applying[n] # Nil =>
           /\ Pending(n).type = "COMMAND" /\ buffered[n] = <<Pending(n).command>>
           /\ db[n] = DbAfter(log, lastApplied[n] + applying[n])

\* A node that has skipped commands may do anything until it starts again.
Applying(n) ==
    /\ applying[n] # Nil => status[n] = "up" /\ lastApplied[n] < Len(log)
    /\ n \notin lacking => ApplyingInOrder(n)

IsDecided(snap) ==
    snap.index \in Upto /\ (~snap.lacking => snap.data = DbAfter(log, snap.index))

\* Snapshots hold what has been decided; without one a database is new as long
\* as nothing, or nothing any more, is applied.
Covered(n) ==
    /\ snapshot[n] # Nil => IsDecided(snapshot[n])
    /\ n \notin lacking /\ snapshot[n] = Nil /\ (status[n] = "down" \/ lastApplied[n] = 0) =>
           db[n] = InitialDb
    /\ status[n] = "down" => applying[n] = Nil /\ buffered[n] = <<>>

ExecutedInv == TypeOK /\ LogInv /\ \A n \in Node : Applying(n) /\ Covered(n)

-----------------------------------------------------------------------------
(* Steps. *)

\* Nothing is taken out of the log.
LogKept ==
    /\ \E S : log' \in Seq(S)
    /\ Len(log) <= Len(log')
    /\ \A j \in 1 .. Len(log) : log'[j] = log[j]

LEMMA LogLength == ASSUME TypeOK PROVE Len(log) \in Nat
BY DEF TypeOK

LEMMA SameLog ==
    ASSUME TypeOK, log' = log PROVE LogKept
BY LogLength DEF TypeOK, LogKept

LEMMA LongerLog ==
    ASSUME TypeOK, NEW e, log' = Append(log, e)
    PROVE  LogKept /\ Len(log') = Len(log) + 1 /\ log'[Len(log) + 1] = e
<1>1. PICK S : log \in Seq(S)
  BY DEF TypeOK
<1>2. log \in Seq(S \cup {e}) /\ log' \in Seq(S \cup {e})
  BY <1>1
<1> QED BY <1>1, <1>2 DEF LogKept

LEMMA KeptDecided ==
    ASSUME TypeOK, LogKept
    PROVE  /\ \A i \in Upto : DbAfter(log', i) = DbAfter(log, i)
           /\ Upto \subseteq Upto' /\ Len(log) \in Nat /\ Len(log') \in Nat
<1>1. Len(log) \in Nat /\ Len(log') \in Nat
  BY LogLength DEF LogKept
<1>2. ASSUME NEW i \in 0 .. Len(log) PROVE DbAfter(log', i) = DbAfter(log, i)
  BY <1>1, DbAfterLocal DEF LogKept
<1> QED BY <1>1, <1>2 DEF Upto, LogKept

\* A node that a step leaves alone.
LeftAlone(m) ==
    /\ db'[m] = db[m] /\ buffered'[m] = buffered[m] /\ applying'[m] = applying[m]
    /\ status'[m] = status[m] /\ lastApplied'[m] = lastApplied[m] /\ snapshot'[m] = snapshot[m]
    /\ m \in lacking' <=> m \in lacking

LEMMA NodeKept ==
    ASSUME ExecutedInv, LogKept, NEW m \in Node,
           LeftAlone(m)
    PROVE  Applying(m)' /\ Covered(m)'
<1> USE DEF LeftAlone
<1>1. /\ \A i \in Upto : DbAfter(log', i) = DbAfter(log, i)
      /\ Upto \subseteq Upto' /\ Len(log) \in Nat /\ Len(log') \in Nat /\ Len(log) <= Len(log')
  BY KeptDecided DEF ExecutedInv, LogKept
<1>2. TypeOK /\ Applying(m) /\ Covered(m)
  BY DEF ExecutedInv
<1>3. lastApplied[m] \in Upto
  BY <1>2 DEF TypeOK
<1>4. Covered(m)'
  BY <1>1, <1>2 DEF Covered, IsDecided
<1>7. CASE m \in lacking
  <2>1. lastApplied[m] < Len(log) => lastApplied[m] < Len(log')
    BY <1>1, <1>3 DEF Upto
  <2> QED BY <1>2, <1>4, <1>7, <2>1 DEF Applying
<1>5. CASE m \notin lacking /\ applying[m] = Nil
  BY <1>1, <1>2, <1>3, <1>4, <1>5 DEF Applying, ApplyingInOrder
<1>6. CASE m \notin lacking /\ applying[m] # Nil
  <2>0. applying[m] \in {0, 1}
    BY <1>2, <1>6 DEF Applying, ApplyingInOrder
  <2>1. /\ status[m] = "up" /\ lastApplied[m] < Len(log) /\ Pending(m).type = "COMMAND"
        /\ buffered[m] = <<Pending(m).command>>
        /\ db[m] = DbAfter(log, lastApplied[m] + applying[m])
    BY <1>2, <1>6 DEF Applying, ApplyingInOrder
  <2>2. lastApplied[m] + 1 \in 1 .. Len(log) /\ lastApplied[m] + applying[m] \in Upto
    BY <1>1, <1>3, <2>0, <2>1 DEF Upto
  <2>3. Pending(m)' = Pending(m)
    BY <2>2 DEF Pending, LogKept
  <2>4. DbAfter(log', lastApplied[m] + applying[m]) = DbAfter(log, lastApplied[m] + applying[m])
    BY <1>1, <2>2
  <2>5. lastApplied[m] < Len(log')
    BY <1>1, <1>3, <2>1 DEF Upto
  <2> QED BY <1>4, <1>6, <2>0, <2>1, <2>3, <2>4, <2>5 DEF Applying, ApplyingInOrder
<1> QED BY <1>5, <1>6, <1>7

LEMMA LogInvSame ==
    ASSUME ExecutedInv, log' = log, leader' \in {leader, Nil}
    PROVE  LogInv'
BY DEF ExecutedInv, LogInv

LEMMA LogInvLonger ==
    ASSUME ExecutedInv, NEW e, log' = Append(log, e),
           e.type = "COMMAND" =>
               log # <<>> /\ ~ ReturnsEarly(DbAfter(log, Len(log)), e.command)
    PROVE  LogInv'
<1>1. LogKept /\ Len(log') = Len(log) + 1 /\ log'[Len(log) + 1] = e
  BY LongerLog DEF ExecutedInv
<1>2. Len(log) \in Nat /\ LogInv
  BY LogLength DEF ExecutedInv
<1>3. \A i \in Upto : DbAfter(log', i) = DbAfter(log, i)
  BY <1>1, KeptDecided DEF ExecutedInv
<1>4. log' # <<>>
  BY <1>1, <1>2
<1>5. log'[1].type # "COMMAND"
  <2>1. CASE log = <<>>
    BY <1>1, <2>1
  <2>2. CASE log # <<>>
    <3>1. Len(log) >= 1
      <4>1. PICK S : log \in Seq(S)
        BY DEF ExecutedInv, TypeOK
      <4> QED BY <2>2, <4>1
    <3>2. log'[1] = log[1]
      BY <1>1, <1>2, <3>1 DEF LogKept
    <3> QED BY <1>2, <2>2, <3>2 DEF LogInv
  <2> QED BY <2>1, <2>2
<1>6. ASSUME NEW i \in 1 .. Len(log'), log'[i].type = "COMMAND"
      PROVE  ~ ReturnsEarly(DbAfter(log', i - 1), log'[i].command)
  <2>1. i - 1 \in Upto
    BY <1>1, <1>2 DEF Upto
  <2>2. DbAfter(log', i - 1) = DbAfter(log, i - 1)
    BY <1>3, <2>1
  <2>3. CASE i \in 1 .. Len(log)
    BY <1>1, <1>2, <1>6, <2>2, <2>3 DEF LogInv, LogKept
  <2>4. CASE i = Len(log) + 1
    BY <1>1, <1>2, <1>6, <2>2, <2>4
  <2> QED BY <1>1, <1>2, <2>3, <2>4
<1> QED BY <1>4, <1>5, <1>6 DEF LogInv

-----------------------------------------------------------------------------
(* Steps that leave the nodes' databases and snapshots alone. *)

\* The log may grow; what each node has executed stays what it was.
LEMMA ClusterStep ==
    ASSUME ExecutedInv, LogKept, LogInv', UNCHANGED <<snapshot, db, lastApplied>>,
           UNCHANGED <<buffered, applying, status, lacking>>, attached' \in [Node -> BOOLEAN],
           held' \in [Node -> Upto'], commitIndex' \in [Node -> Upto'],
           leader' \in Node \cup {Nil}
    PROVE  ExecutedInv'
<1>1. TypeOK' 
  <2>1. Upto \subseteq Upto'
    BY KeptDecided DEF ExecutedInv
  <2> QED BY <2>1 DEF ExecutedInv, TypeOK, LogKept
<1>2. ASSUME NEW m \in Node PROVE Applying(m)' /\ Covered(m)'
  BY NodeKept DEF LeftAlone
<1> QED BY <1>1, <1>2 DEF ExecutedInv

LEMMA SubmitStep ==
    ASSUME ~ Repeats, ExecutedInv, NEW n \in Node, Submit(n)
    PROVE  ExecutedInv'
<1>1. PICK c : MaySend(c) /\ AppendTo(n, Entry("COMMAND", c))
  BY DEF Submit
<1>2. TypeOK /\ LogInv /\ Len(log) \in Nat
  BY LogLength DEF ExecutedInv
<1> DEFINE e == Entry("COMMAND", c)
<1>3. log' = Append(log, e) /\ held' = [held EXCEPT ![n] = Len(log) + 1]
  BY <1>1 DEF AppendTo
<1>4. e.type = "COMMAND" /\ e.command = c
  BY DEF Entry
<1>5. log # <<>>
  <2>1. leader # Nil /\ Len(log) < MaxLog
    BY DaemonAssumption DEF Submit
  <2> QED BY <1>2, <2>1, DaemonAssumption DEF LogInv
<1>6. ~ ReturnsEarly(DbAfter(log, Len(log)), c)
  BY <1>1 DEF MaySend, Decided
<1> HIDE DEF e
<1>7. LogKept /\ Len(log') = Len(log) + 1
  BY <1>2, <1>3, LongerLog
<1>8. LogInv'
  BY <1>3, <1>4, <1>5, <1>6, LogInvLonger
<1>9. held' \in [Node -> Upto'] /\ commitIndex' \in [Node -> Upto']
  BY <1>2, <1>3, <1>7 DEF TypeOK, Upto, Submit, raft
<1> QED BY <1>2, <1>7, <1>8, <1>9, ClusterStep DEF Submit, raft, fsm, owing, TypeOK

LEMMA ElectStep ==
    ASSUME ExecutedInv, NEW n \in Node, Elect(n)
    PROVE  ExecutedInv'
<1>1. TypeOK /\ LogInv /\ Len(log) \in Nat
  BY LogLength DEF ExecutedInv
<1>2. CASE Len(log) < MaxLog
  <2> DEFINE e == Entry("NOOP", Nil)
  <2>1. log' = Append(log, e) /\ held' = [held EXCEPT ![n] = Len(log) + 1] /\ e.type # "COMMAND"
    BY <1>2 DEF Elect, AppendTo, Entry
  <2> HIDE DEF e
  <2>2. LogKept /\ Len(log') = Len(log) + 1
    BY <1>1, <2>1, LongerLog
  <2>3. LogInv'
    BY <2>1, LogInvLonger
  <2>4. held' \in [Node -> Upto'] /\ commitIndex' \in [Node -> Upto']
    BY <1>1, <2>1, <2>2 DEF TypeOK, Upto, Elect, raft
  <2> QED BY <1>1, <2>2, <2>3, <2>4, ClusterStep DEF Elect, raft, fsm, TypeOK
<1>3. CASE ~ (Len(log) < MaxLog)
  <2>1. log' = log /\ held' = held /\ leader' = n
    BY <1>3 DEF Elect
  <2>2. LogInv'
    BY <1>1, <1>3, <2>1, DaemonAssumption DEF LogInv
  <2>3. held' \in [Node -> Upto'] /\ commitIndex' \in [Node -> Upto']
    BY <1>1, <2>1 DEF TypeOK, Upto, Elect, raft
  <2> QED BY <1>1, <2>1, <2>2, <2>3, SameLog, ClusterStep DEF Elect, raft, fsm, TypeOK
<1> QED BY <1>2, <1>3

LEMMA CatchUpStep ==
    ASSUME ExecutedInv, NEW n \in Node, Replicate(n) \/ LearnCommit(n) \/ Maintain(n)
    PROVE  ExecutedInv'
<1>1. TypeOK /\ Len(log) \in Nat
  BY LogLength DEF ExecutedInv
<1>2. UNCHANGED <<cluster, snapshot, db, lastApplied, buffered, applying, status, lacking>>
  BY DEF Replicate, LearnCommit, Maintain, raft, fsm, disk, owing
<1>3. /\ held' \in [Node -> Upto] /\ commitIndex' \in [Node -> Upto]
      /\ attached' \in [Node -> BOOLEAN]
  <2>1. CASE Replicate(n)
    BY <1>1, <2>1 DEF Replicate, raft, fsm, TypeOK, Upto
  <2>2. CASE LearnCommit(n)
    BY <1>1, <2>2 DEF LearnCommit, disk, fsm, TypeOK
  <2>3. CASE Maintain(n)
    BY <1>1, <2>3 DEF Maintain, disk, raft, TypeOK
  <2> QED BY <2>1, <2>2, <2>3
<1>4. log' = log /\ leader' = leader
  BY <1>2 DEF cluster
<1>5. LogInv' /\ LogKept
  BY <1>1, <1>4, LogInvSame, SameLog
<1> QED BY <1>1, <1>2, <1>3, <1>4, <1>5, ClusterStep DEF TypeOK, Upto

-----------------------------------------------------------------------------
(* Steps of one node. *)

\* A step that changes node n only, and gives it what the invariant asks for.
LEMMA OneNodeStep ==
    ASSUME ExecutedInv, NEW n \in Node, LogKept, LogInv', TypeOK',
           \A m \in Node \ {n} : LeftAlone(m),
           Applying(n)', Covered(n)'
    PROVE  ExecutedInv'
<1>1. ASSUME NEW m \in Node PROVE Applying(m)' /\ Covered(m)'
  <2>1. CASE m = n
    BY <2>1
  <2>2. CASE m # n
    BY <2>2, NodeKept
  <2> QED BY <2>1, <2>2
<1> QED BY <1>1 DEF ExecutedInv

\* The entry that is applied next.
LEMMA NextDecided ==
    ASSUME ExecutedInv, NEW n \in Node, lastApplied[n] < Len(log)
    PROVE  /\ lastApplied[n] \in Nat /\ lastApplied[n] + 1 \in 1 .. Len(log)
           /\ DbAfter(log, lastApplied[n] + 1)
                 = AfterEntry(DbAfter(log, lastApplied[n]), Pending(n))
           /\ Pending(n).type = "COMMAND" =>
                 /\ lastApplied[n] >= 1
                 /\ ~ ReturnsEarly(DbAfter(log, lastApplied[n]), Pending(n).command)
<1>1. lastApplied[n] \in Nat /\ Len(log) \in Nat /\ LogInv
  BY LogLength DEF ExecutedInv, TypeOK, Upto
<1>2. lastApplied[n] + 1 \in 1 .. Len(log)
  BY <1>1
<1>3. DbAfter(log, lastApplied[n] + 1) = AfterEntry(DbAfter(log, lastApplied[n]), Pending(n))
  BY <1>1, DbAfterStep DEF Pending
<1>4. ASSUME Pending(n).type = "COMMAND"
      PROVE  lastApplied[n] >= 1 /\ ~ ReturnsEarly(DbAfter(log, lastApplied[n]), Pending(n).command)
  <2>1. log # <<>>
    BY <1>1, <1>2
  <2>2. lastApplied[n] # 0
    BY <1>1, <1>4, <2>1 DEF LogInv, Pending
  <2>3. (lastApplied[n] + 1) - 1 = lastApplied[n]
    BY <1>1
  <2> QED BY <1>1, <1>2, <1>4, <2>2, <2>3 DEF LogInv, Pending
<1> QED BY <1>1, <1>2, <1>3, <1>4

\* setLastApplied and the snapshot it may take, of a database that is the one
\* after the entry that is now applied.
LEMMA AppliedStep ==
    ASSUME ExecutedInv, NEW n \in Node, NEW snap, Applied(n, snap), LogKept,
           lastApplied[n] < Len(log), status'[n] = "up", UNCHANGED lacking,
           n \in lacking \/ db[n] = DbAfter(log, lastApplied[n] + 1),
           snap # Nil => IsDecided(snap)
    PROVE  /\ Covered(n)'
           /\ lastApplied' = [lastApplied EXCEPT ![n] = @ + 1]
           /\ lastApplied'[n] \in Upto /\ lastApplied' \in [Node -> Upto']
           /\ DOMAIN snapshot' = Node
           /\ \A m \in Node \ {n} : /\ lastApplied'[m] = lastApplied[m]
                                    /\ snapshot'[m] = snapshot[m]
<1> DEFINE i == lastApplied[n] + 1
<1>1. TypeOK /\ i \in 1 .. Len(log) /\ Len(log) \in Nat
  BY NextDecided, LogLength DEF ExecutedInv
<1>2. lastApplied' = [lastApplied EXCEPT ![n] = i] /\ lastApplied'[n] = i
  BY <1>1 DEF Applied, TypeOK
<1>3. /\ \A j \in Upto : DbAfter(log', j) = DbAfter(log, j)
      /\ Upto \subseteq Upto'
  BY <1>1, KeptDecided
<1>4. i \in Upto
  BY <1>1 DEF Upto
<1>5. \/ snapshot'[n] = snap
      \/ snapshot'[n] = [index |-> i, data |-> db[n], lacking |-> n \in lacking]
  BY <1>1 DEF Applied, TakenSnapshot, SnapshotAt, TypeOK
<1>6. Covered(n)'
  <2> DEFINE t == [index |-> i, data |-> db[n], lacking |-> n \in lacking]
  <2>1. snapshot'[n] # Nil => IsDecided(snapshot'[n])
    <3>1. CASE snapshot'[n] = snap
      BY <3>1
    <3>2. CASE snapshot'[n] = t
      <4>1. t.index = i /\ t.data = db[n] /\ (t.lacking <=> n \in lacking)
        OBVIOUS
      <4> HIDE DEF t
      <4> QED BY <1>1, <1>4, <3>2, <4>1 DEF IsDecided
    <3> QED BY <1>5, <3>1, <3>2
  <2>2. status'[n] # "down" /\ lastApplied'[n] # 0
    BY <1>1, <1>2
  <2> QED BY <1>3, <2>1, <2>2 DEF Covered, IsDecided
<1> HIDE DEF i
<1>7. /\ lastApplied' \in [Node -> Upto'] /\ DOMAIN snapshot' = Node
      /\ \A m \in Node \ {n} : lastApplied'[m] = lastApplied[m] /\ snapshot'[m] = snapshot[m]
  BY <1>1, <1>2, <1>3, <1>4 DEF Applied, TypeOK
<1> QED BY <1>2, <1>4, <1>6, <1>7 DEF i

LEMMA ApplyEntryStep ==
    ASSUME ExecutedInv, NEW n \in Node, ApplyNoop(n) \/ ApplyDropLog(n)
    PROVE  ExecutedInv'
<1>1. TypeOK /\ Len(log) \in Nat /\ lastApplied[n] \in Nat /\ Applying(n) /\ Covered(n)
  BY SMTT(30), LogLength DEF ExecutedInv, TypeOK, Upto
<1>2. /\ status[n] = "up" /\ applying[n] = Nil /\ lastApplied[n] < Len(log)
      /\ Pending(n).type # "COMMAND"
  BY <1>1 DEF ApplyNoop, ApplyDropLog, MayApply, MayGoOn, NextEntry, Pending, TypeOK, Upto
<1>3. UNCHANGED <<cluster, held, db, commitIndex, attached, buffered, applying, status, lacking>>
  BY DEF ApplyNoop, ApplyDropLog, fsm, owing
<1>4. LogKept /\ LogInv'
  BY <1>1, <1>3, SameLog, LogInvSame DEF cluster
<1>5. n \notin lacking => /\ db[n] = DbAfter(log, lastApplied[n]) /\ buffered[n] = <<>>
                          /\ db[n] = DbAfter(log, lastApplied[n] + 1)
  BY <1>1, <1>2, NextDecided DEF Applying, ApplyingInOrder, AfterEntry
<1>6. PICK snap : /\ Applied(n, snap)
                  /\ snap = snapshot[n] \/ snap = TakenSnapshot(n, lastApplied[n])
  BY DEF ApplyNoop, ApplyDropLog
<1>7. snap # Nil => IsDecided(snap)
  <2>1. lastApplied[n] \in Upto
    BY <1>1 DEF TypeOK
  <2>2. CASE snap = snapshot[n]
    BY <1>1, <2>2 DEF Covered
  <2>3. CASE snap = TakenSnapshot(n, lastApplied[n])
    <3> DEFINE i == lastApplied[n]
    <3> DEFINE t == [index |-> i, data |-> db[n], lacking |-> n \in lacking]
    <3>1. snap = t
      BY <2>3 DEF TakenSnapshot, SnapshotAt
    <3>2. t.index = i /\ t.data = db[n] /\ (t.lacking <=> n \in lacking)
      OBVIOUS
    <3> HIDE DEF t
    <3> QED BY <1>5, <2>1, <3>1, <3>2 DEF IsDecided
  <2> QED BY <1>6, <2>2, <2>3
<1>8. /\ Covered(n)' /\ lastApplied' = [lastApplied EXCEPT ![n] = @ + 1]
      /\ lastApplied' \in [Node -> Upto'] /\ DOMAIN snapshot' = Node
      /\ \A m \in Node \ {n} : lastApplied'[m] = lastApplied[m] /\ snapshot'[m] = snapshot[m]
  BY <1>2, <1>3, <1>4, <1>5, <1>6, <1>7, AppliedStep
<1>9. Applying(n)'
  <2>1. lastApplied'[n] = lastApplied[n] + 1 /\ log' = log
    BY <1>1, <1>3, <1>8 DEF TypeOK, cluster
  <2> QED BY <1>2, <1>3, <1>5, <2>1, DaemonAssumption DEF Applying, ApplyingInOrder
<1>10. TypeOK'
  BY <1>1, <1>3, <1>8 DEF TypeOK, Upto, cluster
<1>11. \A m \in Node \ {n} : LeftAlone(m)
  BY <1>3, <1>8 DEF LeftAlone
<1> QED BY <1>4, <1>8, <1>9, <1>10, <1>11, OneNodeStep

LEMMA BeginApplyStep ==
    ASSUME ExecutedInv, NEW n \in Node, n \notin lacking, BeginApply(n)
    PROVE  ExecutedInv'
<1>1. TypeOK /\ Len(log) \in Nat /\ lastApplied[n] \in Nat /\ Applying(n) /\ Covered(n)
  BY SMTT(30), LogLength DEF ExecutedInv, TypeOK, Upto
<1>2. /\ status[n] = "up" /\ applying[n] = Nil /\ lastApplied[n] < Len(log)
      /\ Pending(n).type = "COMMAND" /\ NextEntry(n) = Pending(n)
  BY <1>1 DEF BeginApply, MayApply, MayGoOn, NextEntry, Pending, TypeOK, Upto
<1>3. buffered[n] = <<>> /\ db[n] = DbAfter(log, lastApplied[n])
  BY <1>1, <1>2 DEF Applying, ApplyingInOrder
<1>4. /\ buffered' = [buffered EXCEPT ![n] = Append(@, Pending(n).command)]
      /\ buffered'[n] = <<Pending(n).command>> /\ Len(buffered'[n]) = 1
  BY <1>1, <1>2, <1>3 DEF BeginApply, TypeOK
<1>5. applying' = [applying EXCEPT ![n] = 0] /\ UNCHANGED <<lastApplied, snapshot>>
  <2>1. ~ (Len(buffered'[n]) < TRESHOLD)
    <3> DEFINE k == Len(buffered'[n])
    <3>1. k = 1
      BY <1>4
    <3> HIDE DEF k
    <3>2. ~ (k < TRESHOLD)
      BY <3>1 DEF TRESHOLD
    <3> QED BY <3>2 DEF k
  <2> QED BY <2>1 DEF BeginApply
<1>6. UNCHANGED <<cluster, held, db, commitIndex, attached, status, lacking>>
  BY DEF BeginApply, owing
<1>7. LogKept /\ LogInv' /\ log' = log
  BY <1>1, <1>6, SameLog, LogInvSame DEF cluster
<1>8. applying'[n] = 0 /\ 0 # Nil
  BY <1>1, <1>5, DaemonAssumption DEF TypeOK
<1>9. Applying(n)'
  <2>1. Pending(n)' = Pending(n)
    BY <1>5, <1>7 DEF Pending
  <2> QED BY <1>1, <1>2, <1>3, <1>4, <1>5, <1>6, <1>7, <1>8, <2>1 DEF Applying, ApplyingInOrder
<1>10. Covered(n)'
  BY <1>1, <1>2, <1>5, <1>6, <1>7 DEF Covered, IsDecided, Upto
<1>11. TypeOK'
  <2>1. \A m \in Node : \E S : buffered'[m] \in Seq(S)
    <3> SUFFICES ASSUME NEW m \in Node PROVE \E S : buffered'[m] \in Seq(S)
      OBVIOUS
    <3>1. CASE m = n
      <4> DEFINE c == Pending(n).command
      <4>1. buffered'[n] = <<c>>
        BY <1>4
      <4> HIDE DEF c
      <4>2. buffered'[n] \in Seq({c})
        BY <4>1
      <4> QED BY <3>1, <4>2
    <3>2. CASE m # n
      BY <1>1, <1>4, <3>2 DEF TypeOK
    <3> QED BY <3>1, <3>2
  <2>2. applying' \in [Node -> {Nil} \cup Nat] /\ DOMAIN buffered' = Node
    BY <1>1, <1>4, <1>5 DEF TypeOK
  <2> QED BY <1>1, <1>5, <1>6, <1>7, <2>1, <2>2 DEF TypeOK, Upto, cluster
<1>12. \A m \in Node \ {n} : LeftAlone(m)
  BY <1>1, <1>4, <1>5, <1>6 DEF LeftAlone, TypeOK
<1> QED BY <1>7, <1>9, <1>10, <1>11, <1>12, OneNodeStep

\* The command that a node is about to execute: it has not run yet, it is the
\* next one of the log, and its collection is new to the node's database.
LEMMA AboutToExecute ==
    ASSUME ExecutedInv, NEW n \in Node, n \notin lacking, applying[n] # Nil
    PROVE  /\ status[n] = "up" /\ lastApplied[n] < Len(log) /\ lastApplied[n] >= 1
           /\ lastApplied[n] \in Nat /\ Pending(n).type = "COMMAND"
           /\ buffered[n] = <<Pending(n).command>>
           /\ db[n] = DbAfter(log, lastApplied[n] + applying[n])
           /\ Executing(n) <=> applying[n] = 0
           /\ Executing(n) =>
                 /\ CommandNow(n) = Pending(n).command
                 /\ ~ ReturnsEarly(db[n], CommandNow(n))
                 /\ Execution(db[n], CommandNow(n)).db = DbAfter(log, lastApplied[n] + 1)
<1>1. /\ status[n] = "up" /\ lastApplied[n] < Len(log) /\ Pending(n).type = "COMMAND"
      /\ buffered[n] = <<Pending(n).command>>
      /\ db[n] = DbAfter(log, lastApplied[n] + applying[n])
  BY DEF ExecutedInv, Applying, ApplyingInOrder
<1>2. /\ lastApplied[n] \in Nat /\ lastApplied[n] >= 1
      /\ DbAfter(log, lastApplied[n] + 1)
            = Execution(DbAfter(log, lastApplied[n]), Pending(n).command).db
      /\ ~ ReturnsEarly(DbAfter(log, lastApplied[n]), Pending(n).command)
  BY <1>1, NextDecided DEF AfterEntry
<1>3. applying[n] \in {0, 1}
  BY DEF ExecutedInv, Applying, ApplyingInOrder
<1>4. Executing(n) <=> applying[n] = 0
  BY <1>1, <1>3 DEF Executing
<1>5. ASSUME Executing(n)
      PROVE  /\ CommandNow(n) = Pending(n).command /\ db[n] = DbAfter(log, lastApplied[n])
  BY <1>1, <1>2, <1>4, <1>5 DEF CommandNow
<1> QED BY <1>1, <1>2, <1>4, <1>5

LEMMA ExecuteStep ==
    ASSUME ExecutedInv, NEW n \in Node, n \notin lacking, Execute(n)
    PROVE  ExecutedInv'
<1>1. TypeOK /\ Len(log) \in Nat /\ Applying(n) /\ Covered(n) /\ Executing(n) /\ applying[n] # Nil
  BY LogLength DEF ExecutedInv, Execute, Executing
<1>2. /\ status[n] = "up" /\ lastApplied[n] < Len(log) /\ lastApplied[n] >= 1
      /\ lastApplied[n] \in Nat /\ Pending(n).type = "COMMAND"
      /\ buffered[n] = <<Pending(n).command>> /\ applying[n] = 0
      /\ ~ ReturnsEarly(db[n], CommandNow(n))
      /\ Execution(db[n], CommandNow(n)).db = DbAfter(log, lastApplied[n] + 1)
  BY <1>1, AboutToExecute
<1>3. /\ applying' = [applying EXCEPT ![n] = @ + 1]
      /\ db' = [db EXCEPT ![n] = Execution(@, CommandNow(n)).db]
      /\ UNCHANGED <<lastApplied, snapshot, cluster, held, commitIndex, attached, buffered, status>>
      /\ UNCHANGED lacking
  BY <1>2 DEF Execute, owing
<1>4. LogKept /\ LogInv' /\ log' = log
  BY <1>1, <1>3, SameLog, LogInvSame DEF cluster
<1>5. applying'[n] = 1 /\ db'[n] = DbAfter(log, lastApplied[n] + 1) /\ 1 # Nil
  BY <1>1, <1>2, <1>3, DaemonAssumption DEF TypeOK
<1>6. Applying(n)'
  <2>1. Pending(n)' = Pending(n)
    BY <1>3, <1>4 DEF Pending
  <2> QED BY <1>2, <1>3, <1>4, <1>5, <2>1 DEF Applying, ApplyingInOrder
<1>7. Covered(n)'
  BY <1>1, <1>2, <1>3, <1>4 DEF Covered, IsDecided, Upto
<1>8. TypeOK'
  <2>1. applying' \in [Node -> {Nil} \cup Nat] /\ DOMAIN db' = Node
    BY <1>1, <1>2, <1>3 DEF TypeOK
  <2> QED BY <1>1, <1>3, <1>4, <2>1 DEF TypeOK, Upto, cluster
<1>9. \A m \in Node \ {n} : LeftAlone(m)
  BY <1>1, <1>3 DEF LeftAlone, TypeOK
<1> QED BY <1>4, <1>6, <1>7, <1>8, <1>9, OneNodeStep

LEMMA ThrowStep ==
    ASSUME ExecutedInv, NEW n \in Node, n \notin lacking, Throw(n)
    PROVE  ExecutedInv'
<1>1. TypeOK /\ Len(log) \in Nat /\ Covered(n) /\ applying[n] # Nil
  BY LogLength DEF ExecutedInv, Throw
<1>2. lastApplied[n] >= 1 /\ lastApplied[n] \in Nat
  BY <1>1, AboutToExecute
<1>3. /\ applying' = [applying EXCEPT ![n] = Nil]
      /\ status' = [status EXCEPT ![n] = "stopped"]
      /\ DOMAIN db' = Node /\ \A m \in Node \ {n} : db'[m] = db[m]
      /\ UNCHANGED <<cluster, held, snapshot, lastApplied, commitIndex, attached, buffered, lacking>>
  BY <1>1 DEF Throw, raft, owing, TypeOK
<1>4. LogKept /\ LogInv' /\ log' = log
  BY <1>1, <1>3, SameLog, LogInvSame DEF cluster
<1>5. applying'[n] = Nil /\ status'[n] = "stopped"
  BY <1>1, <1>3 DEF TypeOK
<1>6. Applying(n)'
  BY <1>5 DEF Applying, ApplyingInOrder
<1>7. Covered(n)'
  BY <1>1, <1>2, <1>3, <1>4, <1>5 DEF Covered, IsDecided, Upto
<1>8. TypeOK'
  BY <1>1, <1>3, <1>4 DEF TypeOK, Upto, cluster
<1>9. \A m \in Node \ {n} : LeftAlone(m)
  BY <1>1, <1>3 DEF LeftAlone, TypeOK
<1> QED BY <1>4, <1>6, <1>7, <1>8, <1>9, OneNodeStep

LEMMA FinishApplyStep ==
    ASSUME ExecutedInv, NEW n \in Node, n \notin lacking, FinishApply(n)
    PROVE  ExecutedInv'
<1>1. TypeOK /\ LogInv /\ Len(log) \in Nat /\ Applying(n) /\ Covered(n)
  BY LogLength DEF ExecutedInv
<1>2. applying[n] # Nil /\ ~ Executing(n)
  <2>1. Len(buffered[n]) \in Nat /\ applying[n] = Len(buffered[n])
    <3>1. PICK S : buffered[n] \in Seq(S)
      BY <1>1 DEF TypeOK
    <3> QED BY <3>1 DEF FinishApply
  <2> QED BY <2>1, DaemonAssumption DEF Executing
<1>3. /\ status[n] = "up" /\ lastApplied[n] < Len(log) /\ lastApplied[n] \in Nat
      /\ applying[n] = 1 /\ db[n] = DbAfter(log, lastApplied[n] + 1)
  <2>1. applying[n] = 1
    BY <1>1, <1>2, AboutToExecute DEF Applying, ApplyingInOrder
  <2> QED BY <1>2, <2>1, AboutToExecute
<1>4. /\ buffered' = [buffered EXCEPT ![n] = <<>>] /\ applying' = [applying EXCEPT ![n] = Nil]
      /\ Applied(n, snapshot[n])
      /\ UNCHANGED <<leader, db, commitIndex, attached, status, lacking>>
  BY DEF FinishApply, Emptied, owing
<1>5. LogKept /\ LogInv' /\ held' \in [Node -> Upto'] /\ Upto \subseteq Upto'
  <2>1. CASE UNCHANGED <<log, held>>
    BY <1>1, <1>4, <2>1, SameLog, LogInvSame DEF TypeOK, Upto
  <2>2. CASE AppendTo(n, Entry("DROPLOG", Nil))
    <3> DEFINE e == Entry("DROPLOG", Nil)
    <3>1. /\ log' = Append(log, e) /\ held' = [held EXCEPT ![n] = Len(log) + 1]
          /\ e.type # "COMMAND"
      BY <2>2 DEF AppendTo, Entry
    <3> HIDE DEF e
    <3>2. LogKept /\ Len(log') = Len(log) + 1 /\ LogInv'
      BY <1>1, <3>1, LongerLog, LogInvLonger
    <3> QED BY <1>1, <3>1, <3>2 DEF TypeOK, Upto
  <2> QED BY <2>1, <2>2 DEF FinishApply
<1>6. snapshot[n] # Nil => IsDecided(snapshot[n])
  BY <1>1 DEF Covered
<1>7. /\ Covered(n)' /\ lastApplied' = [lastApplied EXCEPT ![n] = @ + 1]
      /\ lastApplied'[n] \in Upto /\ lastApplied' \in [Node -> Upto'] /\ DOMAIN snapshot' = Node
      /\ \A m \in Node \ {n} : lastApplied'[m] = lastApplied[m] /\ snapshot'[m] = snapshot[m]
  BY <1>3, <1>4, <1>5, <1>6, AppliedStep
<1>8. Applying(n)'
  <2>1. /\ lastApplied'[n] = lastApplied[n] + 1 /\ applying'[n] = Nil
        /\ buffered'[n] = <<>> /\ db'[n] = db[n]
    BY <1>1, <1>4, <1>7 DEF TypeOK
  <2>2. DbAfter(log', lastApplied'[n]) = DbAfter(log, lastApplied'[n])
    BY <1>1, <1>5, <1>7, KeptDecided
  <2> QED BY <1>3, <2>1, <2>2 DEF Applying, ApplyingInOrder
<1>9. TypeOK'
  <2>1. \A m \in Node : \E S : buffered'[m] \in Seq(S)
    <3> SUFFICES ASSUME NEW m \in Node PROVE \E S : buffered'[m] \in Seq(S)
      OBVIOUS
    <3>1. CASE m = n
      <4>1. buffered'[n] = <<>>
        BY <1>1, <1>4 DEF TypeOK
      <4>2. buffered'[n] \in Seq({})
        BY <4>1
      <4> QED BY <3>1, <4>2
    <3>2. CASE m # n
      BY <1>1, <1>4, <3>2 DEF TypeOK
    <3> QED BY <3>1, <3>2
  <2>2. \E S : log' \in Seq(S)
    BY <1>5 DEF LogKept
  <2>3. DOMAIN buffered' = Node /\ applying' \in [Node -> {Nil} \cup Nat]
    BY <1>1, <1>4 DEF TypeOK
  <2>4. commitIndex' \in [Node -> Upto']
    BY <1>1, <1>4, <1>5 DEF TypeOK
  <2> QED BY <1>1, <1>4, <1>5, <1>7, <2>1, <2>2, <2>3, <2>4 DEF TypeOK
<1>10. \A m \in Node \ {n} : LeftAlone(m)
  BY <1>1, <1>4, <1>7 DEF LeftAlone, TypeOK
<1> QED BY <1>5, <1>7, <1>8, <1>9, <1>10, OneNodeStep

\* A node that has skipped commands may execute anything: of what it does next
\* only the types matter, and that its snapshots tell of it.
LEMMA LackingKept ==
    ASSUME ExecutedInv, NEW n \in Node, n \in lacking, UNCHANGED <<lacking, leader, commitIndex, attached>>,
           LogKept, LogInv', \A m \in Node \ {n} : LeftAlone(m),
           held' \in [Node -> Upto'], lastApplied' \in [Node -> Upto'],
           DOMAIN db' = Node, DOMAIN snapshot' = Node, DOMAIN buffered' = Node,
           \E S : buffered'[n] \in Seq(S),
           applying' \in [Node -> {Nil} \cup Nat], status' \in [Node -> {"up", "stopped", "down"}],
           Covered(n)',
           applying'[n] # Nil => status'[n] = "up" /\ lastApplied'[n] < Len(log')
    PROVE  ExecutedInv'
<1>1. Applying(n)'
  BY DEF Applying
<1>2. \A m \in Node : \E S : buffered'[m] \in Seq(S)
  <2> SUFFICES ASSUME NEW m \in Node PROVE \E S : buffered'[m] \in Seq(S)
    OBVIOUS
  <2>1. CASE m = n
    BY <2>1
  <2>2. CASE m # n
    BY <2>2 DEF LeftAlone, ExecutedInv, TypeOK
  <2> QED BY <2>1, <2>2
<1>3. commitIndex' \in [Node -> Upto']
  BY KeptDecided DEF ExecutedInv, TypeOK
<1>4. TypeOK'
  BY <1>2, <1>3 DEF ExecutedInv, TypeOK, LogKept
<1> QED BY <1>1, <1>4, OneNodeStep

LEMMA LackingCovered ==
    ASSUME ExecutedInv, NEW n \in Node, n \in lacking, UNCHANGED lacking, LogKept,
           snapshot'[n] = snapshot[n], status'[n] # "down"
    PROVE  Covered(n)'
BY KeptDecided DEF ExecutedInv, Covered, IsDecided

LEMMA LackingBegin ==
    ASSUME ExecutedInv, NEW n \in Node, n \in lacking, BeginApply(n)
    PROVE  ExecutedInv'
<1>1. TypeOK /\ Len(log) \in Nat /\ lastApplied[n] \in Nat /\ commitIndex[n] \in Upto
  BY LogLength DEF ExecutedInv, TypeOK, Upto
<1>2. PICK S : buffered[n] \in Seq(S)
  BY <1>1 DEF TypeOK
<1> DEFINE c == NextEntry(n).command
<1>3. /\ buffered' = [buffered EXCEPT ![n] = Append(@, c)]
      /\ buffered'[n] = Append(buffered[n], c)
      /\ status[n] = "up" /\ lastApplied[n] < commitIndex[n]
      /\ UNCHANGED <<cluster, held, db, commitIndex, attached, status, lacking>>
  BY <1>1 DEF BeginApply, MayApply, MayGoOn, owing, TypeOK
<1> HIDE DEF c
<1>4. buffered'[n] \in Seq(S \cup {c}) /\ Len(buffered'[n]) = Len(buffered[n]) + 1
  BY <1>2, <1>3
<1>5. ~ (Len(buffered'[n]) < TRESHOLD)
  <2>1. Len(buffered[n]) \in Nat
    BY <1>2
  <2> QED BY <1>4, <2>1 DEF TRESHOLD
<1>6. applying' = [applying EXCEPT ![n] = 0] /\ UNCHANGED <<lastApplied, snapshot>>
  BY <1>5 DEF BeginApply
<1>7. LogKept /\ LogInv' /\ log' = log
  BY <1>1, <1>3, SameLog, LogInvSame DEF cluster
<1>8. Covered(n)'
  BY <1>3, <1>6, <1>7, LackingCovered
<1>9. lastApplied[n] < Len(log)
  BY <1>1, <1>3 DEF Upto
<1>10. /\ applying' \in [Node -> {Nil} \cup Nat] /\ DOMAIN buffered' = Node
       /\ held' \in [Node -> Upto'] /\ lastApplied' \in [Node -> Upto']
  BY <1>1, <1>3, <1>6, <1>7 DEF TypeOK, Upto
<1>11. \A m \in Node \ {n} : LeftAlone(m)
  BY <1>1, <1>3, <1>6 DEF LeftAlone, TypeOK
<1> QED BY <1>1, <1>3, <1>4, <1>6, <1>7, <1>8, <1>9, <1>10, <1>11, LackingKept DEF TypeOK, cluster

LEMMA LackingExecute ==
    ASSUME ExecutedInv, NEW n \in Node, n \in lacking, Execute(n)
    PROVE  ExecutedInv'
<1>1. /\ TypeOK /\ Len(log) \in Nat /\ Covered(n) /\ applying[n] \in Nat
      /\ status[n] = "up" /\ lastApplied[n] < Len(log)
  BY LogLength DEF ExecutedInv, TypeOK, Applying, Execute, Executing
<1>2. UNCHANGED <<cluster, held, commitIndex, attached, buffered, status, lacking>>
  BY DEF Execute, owing
<1>3. LogKept /\ LogInv' /\ log' = log
  BY <1>1, <1>2, SameLog, LogInvSame DEF cluster
<1>4. /\ held' \in [Node -> Upto'] /\ \E S : buffered'[n] \in Seq(S)
      /\ status' \in [Node -> {"up", "stopped", "down"}] /\ DOMAIN buffered' = Node
  BY <1>1, <1>2, <1>3 DEF TypeOK, Upto
<1>5. CASE ReturnsEarly(db[n], CommandNow(n))
  <2>1. /\ applying' = [applying EXCEPT ![n] = Nil] /\ Applied(n, snapshot[n]) /\ db' = db
    BY <1>5 DEF Execute
  <2>2. snapshot[n] # Nil => IsDecided(snapshot[n])
    BY <1>1 DEF Covered
  <2>3. /\ Covered(n)' /\ lastApplied' \in [Node -> Upto'] /\ DOMAIN snapshot' = Node
        /\ \A m \in Node \ {n} : lastApplied'[m] = lastApplied[m] /\ snapshot'[m] = snapshot[m]
    BY <1>1, <1>2, <1>3, <2>1, <2>2, AppliedStep
  <2>4. applying' \in [Node -> {Nil} \cup Nat] /\ applying'[n] = Nil /\ DOMAIN db' = Node
    BY <1>1, <2>1 DEF TypeOK
  <2>5. \A m \in Node \ {n} : LeftAlone(m)
    BY <1>1, <1>2, <2>1, <2>3 DEF LeftAlone, TypeOK
  <2> QED BY <1>2, <1>3, <1>4, <2>3, <2>4, <2>5, LackingKept DEF cluster
<1>6. CASE ~ ReturnsEarly(db[n], CommandNow(n))
  <2>1. /\ applying' = [applying EXCEPT ![n] = @ + 1] /\ UNCHANGED <<lastApplied, snapshot>>
        /\ db' = [db EXCEPT ![n] = Execution(@, CommandNow(n)).db]
    BY <1>6 DEF Execute
  <2>2. Covered(n)'
    BY <1>1, <1>2, <1>3, <2>1, LackingCovered
  <2>3. applying' \in [Node -> {Nil} \cup Nat] /\ DOMAIN db' = Node
    BY <1>1, <2>1 DEF TypeOK
  <2>4. lastApplied' \in [Node -> Upto'] /\ DOMAIN snapshot' = Node
    BY <1>1, <1>3, <2>1 DEF TypeOK, Upto
  <2>5. \A m \in Node \ {n} : LeftAlone(m)
    BY <1>1, <1>2, <2>1 DEF LeftAlone, TypeOK
  <2>6. status'[n] = "up" /\ lastApplied'[n] < Len(log')
    BY <1>1, <1>2, <1>3, <2>1
  <2> QED BY <1>2, <1>3, <1>4, <2>2, <2>3, <2>4, <2>5, <2>6, LackingKept DEF cluster
<1> QED BY <1>5, <1>6

LEMMA LackingThrow ==
    ASSUME ExecutedInv, NEW n \in Node, n \in lacking, Throw(n)
    PROVE  ExecutedInv'
<1>1. TypeOK /\ Len(log) \in Nat
  BY LogLength DEF ExecutedInv
<1>2. /\ applying' = [applying EXCEPT ![n] = Nil]
      /\ status' = [status EXCEPT ![n] = "stopped"]
      /\ DOMAIN db' = Node /\ \A m \in Node \ {n} : db'[m] = db[m]
      /\ UNCHANGED <<cluster, held, snapshot, lastApplied, commitIndex, attached, buffered, lacking>>
  BY <1>1 DEF Throw, raft, owing, TypeOK
<1>3. LogKept /\ LogInv' /\ log' = log
  BY <1>1, <1>2, SameLog, LogInvSame DEF cluster
<1>4. Covered(n)'
  <2>1. status'[n] = "stopped"
    BY <1>1, <1>2 DEF TypeOK
  <2> QED BY <1>2, <1>3, <2>1, LackingCovered
<1>5. /\ applying' \in [Node -> {Nil} \cup Nat] /\ applying'[n] = Nil
      /\ status' \in [Node -> {"up", "stopped", "down"}]
  BY <1>1, <1>2 DEF TypeOK
<1>6. \A m \in Node \ {n} : LeftAlone(m)
  BY <1>1, <1>2 DEF LeftAlone, TypeOK
<1>7. /\ held' \in [Node -> Upto'] /\ lastApplied' \in [Node -> Upto']
      /\ DOMAIN snapshot' = Node /\ DOMAIN buffered' = Node /\ \E S : buffered'[n] \in Seq(S)
  BY <1>1, <1>2, <1>3 DEF TypeOK, Upto
<1> QED BY <1>2, <1>3, <1>4, <1>5, <1>6, <1>7, LackingKept DEF cluster

LEMMA LackingFinish ==
    ASSUME ExecutedInv, NEW n \in Node, n \in lacking, FinishApply(n)
    PROVE  ExecutedInv'
<1>1. TypeOK /\ LogInv /\ Len(log) \in Nat /\ Covered(n)
  BY LogLength DEF ExecutedInv
<1>2. applying[n] # Nil
  <2>1. PICK S : buffered[n] \in Seq(S)
    BY <1>1 DEF TypeOK
  <2> QED BY <2>1, DaemonAssumption DEF FinishApply
<1>3. status[n] = "up" /\ lastApplied[n] < Len(log)
  BY <1>2 DEF ExecutedInv, Applying
<1>4. /\ buffered' = [buffered EXCEPT ![n] = <<>>] /\ applying' = [applying EXCEPT ![n] = Nil]
      /\ Applied(n, snapshot[n])
      /\ UNCHANGED <<leader, db, commitIndex, attached, status, lacking>>
  BY DEF FinishApply, Emptied, owing
<1>5. LogKept /\ LogInv' /\ held' \in [Node -> Upto']
  <2>1. CASE UNCHANGED <<log, held>>
    BY <1>1, <1>4, <2>1, SameLog, LogInvSame DEF TypeOK, Upto
  <2>2. CASE AppendTo(n, Entry("DROPLOG", Nil))
    <3> DEFINE e == Entry("DROPLOG", Nil)
    <3>1. /\ log' = Append(log, e) /\ held' = [held EXCEPT ![n] = Len(log) + 1]
          /\ e.type # "COMMAND"
      BY <2>2 DEF AppendTo, Entry
    <3> HIDE DEF e
    <3>2. LogKept /\ Len(log') = Len(log) + 1 /\ LogInv'
      BY <1>1, <3>1, LongerLog, LogInvLonger
    <3> QED BY <1>1, <3>1, <3>2 DEF TypeOK, Upto
  <2> QED BY <2>1, <2>2 DEF FinishApply
<1>6. snapshot[n] # Nil => IsDecided(snapshot[n])
  BY <1>1 DEF Covered
<1>7. /\ Covered(n)' /\ lastApplied' \in [Node -> Upto'] /\ DOMAIN snapshot' = Node
      /\ \A m \in Node \ {n} : lastApplied'[m] = lastApplied[m] /\ snapshot'[m] = snapshot[m]
  BY <1>3, <1>4, <1>5, <1>6, AppliedStep
<1>8. /\ applying' \in [Node -> {Nil} \cup Nat] /\ applying'[n] = Nil
      /\ DOMAIN buffered' = Node /\ buffered'[n] = <<>>
  BY <1>1, <1>4 DEF TypeOK
<1>9. \E S : buffered'[n] \in Seq(S)
  <2>1. buffered'[n] \in Seq({})
    BY <1>8
  <2> QED BY <2>1
<1>10. \A m \in Node \ {n} : LeftAlone(m)
  BY <1>1, <1>4, <1>7 DEF LeftAlone, TypeOK
<1> QED BY <1>1, <1>4, <1>5, <1>7, <1>8, <1>9, <1>10, LackingKept DEF TypeOK

LEMMA SkipStep ==
    ASSUME ExecutedInv, NEW n \in Node, Skip(n)
    PROVE  ExecutedInv'
<1>1. TypeOK /\ Len(log) \in Nat /\ Covered(n) /\ Applying(n)
  BY LogLength DEF ExecutedInv
<1> DEFINE i == SnapshotIndex(n)
<1>2. /\ status[n] = "up" /\ applying[n] = Nil /\ lastApplied[n] < i
      /\ lastApplied' = [lastApplied EXCEPT ![n] = i] /\ lacking' = lacking \cup {n}
      /\ UNCHANGED <<cluster, held, snapshot, db, commitIndex, attached, buffered, applying, status>>
  BY DEF Skip, MayGoOn, disk, fsm
<1>3. i \in Upto
  <2>1. CASE snapshot[n] = Nil
    BY <1>1, <2>1 DEF SnapshotIndex, Upto
  <2>2. CASE snapshot[n] # Nil
    BY <1>1, <2>2 DEF SnapshotIndex, Covered, IsDecided
  <2> QED BY <2>1, <2>2
<1> HIDE DEF i
<1>4. LogKept /\ LogInv' /\ log' = log
  BY <1>1, <1>2, SameLog, LogInvSame DEF cluster
<1>5. Applying(n)'
  BY <1>2 DEF Applying
<1>6. Covered(n)'
  BY <1>1, <1>2, <1>4 DEF Covered, IsDecided, Upto
<1>7. TypeOK'
  BY <1>1, <1>2, <1>3, <1>4 DEF TypeOK, Upto, cluster
<1>8. \A m \in Node \ {n} : LeftAlone(m)
  BY <1>1, <1>2 DEF LeftAlone, TypeOK
<1> QED BY <1>4, <1>5, <1>6, <1>7, <1>8, OneNodeStep

\* The snapshot that reaches a node is one of a node that leads.
LEMMA SnapshotSent ==
    ASSUME ExecutedInv, NEW n \in Node, SnapshotComes(n), SaveSnapshot(n), UNCHANGED log
    PROVE  /\ leader \in Node /\ snapshot[leader] # Nil /\ IsDecided(snapshot[leader])
           /\ snapshot[leader].index = SnapshotIndex(leader) /\ SnapshotIndex(leader) \in Upto
           /\ status[n] # "down" /\ applying[n] = Nil
           /\ DOMAIN snapshot' = Node /\ snapshot'[n] = snapshot[leader]
           /\ \A m \in Node \ {n} : snapshot'[m] = snapshot[m]
           /\ held' \in [Node -> Upto]
<1>1. TypeOK /\ leader \in Node /\ snapshot[leader] # Nil /\ status[n] # "down" /\ applying[n] = Nil
  BY DEF ExecutedInv, TypeOK, SnapshotComes
<1>2. IsDecided(snapshot[leader])
  BY <1>1 DEF ExecutedInv, Covered
<1>3. snapshot[leader].index = SnapshotIndex(leader) /\ SnapshotIndex(leader) \in Upto
  BY <1>1, <1>2 DEF SnapshotIndex, IsDecided
<1>4. /\ DOMAIN snapshot' = Node /\ snapshot'[n] = snapshot[leader]
      /\ \A m \in Node \ {n} : snapshot'[m] = snapshot[m]
  BY <1>1 DEF SaveSnapshot, TypeOK
<1> DEFINE i == SnapshotIndex(leader)
<1>5. held' = [held EXCEPT ![n] = IF @ < i THEN i ELSE @]
  BY DEF SaveSnapshot
<1> HIDE DEF i
<1>6. i \in Upto
  BY <1>3 DEF i
<1>7. held' \in [Node -> Upto]
  BY <1>1, <1>5, <1>6 DEF TypeOK
<1> QED BY <1>1, <1>2, <1>3, <1>4, <1>7

LEMMA InstallSnapshotStep ==
    ASSUME ExecutedInv, NEW n \in Node, InstallSnapshot(n)
    PROVE  ExecutedInv'
<1>1. TypeOK /\ Len(log) \in Nat /\ Applying(n)
  BY LogLength DEF ExecutedInv
<1>2. SnapshotComes(n) /\ SaveSnapshot(n) /\ UNCHANGED <<cluster, attached, buffered, applying, status>>
  BY DEF InstallSnapshot, fsm
<1> DEFINE i == SnapshotIndex(leader)
<1> DEFINE snap == snapshot[leader]
<1>3. /\ snap # Nil /\ IsDecided(snap) /\ snap.index = i /\ i \in Upto
      /\ status[n] # "down" /\ applying[n] = Nil
      /\ DOMAIN snapshot' = Node /\ snapshot'[n] = snap
      /\ \A m \in Node \ {n} : snapshot'[m] = snapshot[m]
      /\ held' \in [Node -> Upto]
  BY <1>2, SnapshotSent DEF cluster
<1>4. /\ db' = [db EXCEPT ![n] = snap.data]
      /\ commitIndex' = [commitIndex EXCEPT ![n] = i]
      /\ lastApplied' = [lastApplied EXCEPT ![n] = i]
      /\ lacking' = IF snap.lacking THEN lacking \cup {n} ELSE lacking
  BY DEF InstallSnapshot
<1> HIDE DEF i, snap
<1>5. LogKept /\ LogInv' /\ log' = log
  BY <1>1, <1>2, SameLog, LogInvSame DEF cluster
<1>6. /\ db'[n] = snap.data /\ lastApplied'[n] = i
      /\ n \notin lacking' => n \notin lacking /\ ~ snap.lacking
  BY <1>1, <1>4 DEF TypeOK
<1>7. Applying(n)'
  BY <1>1, <1>2, <1>3, <1>5, <1>6 DEF Applying, ApplyingInOrder, IsDecided
<1>8. Covered(n)'
  BY <1>2, <1>3, <1>5 DEF Covered, IsDecided, Upto
<1>9. TypeOK'
  BY <1>1, <1>2, <1>3, <1>4, <1>5 DEF TypeOK, Upto, cluster
<1>10. \A m \in Node \ {n} : LeftAlone(m)
  BY <1>1, <1>2, <1>3, <1>4 DEF LeftAlone, TypeOK
<1> QED BY <1>5, <1>7, <1>8, <1>9, <1>10, OneNodeStep

LEMMA RefuseSnapshotStep ==
    ASSUME ExecutedInv, NEW n \in Node, RefuseSnapshot(n)
    PROVE  ExecutedInv'
<1>1. TypeOK /\ Len(log) \in Nat /\ Applying(n) /\ Covered(n)
  BY LogLength DEF ExecutedInv
<1>2. /\ SnapshotComes(n) /\ SaveSnapshot(n)
      /\ UNCHANGED <<cluster, db, commitIndex, lastApplied, attached, buffered, applying, status, lacking>>
  BY DEF RefuseSnapshot, raft, fsm
<1>3. /\ snapshot[leader] # Nil /\ IsDecided(snapshot[leader])
      /\ status[n] # "down"
      /\ DOMAIN snapshot' = Node /\ snapshot'[n] = snapshot[leader]
      /\ \A m \in Node \ {n} : snapshot'[m] = snapshot[m]
      /\ held' \in [Node -> Upto]
  BY <1>2, SnapshotSent DEF cluster
<1>4. LogKept /\ LogInv' /\ log' = log
  BY <1>1, <1>2, SameLog, LogInvSame DEF cluster
<1>5. Applying(n)'
  <2>1. Pending(n)' = Pending(n)
    BY <1>2, <1>4 DEF Pending
  <2> QED BY <1>1, <1>2, <1>4, <2>1 DEF Applying, ApplyingInOrder
<1>6. Covered(n)'
  BY <1>2, <1>3, <1>4 DEF Covered, IsDecided, Upto
<1>7. TypeOK'
  BY <1>1, <1>2, <1>3, <1>4 DEF TypeOK, Upto, cluster
<1>8. \A m \in Node \ {n} : LeftAlone(m)
  BY <1>1, <1>2, <1>3 DEF LeftAlone, TypeOK
<1> QED BY <1>4, <1>5, <1>6, <1>7, <1>8, OneNodeStep

\* A node that goes down has a snapshot, or has changed nothing.
LEMMA CrashStep ==
    ASSUME ~ Uncovered, ExecutedInv, NEW n \in Node, Crash(n)
    PROVE  ExecutedInv'
<1>1. TypeOK /\ Len(log) \in Nat /\ Covered(n)
  BY LogLength DEF ExecutedInv
<1>2. /\ snapshot[n] # Nil \/ lastApplied[n] = 0
      /\ status' = [status EXCEPT ![n] = "down"]
      /\ leader' \in {leader, Nil}
      /\ buffered' = [buffered EXCEPT ![n] = <<>>]
      /\ applying' = [applying EXCEPT ![n] = Nil]
      /\ commitIndex' = [commitIndex EXCEPT ![n] = 0]
      /\ lastApplied' = [lastApplied EXCEPT ![n] = 0]
      /\ UNCHANGED <<log, held, snapshot, db, attached, lacking>>
  BY DEF Crash, Untouched, disk, owing
<1>3. LogKept /\ LogInv'
  BY <1>1, <1>2, SameLog, LogInvSame
<1>4. /\ status'[n] = "down" /\ buffered'[n] = <<>> /\ applying'[n] = Nil /\ lastApplied'[n] = 0
  BY <1>1, <1>2 DEF TypeOK
<1>5. Applying(n)'
  BY <1>4 DEF Applying, ApplyingInOrder
<1>6. Covered(n)'
  BY <1>1, <1>2, <1>4 DEF Covered, IsDecided, Upto
<1>7. TypeOK'
  <2>1. \A m \in Node : \E S : buffered'[m] \in Seq(S)
    <3> SUFFICES ASSUME NEW m \in Node PROVE \E S : buffered'[m] \in Seq(S)
      OBVIOUS
    <3>1. CASE m = n
      <4>1. buffered'[n] \in Seq({})
        BY <1>4
      <4> QED BY <3>1, <4>1
    <3>2. CASE m # n
      BY <1>1, <1>2, <3>2 DEF TypeOK
    <3> QED BY <3>1, <3>2
  <2>2. 0 \in Upto /\ Upto' = Upto
    BY <1>1, <1>2 DEF Upto
  <2>3. leader' \in Node \cup {Nil} /\ DOMAIN buffered' = Node
    BY <1>1, <1>2 DEF TypeOK
  <2>4. /\ applying' \in [Node -> {Nil} \cup Nat] /\ status' \in [Node -> {"up", "stopped", "down"}]
        /\ commitIndex' \in [Node -> Upto'] /\ lastApplied' \in [Node -> Upto']
    BY <1>1, <1>2, <2>2 DEF TypeOK
  <2> QED BY <1>1, <1>2, <2>1, <2>2, <2>3, <2>4 DEF TypeOK
<1>8. \A m \in Node \ {n} : LeftAlone(m)
  BY <1>1, <1>2 DEF LeftAlone, TypeOK
<1> QED BY <1>3, <1>5, <1>6, <1>7, <1>8, OneNodeStep

LEMMA RestartStep ==
    ASSUME ExecutedInv, NEW n \in Node, Restart(n)
    PROVE  ExecutedInv'
<1>1. /\ TypeOK /\ Len(log) \in Nat /\ Covered(n) /\ status[n] = "down"
      /\ applying[n] = Nil /\ buffered[n] = <<>>
  BY LogLength DEF ExecutedInv, Restart, Covered
<1> DEFINE i == SnapshotIndex(n)
<1> DEFINE d == IF snapshot[n] = Nil THEN db[n] ELSE snapshot[n].data
<1> DEFINE lacks == IF snapshot[n] = Nil THEN n \in lacking ELSE snapshot[n].lacking
<1>2. /\ i \in Upto /\ (~lacks => d = DbAfter(log, i))
      /\ (snapshot[n] # Nil => snapshot[n].index = i)
  <2>1. CASE snapshot[n] = Nil
    BY <1>1, <2>1, DbAfterStep DEF SnapshotIndex, Covered, Upto
  <2>2. CASE snapshot[n] # Nil
    BY <1>1, <2>2 DEF SnapshotIndex, Covered, IsDecided
  <2> QED BY <2>1, <2>2
<1>3. /\ status' = [status EXCEPT ![n] = "up"] /\ attached' = [attached EXCEPT ![n] = TRUE]
      /\ db' = [db EXCEPT ![n] = d]
      /\ commitIndex' = [commitIndex EXCEPT ![n] = i]
      /\ lastApplied' = [lastApplied EXCEPT ![n] = i]
      /\ \A m \in Node : m \in lacking' <=> IF m = n THEN lacks ELSE m \in lacking
      /\ UNCHANGED <<cluster, held, snapshot, buffered, applying>>
  BY DEF Restart
<1>4. snapshot[n] = Nil /\ ~lacks => d = InitialDb
  BY <1>1 DEF Covered
<1> HIDE DEF i, d, lacks
<1>5. LogKept /\ LogInv' /\ log' = log
  BY <1>1, <1>3, SameLog, LogInvSame DEF cluster
<1>6. status'[n] = "up" /\ db'[n] = d /\ lastApplied'[n] = i
  BY <1>1, <1>3 DEF TypeOK
<1>7. Applying(n)'
  BY <1>1, <1>2, <1>3, <1>5, <1>6 DEF Applying, ApplyingInOrder
<1>8. Covered(n)'
  BY <1>1, <1>2, <1>3, <1>4, <1>5, <1>6 DEF Covered, IsDecided, Upto
<1>9. TypeOK'
  BY <1>1, <1>2, <1>3, <1>5 DEF TypeOK, Upto, cluster
<1>10. \A m \in Node \ {n} : LeftAlone(m)
  BY <1>1, <1>3 DEF LeftAlone, TypeOK
<1> QED BY <1>5, <1>7, <1>8, <1>9, <1>10, OneNodeStep

-----------------------------------------------------------------------------
(* The theorem. *)

LEMMA ExecutedInit ==
    ASSUME Init PROVE ExecutedInv
<1>1. log = <<>> /\ Len(log) = 0 /\ leader = Nil
  BY DEF Init
<1>2. TypeOK
  <2>1. log \in Seq({})
    BY <1>1
  <2> QED BY <1>1, <2>1 DEF Init, TypeOK, Upto
<1>3. LogInv
  BY <1>1 DEF LogInv
<1>4. ASSUME NEW n \in Node PROVE Applying(n) /\ Covered(n)
  <2>1. /\ db[n] = InitialDb /\ buffered[n] = <<>> /\ applying[n] = Nil
        /\ status[n] = "up" /\ lastApplied[n] = 0 /\ snapshot[n] = Nil
    BY DEF Init
  <2> QED BY <2>1, DbAfterStep DEF Applying, ApplyingInOrder, Covered
<1> QED BY <1>2, <1>3, <1>4 DEF ExecutedInv

LEMMA ExecutedNext ==
    ASSUME ~ Repeats, ~ Uncovered, ExecutedInv, [Next]_vars
    PROVE  ExecutedInv'
<1>1. CASE Next
  <2>1. PICK n \in Node :
            \/ Submit(n) \/ Elect(n) \/ Replicate(n) \/ LearnCommit(n) \/ Apply(n)
            \/ InstallSnapshot(n) \/ RefuseSnapshot(n) \/ Maintain(n) \/ Crash(n) \/ Restart(n)
    BY <1>1 DEF Next
  <2> QED BY <2>1, SubmitStep, ElectStep, CatchUpStep, ApplyEntryStep, SkipStep, BeginApplyStep,
             ExecuteStep, ThrowStep, FinishApplyStep, LackingBegin, LackingExecute, LackingThrow,
             LackingFinish, InstallSnapshotStep, RefuseSnapshotStep, CrashStep, RestartStep DEF Apply
<1>2. CASE UNCHANGED vars
  <2>1. UNCHANGED <<log, leader, held, commitIndex, lastApplied, snapshot, db, attached, lacking>>
    BY <1>2 DEF vars, cluster, disk, raft, fsm, owing
  <2>2. UNCHANGED <<buffered, applying, status>>
    BY <1>2 DEF vars, fsm
  <2>3. LogKept /\ LogInv' /\ Upto' = Upto
    BY <2>1, SameLog, LogInvSame DEF ExecutedInv, Upto
  <2> QED BY <2>1, <2>2, <2>3, ClusterStep DEF ExecutedInv, TypeOK
<1> QED BY <1>1, <1>2

\* Whatever a node got by replay and what by snapshot, through crashes, changes
\* of leader and maintenance under it, its database between two commands is
\* what the applied part of the log makes of a new one, each command executed
\* once and in order, and so is the database in its snapshot at the snapshot's
\* index, unless a skip has gone into them: for any number of nodes, any log and
\* any threshold of snapshots, when clients do not create a collection again
\* (apply would return early and leave the command in its buffer) and a node that
\* has applied something takes a snapshot before it goes down (it would apply its
\* log to the files it finds).
THEOREM AppliedAreExecuted ==
    ASSUME ~ Repeats, ~ Uncovered
    PROVE  Spec => []AppliedIsExecuted
<1>1. Init => ExecutedInv
  BY ExecutedInit
<1>2. ExecutedInv /\ [Next]_vars => ExecutedInv'
  BY ExecutedNext
<1>3. ExecutedInv => AppliedIsExecuted
  BY DEF ExecutedInv, Applying, ApplyingInOrder, Covered, IsDecided, AppliedIsExecuted, Decided
<1> QED BY <1>1, <1>2, <1>3, PTL DEF Spec

-----------------------------------------------------------------------------
(* Without maintenance nothing is skipped: no snapshot is refused, so none *)
(* is ahead of what its node has applied.                                  *)

Taken(n) == snapshot[n] # Nil => ~ snapshot[n].lacking

NoneSkipped ==
    /\ lacking = {}
    /\ \A n \in Node : /\ attached[n] /\ Taken(n)
                       /\ status[n] # "down" => SnapshotIndex(n) <= lastApplied[n]

\* setLastApplied, and the snapshot it may take.
LEMMA AppliedSkipsNone ==
    ASSUME TypeOK, NoneSkipped, NEW n \in Node, NEW snap, Applied(n, snap),
           snap # Nil => ~ snap.lacking /\ snap.index \in Int /\ snap.index <= lastApplied[n],
           UNCHANGED <<lacking, attached, status>>, status[n] # "down"
    PROVE  NoneSkipped'
<1> DEFINE i == lastApplied[n] + 1
<1> DEFINE t == [index |-> i, data |-> db[n], lacking |-> n \in lacking]
<1>1. lastApplied[n] \in Int /\ n \notin lacking
  <2>1. \A j \in Upto : j \in Int
    BY DEF Upto
  <2> QED BY <2>1 DEF TypeOK, NoneSkipped
<1>2. snapshot'[n] = snap \/ snapshot'[n] = t
  BY DEF Applied, TakenSnapshot, SnapshotAt, TypeOK
<1>3. t.index = i /\ ~ t.lacking
  BY <1>1
<1>4. lastApplied'[n] = i /\ \A m \in Node \ {n} : lastApplied'[m] = lastApplied[m]
  BY DEF Applied, TypeOK
<1>5. \A m \in Node \ {n} : snapshot'[m] = snapshot[m]
  BY DEF Applied, TypeOK
<1>6. i \in Int /\ lastApplied[n] <= i /\ 0 <= i
  <2>1. lastApplied[n] \in Nat
    BY DEF TypeOK, Upto
  <2> QED BY <2>1
<1> HIDE DEF i, t
<1>7. Taken(n)' /\ SnapshotIndex(n)' <= lastApplied'[n]
  BY <1>1, <1>2, <1>3, <1>4, <1>6 DEF Taken, SnapshotIndex
<1>8. ASSUME NEW m \in Node, m # n
      PROVE  Taken(m)' /\ (status'[m] # "down" => SnapshotIndex(m)' <= lastApplied'[m])
  BY <1>4, <1>5, <1>8 DEF NoneSkipped, Taken, SnapshotIndex
<1> QED BY <1>7, <1>8 DEF NoneSkipped

LEMMA NoneSkippedStep ==
    ASSUME ~ Maintains, ExecutedInv, NoneSkipped, [Next]_vars
    PROVE  NoneSkipped'
<1>1. TypeOK /\ \A n \in Node : lastApplied[n] \in Int
  <2>1. \A j \in Upto : j \in Int
    BY DEF Upto
  <2> QED BY <2>1 DEF ExecutedInv, TypeOK
<1>2. ASSUME UNCHANGED <<lacking, attached, snapshot, status, lastApplied>> PROVE NoneSkipped'
  BY <1>2 DEF NoneSkipped, Taken, SnapshotIndex
<1>3. CASE UNCHANGED vars
  BY <1>2, <1>3 DEF vars, disk, raft, fsm, owing
<1>4. ASSUME NEW n \in Node, Submit(n) \/ Elect(n) \/ Replicate(n) \/ LearnCommit(n)
      PROVE  NoneSkipped'
  BY <1>2, <1>4 DEF Submit, Elect, Replicate, LearnCommit, disk, raft, fsm, owing
<1>5. ASSUME NEW n \in Node, snapshot[n] # Nil
      PROVE  /\ ~ snapshot[n].lacking /\ snapshot[n].index \in Int
             /\ status[n] # "down" => snapshot[n].index <= lastApplied[n]
  <2>1. snapshot[n].index \in Upto
    BY <1>5 DEF ExecutedInv, Covered, IsDecided
  <2> QED BY <1>5, <2>1 DEF NoneSkipped, Taken, SnapshotIndex, Upto
<1>6. ASSUME NEW n \in Node, Apply(n) PROVE NoneSkipped'
  <2>1. CASE Skip(n)
    <3>1. SnapshotIndex(n) \in Int
      BY <1>5 DEF SnapshotIndex
    <3>2. lastApplied[n] < SnapshotIndex(n) /\ SnapshotIndex(n) <= lastApplied[n]
      BY <2>1 DEF Skip, MayGoOn, NoneSkipped
    <3> QED BY <1>1, <3>1, <3>2
  <2>2. CASE ApplyNoop(n)
    BY <1>1, <1>5, <2>2, AppliedSkipsNone DEF ApplyNoop, MayApply, MayGoOn, fsm, owing
  <2>3. CASE ApplyDropLog(n)
    <3> DEFINE i == lastApplied[n]
    <3> DEFINE t == [index |-> i, data |-> db[n], lacking |-> n \in lacking]
    <3>1. /\ Applied(n, t) /\ status[n] # "down"
          /\ UNCHANGED <<lacking, attached, status>>
      BY <2>3 DEF ApplyDropLog, MayApply, MayGoOn, TakenSnapshot, SnapshotAt, fsm, owing
    <3>2. t.index = lastApplied[n] /\ ~ t.lacking
      BY DEF NoneSkipped
    <3> HIDE DEF t
    <3> QED BY <1>1, <3>1, <3>2, AppliedSkipsNone
  <2>4. CASE BeginApply(n)
    <3>1. UNCHANGED <<lacking, attached, status>> /\ status[n] # "down"
      BY <2>4 DEF BeginApply, MayApply, MayGoOn, owing
    <3>2. CASE UNCHANGED <<lastApplied, snapshot>>
      BY <1>2, <3>1, <3>2
    <3>3. CASE Applied(n, snapshot[n])
      BY <1>1, <1>5, <3>1, <3>3, AppliedSkipsNone
    <3> QED BY <2>4, <3>2, <3>3 DEF BeginApply
  <2>5. CASE Execute(n)
    <3>1. UNCHANGED <<lacking, attached, status>> /\ status[n] # "down"
      BY <2>5 DEF Execute, Executing, ExecutedInv, Applying, owing
    <3>2. CASE UNCHANGED <<lastApplied, snapshot>>
      BY <1>2, <3>1, <3>2
    <3>3. CASE Applied(n, snapshot[n])
      BY <1>1, <1>5, <3>1, <3>3, AppliedSkipsNone
    <3> QED BY <2>5, <3>2, <3>3 DEF Execute
  <2>6. CASE Throw(n)
    <3>1. /\ status' = [status EXCEPT ![n] = "stopped"] /\ status[n] # "down"
          /\ UNCHANGED <<lacking, attached, snapshot, lastApplied>>
      BY <2>6 DEF Throw, ExecutedInv, Applying, raft, owing
    <3>2. \A m \in Node : status'[m] # "down" => status[m] # "down"
      BY <1>1, <3>1 DEF TypeOK
    <3> QED BY <3>1, <3>2 DEF NoneSkipped, Taken, SnapshotIndex
  <2>7. CASE FinishApply(n)
    <3>1. applying[n] # Nil
      <4>1. PICK S : buffered[n] \in Seq(S)
        BY <1>1 DEF TypeOK
      <4> QED BY <2>7, <4>1, DaemonAssumption DEF FinishApply
    <3>2. status[n] # "down"
      BY <3>1 DEF ExecutedInv, Applying
    <3> QED BY <1>1, <1>5, <2>7, <3>2, AppliedSkipsNone DEF FinishApply, owing
  <2> QED BY <1>6, <2>1, <2>2, <2>3, <2>4, <2>5, <2>6, <2>7 DEF Apply
<1>7. ASSUME NEW n \in Node, InstallSnapshot(n) PROVE NoneSkipped'
  <2> DEFINE snap == snapshot[leader]
  <2>1. /\ SnapshotComes(n) /\ SaveSnapshot(n) /\ UNCHANGED <<cluster, attached, status>>
        /\ lastApplied' = [lastApplied EXCEPT ![n] = SnapshotIndex(leader)]
        /\ lacking' = IF snap.lacking THEN lacking \cup {n} ELSE lacking
    BY <1>7 DEF InstallSnapshot, fsm
  <2>2. /\ leader \in Node /\ snap # Nil /\ snap.index = SnapshotIndex(leader)
        /\ snapshot'[n] = snap /\ \A m \in Node \ {n} : snapshot'[m] = snapshot[m]
    BY <2>1, SnapshotSent DEF cluster
  <2>3. ~ snap.lacking /\ snap.index \in Int
    BY <1>5, <2>2
  <2>4. lastApplied'[n] = snap.index /\ \A m \in Node \ {n} : lastApplied'[m] = lastApplied[m]
    BY <1>1, <2>1, <2>2 DEF TypeOK
  <2> HIDE DEF snap
  <2>5. Taken(n)' /\ SnapshotIndex(n)' <= lastApplied'[n]
    BY <2>2, <2>3, <2>4 DEF Taken, SnapshotIndex
  <2>6. ASSUME NEW m \in Node, m # n
        PROVE  Taken(m)' /\ (status'[m] # "down" => SnapshotIndex(m)' <= lastApplied'[m])
    BY <2>1, <2>2, <2>4, <2>6 DEF NoneSkipped, Taken, SnapshotIndex
  <2> QED BY <2>1, <2>3, <2>5, <2>6 DEF NoneSkipped
<1>8. ASSUME NEW n \in Node, RefuseSnapshot(n) \/ Maintain(n) PROVE NoneSkipped'
  BY <1>8 DEF RefuseSnapshot, Maintain, NoneSkipped
<1>9. ASSUME NEW n \in Node, Crash(n) PROVE NoneSkipped'
  <2>1. /\ status' = [status EXCEPT ![n] = "down"]
        /\ lastApplied' = [lastApplied EXCEPT ![n] = 0]
        /\ UNCHANGED <<snapshot, attached, lacking>>
    BY <1>9 DEF Crash, disk, owing
  <2>2. /\ status'[n] = "down"
        /\ \A m \in Node \ {n} : status'[m] = status[m] /\ lastApplied'[m] = lastApplied[m]
    BY <1>1, <2>1 DEF TypeOK
  <2> QED BY <2>1, <2>2 DEF NoneSkipped, Taken, SnapshotIndex
<1>10. ASSUME NEW n \in Node, Restart(n) PROVE NoneSkipped'
  <2>1. /\ status' = [status EXCEPT ![n] = "up"] /\ attached' = [attached EXCEPT ![n] = TRUE]
        /\ lastApplied' = [lastApplied EXCEPT ![n] = SnapshotIndex(n)]
        /\ lacking' = {m \in Node : IF m = n /\ snapshot[n] # Nil THEN snapshot[n].lacking
                                                                ELSE m \in lacking}
        /\ snapshot' = snapshot
    BY <1>10 DEF Restart
  <2>2. lacking' = {}
    BY <1>5, <2>1 DEF NoneSkipped
  <2>3. /\ lastApplied'[n] = SnapshotIndex(n) /\ attached'[n]
        /\ \A m \in Node \ {n} : /\ status'[m] = status[m] /\ lastApplied'[m] = lastApplied[m]
                                 /\ attached'[m] = attached[m]
    BY <1>1, <2>1 DEF TypeOK
  <2>4. SnapshotIndex(n) \in Int /\ \A m \in Node : SnapshotIndex(m)' = SnapshotIndex(m)
    BY <1>5, <2>1 DEF SnapshotIndex
  <2> QED BY <2>1, <2>2, <2>3, <2>4 DEF NoneSkipped, Taken
<1> QED BY <1>3, <1>4, <1>6, <1>7, <1>8, <1>9, <1>10 DEF Next

\* As long as no database is compacted or shrunk under a running node, that is
\* so of every database and every snapshot: a node never counts as applied what
\* it has neither executed nor taken over (apply, handleInstallSnapshot).
THEOREM UnmaintainedExecute ==
    ASSUME ~ Repeats, ~ Uncovered, ~ Maintains
    PROVE  Spec => []CommandsAreExecuted
<1>1. Init => ExecutedInv /\ NoneSkipped
  <2>1. Init => NoneSkipped
    BY DEF Init, NoneSkipped, Taken, SnapshotIndex
  <2> QED BY <2>1, ExecutedInit
<1>2. ExecutedInv /\ NoneSkipped /\ [Next]_vars => ExecutedInv' /\ NoneSkipped'
  BY ExecutedNext, NoneSkippedStep
<1>3. ExecutedInv /\ NoneSkipped => CommandsAreExecuted
  BY DEF ExecutedInv, NoneSkipped, Taken, Applying, ApplyingInOrder, Covered, IsDecided,
         CommandsAreExecuted, Decided
<1> QED BY <1>1, <1>2, <1>3, PTL DEF Spec
=============================================================================
