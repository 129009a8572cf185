----------------------------- MODULE LockProofs -----------------------------
(***************************************************************************)
(* The two locks, for any number of callers.  The phase chain of RWLock    *)
(* keeps its order, whatever the callers do and however many phases there  *)
(* are; so sections that conflict never overlap, and every step of the     *)
(* lock is a step of FairAccess or leaves it still.  AsyncLock hands over  *)
(* from holder to waiter without a gap, and its steps are steps of         *)
(* FairAccess, too.                                                        *)
(***************************************************************************)
EXTENDS RWLock, AsyncLock, FiniteSetTheorems, SequenceTheorems, TLAPS

-----------------------------------------------------------------------------
(* The read-write lock. *)

\* A phase whose members are counted right is empty exactly when the count is 0.
LEMMA CountOfMembers ==
    ASSUME NEW i
    PROVE  /\ IsFiniteSet(Members(i))
           /\ Cardinality(Members(i)) \in Nat
           /\ Cardinality(Members(i)) = 0 <=> Members(i) = {}
BY RWLockAssumption, FS_Subset, FS_CardinalityType, FS_EmptySet DEF Members

\* What a newcomer does to the membership of the phases.
LEMMA MembersAfterWait ==
    ASSUME NEW c \in Caller, NEW p \in Nat \ {0}, Wait(c, p), TypeOK, InOrder
    PROVE  /\ mine[c] = 0
           /\ Members(p)' = Members(p) \cup {c}
           /\ Cardinality(Members(p)') = Cardinality(Members(p)) + 1
           /\ \A i \in Nat \ {0} : i # p => Members(i)' = Members(i)
<1>1. mine[c] = 0 /\ mine' = [mine EXCEPT ![c] = p]
  BY DEF Wait, InOrder, Active
<1>2. Members(p)' = Members(p) \cup {c} /\ c \notin Members(p)
  BY <1>1 DEF Members, TypeOK
<1>3. \A i \in Nat \ {0} : i # p => Members(i)' = Members(i)
  BY <1>1 DEF Members, TypeOK
<1>4. Cardinality(Members(p) \cup {c}) = Cardinality(Members(p)) + 1
  BY <1>2, CountOfMembers, FS_AddElement
<1> QED
  BY <1>1, <1>2, <1>3, <1>4

\* What a caller that leaves does to the membership of the phases.
LEMMA MembersAfterLeave ==
    ASSUME NEW c \in Caller, NEW m, m = mine[c], Leave(c), PhasesInv
    PROVE  /\ m \in 1 .. Len(phases)
           /\ c \in Members(m)
           /\ Members(m)' = Members(m) \ {c}
           /\ Cardinality(Members(m)') = phases[m].pending - 1
           /\ phases[m].pending \in Nat \ {0}
           /\ \A i \in Nat \ {0} : i # m => Members(i)' = Members(i)
<1>1. m \in 1 .. Len(phases) /\ mine' = [mine EXCEPT ![c] = 0]
  BY DEF Leave, PhasesInv, InOrder, Active, TypeOK
<1>2. m \in Nat \ {0}
  BY <1>1 DEF PhasesInv, TypeOK
<1>3. c \in Members(m) /\ phases[m].pending = Cardinality(Members(m))
  BY <1>1 DEF Members, PhasesInv, Counted
<1>4. Members(m)' = Members(m) \ {c}
  BY <1>1, <1>2 DEF Members, PhasesInv, TypeOK
<1>5. \A i \in Nat \ {0} : i # m => Members(i)' = Members(i)
  BY <1>1 DEF Members, PhasesInv, TypeOK
<1>6. Cardinality(Members(m) \ {c}) = Cardinality(Members(m)) - 1
  BY <1>3, CountOfMembers, FS_RemoveElement
<1>7. Cardinality(Members(m)) \in Nat \ {0}
  BY <1>3, CountOfMembers
<1> QED
  BY <1>1, <1>3, <1>4, <1>5, <1>6, <1>7

\* What joining does to the record of a phase.
LEMMA WithReaderIs ==
    ASSUME NEW r \in PhaseRecord
    PROVE  /\ WithReader(r) \in PhaseRecord
           /\ WithReader(r).kind = r.kind /\ WithReader(r).gate = r.gate
           /\ WithReader(r).released = r.released
           /\ WithReader(r).pending = r.pending + 1
<1>1. WithReader(r).pending = r.pending + 1
  BY DEF PhaseRecord, WithReader
<1>2. /\ WithReader(r).kind = r.kind /\ WithReader(r).gate = r.gate
      /\ WithReader(r).released = r.released
  BY DEF PhaseRecord, WithReader
<1>3. WithReader(r) \in PhaseRecord
  BY DEF PhaseRecord, WithReader
<1> QED
  BY <1>1, <1>2, <1>3

\* What leaving does to it.
LEMMA WithoutOneIs ==
    ASSUME NEW r \in PhaseRecord, r.pending # 0
    PROVE  /\ WithoutOne(r) \in PhaseRecord
           /\ WithoutOne(r).kind = r.kind /\ WithoutOne(r).gate = r.gate
           /\ WithoutOne(r).released <=> LastOut(r)
           /\ WithoutOne(r).pending = r.pending - 1
<1>1. WithoutOne(r).pending = r.pending - 1
  BY DEF PhaseRecord, WithoutOne
<1>2. WithoutOne(r).kind = r.kind /\ WithoutOne(r).gate = r.gate
  BY DEF PhaseRecord, WithoutOne
<1>3. WithoutOne(r).released <=> LastOut(r)
  BY Zenon DEF PhaseRecord, WithoutOne
<1>4. LastOut(r) \in BOOLEAN
  BY DEF LastOut
<1>5. WithoutOne(r) \in PhaseRecord
  <2>1. ASSUME NEW b \in BOOLEAN, NEW k \in Nat
        PROVE  [r EXCEPT !.pending = k, !.released = b] \in PhaseRecord
    BY DEF PhaseRecord
  <2>2. r.pending - 1 \in Nat
    BY DEF PhaseRecord
  <2> QED
    BY <1>4, <2>1, <2>2, Zenon DEF WithoutOne
<1> QED
  BY <1>1, <1>2, <1>3, <1>5

-----------------------------------------------------------------------------
\* A request that joins the open read phase keeps the chain in order.
LEMMA JoinKeepsPhases ==
    ASSUME NEW c \in Caller, JoinReadPhase(c), PhasesInv
    PROVE  PhasesInv'
<1> DEFINE p == currentReadPhase
           n == Len(phases)
<1> USE DEF PhasesInv
<1>1. /\ p = n /\ p \in 1 .. n
      /\ phases[p].kind = "read" /\ ~phases[p].released
      /\ phases[p] \in PhaseRecord
      /\ phases' = [phases EXCEPT ![p] = WithReader(phases[p])]
      /\ Len(phases') = n
      /\ tail' = tail /\ currentReadPhase' = p
  BY DEF JoinReadPhase, Joinable, TypeOK
<1>2. PICK q \in Nat \ {0} : q = p
  BY <1>1
<1>3. Wait(c, q) /\ mine[c] = 0 /\ stage[c] = "idle"
  BY <1>2, MembersAfterWait DEF JoinReadPhase, Wait
<1>4. /\ Members(q)' = Members(q) \cup {c}
      /\ Cardinality(Members(q)') = Cardinality(Members(q)) + 1
      /\ \A i \in Nat \ {0} : i # q => Members(i)' = Members(i)
  BY <1>3, MembersAfterWait
<1>0. phases' = [phases EXCEPT ![q] = WithReader(phases[q])] /\ phases[q] \in PhaseRecord
  BY <1>1, <1>2
<1>5. \A i \in 1 .. n : /\ phases'[i].kind = phases[i].kind
                        /\ phases'[i].gate = phases[i].gate
                        /\ phases'[i].released = phases[i].released
                        /\ i # q => phases'[i] = phases[i]
  BY <1>0, <1>1, <1>2, WithReaderIs DEF TypeOK
<1>6. phases'[q].pending = phases[q].pending + 1
  BY <1>0, <1>1, <1>2, WithReaderIs DEF TypeOK
<1>7. TypeOK'
  <2>1. phases' \in Seq(PhaseRecord)
    BY <1>0, <1>1, <1>2, WithReaderIs DEF TypeOK
  <2> QED BY <2>1, <1>1, <1>2, <1>3 DEF TypeOK, Wait
<1>8. Chained'
  BY <1>1, <1>5 DEF Chained
<1>9. Counted'
  <2> SUFFICES ASSUME NEW i \in 1 .. n
               PROVE  /\ phases'[i].pending = Cardinality(Members(i)')
                      /\ phases'[i].released <=> Members(i)' = {}
                      /\ phases'[i].kind = "write" => \A a, b \in Members(i)' : a = b
                      /\ phases'[i].released => \A j \in 1 .. i : phases'[j].released
    BY <1>1 DEF Counted
  <2>1. CASE i = q
    BY <2>1, <1>1, <1>2, <1>4, <1>5, <1>6 DEF Counted
  <2>2. CASE i # q
    BY <2>2, <1>1, <1>2, <1>4, <1>5 DEF Counted
  <2> QED BY <2>1, <2>2
<1>10. InOrder'
  BY <1>1, <1>2, <1>3, <1>5 DEF InOrder, Wait, Active, TypeOK
<1>11. Joinable'
  BY <1>1, <1>2, <1>5 DEF Joinable
<1> QED
  BY <1>7, <1>8, <1>9, <1>10, <1>11

\* So does a request that makes a phase of its own.
LEMMA NewPhaseKeepsPhases ==
    ASSUME NEW c \in Caller, NEW k \in {"read", "write"}, PhasesInv,
           NewPhase(k), Wait(c, Len(phases) + 1),
           currentReadPhase' \in {0, Len(phases) + 1},
           currentReadPhase' # 0 => k = "read"
    PROVE  PhasesInv'
<1> DEFINE n == Len(phases)
           new == [kind |-> k, gate |-> tail, pending |-> 1, released |-> FALSE]
<1> USE DEF PhasesInv
<1>1. /\ n \in Nat /\ tail = n /\ tail' = n + 1
      /\ phases' = Append(phases, new)
      /\ mine[c] = 0 /\ mine' = [mine EXCEPT ![c] = n + 1]
      /\ stage[c] = "idle" /\ stage' = [stage EXCEPT ![c] = "waiting"]
  BY DEF NewPhase, Wait, Chained, TypeOK, InOrder, Active
<1>2. new \in PhaseRecord
  BY <1>1 DEF PhaseRecord
<1>3. Len(phases') = n + 1 /\ phases'[n + 1] = new /\ \A i \in 1 .. n : phases'[i] = phases[i]
  BY <1>1, <1>2 DEF TypeOK
<1>4. \A i \in 1 .. n : Members(i)' = Members(i)
  BY <1>1 DEF Members, TypeOK
<1>5. PICK q \in Nat : q = n + 1
  BY <1>1
<1>6. Members(q)' = {c}
  BY <1>1, <1>5 DEF Members, TypeOK, InOrder
<1>7. Cardinality(Members(q)') = 1
  BY <1>6, FS_Singleton
<1>8. TypeOK'
  <2>1. phases' \in Seq(PhaseRecord)
    BY <1>1, <1>2 DEF TypeOK
  <2>2. currentReadPhase' \in Nat
    BY <1>1
  <2> QED BY <2>1, <2>2, <1>1 DEF TypeOK
<1>9. Chained'
  BY <1>1, <1>3 DEF Chained
<1>10. Counted'
  <2> SUFFICES ASSUME NEW i \in 1 .. n + 1
               PROVE  /\ phases'[i].pending = Cardinality(Members(i)')
                      /\ phases'[i].released <=> Members(i)' = {}
                      /\ phases'[i].kind = "write" => \A a, b \in Members(i)' : a = b
                      /\ phases'[i].released => \A j \in 1 .. i : phases'[j].released
    BY <1>3 DEF Counted
  <2>1. CASE i = q
    <3>1. phases'[i].pending = 1 /\ ~phases'[i].released
      BY <2>1, <1>3, <1>5
    <3> QED BY <3>1, <2>1, <1>6, <1>7
  <2>2. CASE i # q
    <3>1. i \in 1 .. n
      BY <2>2, <1>1, <1>5
    <3> QED BY <3>1, <1>1, <1>3, <1>4 DEF Counted
  <2> QED BY <2>1, <2>2
<1>11. InOrder'
  <2> SUFFICES ASSUME NEW d \in Caller
               PROVE  /\ mine'[d] \in 0 .. n + 1
                      /\ stage'[d] # "idle" <=> mine'[d] # 0
                      /\ stage'[d] = "running" =>
                            \A j \in 1 .. mine'[d] - 1 : phases'[j].released
    BY <1>3 DEF InOrder, Active
  <2>1. CASE d = c
    BY <2>1, <1>1 DEF TypeOK
  <2>2. CASE d # c
    BY <2>2, <1>1, <1>3 DEF TypeOK, InOrder, Active
  <2> QED BY <2>1, <2>2
<1>12. Joinable'
  BY <1>1, <1>3 DEF Joinable
<1> QED
  BY <1>8, <1>9, <1>10, <1>11, <1>12

\* Entering takes nothing away: the gate vouches for all earlier phases.
LEMMA EnterKeepsPhases ==
    ASSUME NEW c \in Caller, Enter(c), PhasesInv
    PROVE  /\ PhasesInv'
           /\ \A j \in 1 .. mine[c] - 1 : phases[j].released
<1> DEFINE m == mine[c]
<1> USE DEF PhasesInv
<1>1. m \in 1 .. Len(phases) /\ phases[m].gate = m - 1
  BY DEF Enter, InOrder, Active, Chained, TypeOK
<1>2. \A j \in 1 .. m - 1 : phases[j].released
  BY <1>1 DEF Enter, Resolved, Counted, TypeOK
<1>3. TypeOK' /\ Chained' /\ Joinable'
  BY DEF Enter, TypeOK, Chained, Joinable
<1>4. Counted'
  <2>1. phases' = phases /\ \A i : Members(i)' = Members(i)
    BY DEF Enter, Members
  <2> QED BY <2>1 DEF Counted
<1>5. InOrder'
  BY <1>2 DEF Enter, InOrder, Active, TypeOK
<1> QED
  BY <1>2, <1>3, <1>4, <1>5

\* Leaving ends the phase exactly when it leaves it empty.
LEMMA LeaveKeepsPhases ==
    ASSUME NEW c \in Caller, Leave(c), PhasesInv
    PROVE  PhasesInv'
<1> DEFINE n == Len(phases)
<1> USE DEF PhasesInv
<1>1. PICK m \in 1 .. n : m = mine[c]
  BY MembersAfterLeave
<1>2. /\ c \in Members(m)
      /\ Members(m)' = Members(m) \ {c}
      /\ Cardinality(Members(m)') = phases[m].pending - 1
      /\ phases[m].pending \in Nat \ {0}
      /\ \A i \in Nat \ {0} : i # m => Members(i)' = Members(i)
  BY <1>1, MembersAfterLeave
<1>3. /\ phases[m] \in PhaseRecord
      /\ phases' = [phases EXCEPT ![m] = WithoutOne(phases[m])]
      /\ Len(phases') = n /\ n \in Nat
      /\ tail' = tail
      /\ mine' = [mine EXCEPT ![c] = 0] /\ stage' = [stage EXCEPT ![c] = "idle"]
      /\ stage[c] = "running"
  BY <1>1 DEF Leave, TypeOK
<1>4. /\ \A i \in 1 .. n : i # m => phases'[i] = phases[i]
      /\ phases'[m] \in PhaseRecord
      /\ phases'[m].kind = phases[m].kind /\ phases'[m].gate = phases[m].gate
      /\ phases'[m].released <=> LastOut(phases[m])
      /\ phases'[m].pending = phases[m].pending - 1
  BY <1>1, <1>2, <1>3, WithoutOneIs DEF TypeOK
<1>5. LastOut(phases[m]) <=> Members(m)' = {}
  <2>1. CASE phases[m].kind = "write"
    BY <2>1, <1>1, <1>2 DEF LastOut, Counted
  <2>2. CASE phases[m].kind # "write"
    <3>1. Cardinality(Members(m)') = 0 <=> Members(m)' = {}
      BY <1>2, CountOfMembers, FS_RemoveElement, FS_EmptySet
    <3> QED BY <3>1, <2>2, <1>2 DEF LastOut
  <2> QED BY <2>1, <2>2
<1>6. /\ \A j \in 1 .. m - 1 : phases[j].released
      /\ \A j \in m .. n : ~phases[j].released
  BY <1>1, <1>2, <1>3 DEF InOrder, Counted
<1>7. TypeOK'
  <2>1. phases' \in Seq(PhaseRecord)
    BY <1>1, <1>3, <1>4 DEF TypeOK
  <2>2. currentReadPhase' \in Nat
    BY DEF Leave, TypeOK
  <2> QED BY <2>1, <2>2, <1>3 DEF TypeOK
<1>8. Chained'
  BY <1>3, <1>4 DEF Chained
<1>9. Counted'
  <2> SUFFICES ASSUME NEW i \in 1 .. n
               PROVE  /\ phases'[i].pending = Cardinality(Members(i)')
                      /\ phases'[i].released <=> Members(i)' = {}
                      /\ phases'[i].kind = "write" => \A a, b \in Members(i)' : a = b
                      /\ phases'[i].released => \A j \in 1 .. i : phases'[j].released
    BY <1>3 DEF Counted
  <2>1. CASE i = m
    BY <2>1, <1>1, <1>2, <1>4, <1>5, <1>6 DEF Counted
  <2>2. CASE i # m
    <3>1. phases'[i] = phases[i] /\ Members(i)' = Members(i)
      BY <2>2, <1>2, <1>4
    <3>2. phases[i].released => \A j \in 1 .. i : phases'[j].released
      BY <2>2, <1>1, <1>4, <1>6 DEF Counted
    <3> QED BY <3>1, <3>2 DEF Counted
  <2> QED BY <2>1, <2>2
<1>10. InOrder'
  <2> SUFFICES ASSUME NEW d \in Caller
               PROVE  /\ mine'[d] \in 0 .. n
                      /\ stage'[d] # "idle" <=> mine'[d] # 0
                      /\ stage'[d] = "running" =>
                            \A j \in 1 .. mine'[d] - 1 : phases'[j].released
    BY <1>3 DEF InOrder, Active
  <2>1. CASE d = c
    BY <2>1, <1>3 DEF TypeOK
  <2>2. CASE d # c
    <3>1. \A j \in 1 .. n : phases[j].released => phases'[j].released
      BY <1>1, <1>4, <1>6
    <3>2. mine'[d] = mine[d] /\ stage'[d] = stage[d]
      BY <2>2, <1>3 DEF TypeOK
    <3> QED BY <3>1, <3>2 DEF InOrder, Active
  <2> QED BY <2>1, <2>2
<1>11. Joinable'
  <2>1. CASE currentReadPhase' = 0
    BY <2>1 DEF Joinable
  <2>2. CASE currentReadPhase' # 0
    <3>1. /\ currentReadPhase' = currentReadPhase
          /\ ~(LastOut(phases[m]) /\ currentReadPhase = m)
      BY <2>2, <1>1 DEF Leave
    <3> QED BY <3>1, <2>2, <1>1, <1>3, <1>4 DEF Joinable
  <2> QED BY <2>1, <2>2
<1> QED
  BY <1>7, <1>8, <1>9, <1>10, <1>11

-----------------------------------------------------------------------------
\* PhasesInv holds in every reachable state: by induction, over any number of
\* callers and phases (readLock, writeLock and their finally blocks).
THEOREM PhasesStayInOrder == Spec => []PhasesInv
<1>1. Init => PhasesInv
  BY DEF Init, PhasesInv, TypeOK, Chained, Counted, InOrder, Joinable, Active
<1>2. PhasesInv /\ [Next]_vars => PhasesInv'
  <2> SUFFICES ASSUME PhasesInv, [Next]_vars
               PROVE  PhasesInv'
    OBVIOUS
  <2>1. ASSUME NEW c \in Caller, JoinReadPhase(c)
        PROVE  PhasesInv'
    BY <2>1, JoinKeepsPhases
  <2>2. ASSUME NEW c \in Caller, NewReadPhase(c)
        PROVE  PhasesInv'
    BY <2>2, NewPhaseKeepsPhases DEF NewReadPhase
  <2>3. ASSUME NEW c \in Caller, WriteLock(c)
        PROVE  PhasesInv'
    BY <2>3, NewPhaseKeepsPhases DEF WriteLock, PhaseBehindWriter
  <2>4. ASSUME NEW c \in Caller, Enter(c)
        PROVE  PhasesInv'
    BY <2>4, EnterKeepsPhases
  <2>5. ASSUME NEW c \in Caller, Leave(c)
        PROVE  PhasesInv'
    BY <2>5, LeaveKeepsPhases
  <2>6. CASE UNCHANGED vars
    <3>1. \A i : Members(i)' = Members(i)
      BY <2>6 DEF vars, Members
    <3> QED
      BY <3>1, <2>6 DEF vars, PhasesInv, TypeOK, Chained, Counted, InOrder, Joinable, Active
  <2> QED
    BY <2>1, <2>2, <2>3, <2>4, <2>5, <2>6 DEF Next
<1> QED
  BY <1>1, <1>2, PTL DEF Spec

\* A phase with a member that runs is the first one that is not over.
LEMMA RunningIsFirst ==
    ASSUME PhasesInv, NEW c \in Caller, NEW d \in Caller,
           stage[c] = "running", Active(d)
    PROVE  mine[c] <= mine[d]
<1>1. mine[c] \in 1 .. Len(phases) /\ mine[d] \in 1 .. Len(phases)
  BY DEF PhasesInv, InOrder, Active, TypeOK
<1>2. SUFFICES ASSUME mine[d] < mine[c]
               PROVE  FALSE
  BY <1>1
<1>3. phases[mine[d]].released
  BY <1>1, <1>2 DEF PhasesInv, InOrder
<1>4. d \in Members(mine[d])
  BY DEF Members
<1> QED
  BY <1>1, <1>3, <1>4 DEF PhasesInv, Counted

\* No writer ever shares the lock (rw-lock.mts: "writers run exclusively").
THEOREM WritersAreAlone == Spec => []Exclusion
<1>1. PhasesInv => Exclusion
  <2> SUFFICES ASSUME PhasesInv,
                      NEW c \in Caller, NEW d \in Caller,
                      stage[c] = "running", stage[d] = "running",
                      "write" \in {RequestOf(c), RequestOf(d)}
               PROVE  c = d
    BY DEF Exclusion, Access!Exclusion, Access!Conflict, Running
  <2>1. mine[c] = mine[d] /\ mine[c] \in 1 .. Len(phases)
    <3>1. Active(c) /\ Active(d)
      BY DEF Active
    <3>2. mine[c] <= mine[d] /\ mine[d] <= mine[c]
      BY <3>1, RunningIsFirst
    <3> QED BY <3>1, <3>2 DEF PhasesInv, InOrder, TypeOK
  <2>2. phases[mine[c]].kind = "write"
    BY <2>1 DEF RequestOf
  <2>3. c \in Members(mine[c]) /\ d \in Members(mine[c])
    BY <2>1 DEF Members
  <2> QED
    BY <2>1, <2>2, <2>3 DEF PhasesInv, Counted
<1> QED
  BY <1>1, PhasesStayInOrder, PTL

-----------------------------------------------------------------------------
\* A reader that joins changes no phase's kind.
LEMMA KindsAfterJoin ==
    ASSUME NEW p \in 1 .. Len(phases), phases \in Seq(PhaseRecord),
           phases' = [phases EXCEPT ![p] = WithReader(phases[p])]
    PROVE  /\ Len(phases') = Len(phases)
           /\ \A i \in 1 .. Len(phases) : phases'[i].kind = phases[i].kind
<1>1. WithReader(phases[p]).kind = phases[p].kind
  BY WithReaderIs
<1> QED
  BY <1>1

\* Nor does a new phase change that of the others.
LEMMA KindsAfterNewPhase ==
    ASSUME NEW k \in {"read", "write"}, phases \in Seq(PhaseRecord), tail \in Nat, NewPhase(k)
    PROVE  /\ Len(phases') = Len(phases) + 1
           /\ phases'[Len(phases) + 1].kind = k
           /\ \A i \in 1 .. Len(phases) : phases'[i].kind = phases[i].kind
<1> DEFINE new == [kind |-> k, gate |-> tail, pending |-> 1, released |-> FALSE]
<1>1. new \in PhaseRecord /\ new.kind = k
  BY DEF PhaseRecord
<1>2. phases' = Append(phases, new)
  BY DEF NewPhase
<1> HIDE DEF new
<1> QED
  BY <1>1, <1>2

\* A request that waits in the last phase is behind every conflicting one.
LEMMA RequestStep ==
    ASSUME NEW c \in Caller, NEW p \in Nat \ {0}, NEW k \in {"read", "write"},
           PhasesInv, PhasesInv', Wait(c, p), Len(phases') = p,
           phases'[p].kind = k,
           \A i \in 1 .. Len(phases) : phases'[i].kind = phases[i].kind,
           Len(phases) \in {p - 1, p},
           Len(phases) = p => k = "read"
    PROVE  Access!Request(c, k)
<1>1. /\ mine[c] = 0 /\ mine' = [mine EXCEPT ![c] = p]
      /\ stage[c] = "idle" /\ stage' = [stage EXCEPT ![c] = "waiting"]
  BY DEF Wait, PhasesInv, InOrder, Active
<1>2. \A d \in Caller : mine[d] \in 0 .. Len(phases) /\ Len(phases) \in Nat
  BY DEF PhasesInv, InOrder, TypeOK
<1>3. /\ RequestOf(c) = "none" /\ RequestOf(c)' = k
      /\ \A d \in Caller : d # c => RequestOf(d)' = RequestOf(d)
  BY <1>1, <1>2 DEF RequestOf, PhasesInv, TypeOK
<1>4. \A d \in Caller : RequestOf(d) # "none" <=> mine[d] # 0
  <2>1. \A i \in 1 .. Len(phases) : phases[i] \in PhaseRecord
    BY DEF PhasesInv, TypeOK
  <2>2. \A i \in 1 .. Len(phases) : phases[i].kind \in {"read", "write"}
    BY <2>1 DEF PhaseRecord
  <2> QED BY <1>2, <2>2 DEF RequestOf
<1>5. \A d \in Caller : d # c => AheadOf(d)' = AheadOf(d)
  <2> SUFFICES ASSUME NEW d \in Caller, d # c,
                      NEW e \in Caller
               PROVE  e \in AheadOf(d)' <=> e \in AheadOf(d)
    BY DEF AheadOf
  <2>1. mine'[d] = mine[d] /\ mine[d] <= p
    BY <1>1, <1>2 DEF PhasesInv, TypeOK
  <2>2. CASE e = c
    BY <2>1, <2>2, <1>1, <1>2 DEF AheadOf, PhasesInv, TypeOK
  <2>3. CASE e # c
    BY <2>1, <2>3, <1>1, <1>3 DEF AheadOf, PhasesInv, TypeOK
  <2> QED BY <2>2, <2>3
<1>6. AheadOf(c)' = {d \in Caller : Access!Conflict(k, RequestOf(d))}
  <2> SUFFICES ASSUME NEW d \in Caller
               PROVE  d \in AheadOf(c)' <=> Access!Conflict(k, RequestOf(d))
    BY DEF AheadOf
  <2>1. CASE d = c
    BY <2>1, <1>1, <1>3 DEF AheadOf, PhasesInv, TypeOK, Access!Conflict
  <2>2. CASE d # c /\ mine[d] = 0
    BY <2>2, <1>1, <1>4 DEF AheadOf, PhasesInv, TypeOK, Access!Conflict
  <2>3. CASE d # c /\ mine[d] # 0 /\ mine[d] < p
    BY <2>3, <1>1, <1>2, <1>3, <1>4 DEF AheadOf, PhasesInv, TypeOK, Access!Conflict
  <2>4. CASE d # c /\ mine[d] # 0 /\ mine[d] = p
    <3>1. k = "read" /\ RequestOf(d) = "read"
      BY <2>4, <1>2 DEF RequestOf
    <3>2. ~Access!Conflict(k, RequestOf(d))
      BY <3>1 DEF Access!Conflict
    <3>3. d \notin AheadOf(c)'
      BY <2>4, <1>1, <1>2 DEF AheadOf, PhasesInv, TypeOK
    <3> QED BY <3>2, <3>3
  <2> QED BY <2>1, <2>2, <2>3, <2>4, <1>2
<1>7. Running' = Running
  BY <1>1 DEF Running, PhasesInv, TypeOK
<1> DEFINE request == [d \in Caller |-> RequestOf(d)]
           ahead == [d \in Caller |-> AheadOf(d)]
<1>8. request[c] = "none" /\ request' = [request EXCEPT ![c] = k]
  BY <1>3
<1>9. ahead' = [ahead EXCEPT ![c] = {d \in Caller : Access!Conflict(k, request[d])}]
  BY <1>5, <1>6
<1> QED
  BY <1>7, <1>8, <1>9 DEF Access!Request

\* A caller whose gate has resolved has no conflicting request before it.
LEMMA EnterStep ==
    ASSUME NEW c \in Caller, PhasesInv, Enter(c)
    PROVE  Access!Enter(c)
<1>1. /\ UNCHANGED <<phases, mine>>
      /\ stage[c] = "waiting" /\ stage' = [stage EXCEPT ![c] = "running"]
  BY DEF Enter
<1>2. /\ \A d \in Caller : RequestOf(d)' = RequestOf(d)
      /\ \A d \in Caller : AheadOf(d)' = AheadOf(d)
  BY <1>1 DEF RequestOf, AheadOf
<1>3. mine[c] \in 1 .. Len(phases)
  BY <1>1 DEF PhasesInv, InOrder, Active, TypeOK
<1>4. RequestOf(c) # "none"
  <2>1. phases[mine[c]] \in PhaseRecord
    BY <1>3 DEF PhasesInv, TypeOK
  <2> QED BY <2>1, <1>3 DEF RequestOf, PhaseRecord
<1>5. AheadOf(c) = {}
  <2> SUFFICES ASSUME NEW d \in Caller, 0 < mine[d], mine[d] < mine[c]
               PROVE  FALSE
    BY DEF AheadOf
  <2>1. mine[d] \in 1 .. mine[c] - 1 /\ mine[d] \in 1 .. Len(phases)
    BY <1>3 DEF PhasesInv, InOrder, TypeOK
  <2>2. phases[mine[d]].released
    BY <2>1, EnterKeepsPhases
  <2>3. d \in Members(mine[d])
    BY DEF Members
  <2> QED BY <2>1, <2>2, <2>3 DEF PhasesInv, Counted
<1>6. c \notin Running /\ Running' = Running \cup {c}
  BY <1>1 DEF Running, PhasesInv, TypeOK
<1> QED
  BY <1>2, <1>4, <1>5, <1>6 DEF Access!Enter

\* A caller that leaves was behind nobody, and is before nobody any more.
LEMMA LeaveStep ==
    ASSUME NEW c \in Caller, PhasesInv, PhasesInv', Leave(c)
    PROVE  Access!Leave(c)
<1>1. PICK m \in 1 .. Len(phases) : m = mine[c]
  BY MembersAfterLeave
<1>2. /\ mine' = [mine EXCEPT ![c] = 0]
      /\ stage[c] = "running" /\ stage' = [stage EXCEPT ![c] = "idle"]
      /\ phases[m] \in PhaseRecord /\ phases[m].pending # 0
      /\ phases' = [phases EXCEPT ![m] = WithoutOne(phases[m])]
  <2>1. phases[m].pending # 0
    BY <1>1, MembersAfterLeave
  <2>2. phases[m] \in PhaseRecord
    BY DEF PhasesInv, TypeOK
  <2> QED BY <1>1, <2>1, <2>2 DEF Leave
<1>3. \A i \in 1 .. Len(phases) : phases'[i].kind = phases[i].kind
  BY <1>1, <1>2, WithoutOneIs DEF PhasesInv, TypeOK
<1>4. /\ RequestOf(c)' = "none"
      /\ \A d \in Caller : d # c => RequestOf(d)' = RequestOf(d)
  BY <1>2, <1>3 DEF RequestOf, PhasesInv, InOrder, TypeOK
<1>5. AheadOf(c) = {}
  <2> SUFFICES ASSUME NEW d \in Caller, 0 < mine[d], mine[d] < mine[c]
               PROVE  FALSE
    BY DEF AheadOf
  <2>1. Active(d)
    BY DEF PhasesInv, InOrder
  <2>2. mine[c] <= mine[d]
    BY <2>1, <1>2, RunningIsFirst
  <2> QED BY <2>2 DEF PhasesInv, TypeOK
<1>6. \A d \in Caller : AheadOf(d)' = AheadOf(d) \ {c}
  <2> SUFFICES ASSUME NEW d \in Caller, NEW e \in Caller
               PROVE  e \in AheadOf(d)' <=> e \in AheadOf(d) /\ e # c
    BY DEF AheadOf
  <2>1. CASE d = c
    BY <2>1, <1>2, <1>5 DEF AheadOf, PhasesInv, TypeOK
  <2>2. CASE d # c /\ e = c
    BY <2>2, <1>2 DEF AheadOf, PhasesInv, TypeOK
  <2>3. CASE d # c /\ e # c
    BY <2>3, <1>2, <1>4 DEF AheadOf, PhasesInv, TypeOK
  <2> QED BY <2>1, <2>2, <2>3
<1>7. c \in Running /\ Running' = Running \ {c}
  BY <1>2 DEF Running, PhasesInv, TypeOK
<1> DEFINE request == [d \in Caller |-> RequestOf(d)]
           ahead == [d \in Caller |-> AheadOf(d)]
<1>8. request' = [request EXCEPT ![c] = "none"]
  BY <1>4
<1>9. ahead' = [d \in Caller |-> ahead[d] \ {c}]
  BY <1>6
<1> QED
  BY <1>7, <1>8, <1>9 DEF Access!Leave

\* Every step of the lock is a step of FairAccess or a stutter: nobody waits for
\* a request made after its own, and conflicting sections follow the order of
\* the requests (rw-lock.mts: "Ordering is FIFO between phases").
THEOREM LockIsFair == Spec => FairAccessSpec
<1>1. Init => Access!Init
  BY DEF Init, Access!Init, RequestOf, AheadOf, Running
<1>2. PhasesInv /\ PhasesInv' /\ [Next]_vars => [Access!Next]_(Access!vars)
  <2> SUFFICES ASSUME PhasesInv, PhasesInv', [Next]_vars
               PROVE  [Access!Next]_(Access!vars)
    OBVIOUS
  <2>0. {"read", "write"} = Access!Kind
    BY DEF Access!Kind
  <2>1. ASSUME NEW c \in Caller, JoinReadPhase(c)
        PROVE  Access!Next
    <3>1. PICK p \in Nat \ {0} : p = Len(phases) /\ p = currentReadPhase
      BY <2>1 DEF JoinReadPhase, PhasesInv, Joinable, TypeOK
    <3>2. /\ phases[p] \in PhaseRecord
          /\ phases' = [phases EXCEPT ![p] = WithReader(phases[p])]
          /\ phases[p].kind = "read"
      BY <2>1, <3>1 DEF JoinReadPhase, PhasesInv, Joinable, TypeOK
    <3>3. /\ Len(phases') = p /\ phases'[p].kind = "read"
          /\ \A i \in 1 .. Len(phases) : phases'[i].kind = phases[i].kind
      <4>1. phases \in Seq(PhaseRecord) /\ p \in 1 .. Len(phases)
        BY <3>1 DEF PhasesInv, TypeOK
      <4> QED BY <3>1, <3>2, <4>1, KindsAfterJoin
    <3>4. Access!Request(c, "read")
      BY <2>1, <3>1, <3>3, RequestStep DEF JoinReadPhase
    <3> QED BY <3>4, <2>0 DEF Access!Next
  <2>2. ASSUME NEW c \in Caller, NEW k \in {"read", "write"},
               NewPhase(k), Wait(c, Len(phases) + 1)
        PROVE  Access!Next
    <3>1. PICK p \in Nat \ {0} : p = Len(phases) + 1 /\ Len(phases) \in Nat
      BY DEF PhasesInv, TypeOK
    <3>2. /\ Len(phases') = p /\ phases'[p].kind = k
          /\ \A i \in 1 .. Len(phases) : phases'[i].kind = phases[i].kind
      <4>1. phases \in Seq(PhaseRecord) /\ tail \in Nat
        BY DEF PhasesInv, TypeOK
      <4> QED BY <2>2, <3>1, <4>1, KindsAfterNewPhase
    <3>3. Len(phases) = p - 1 /\ Len(phases) # p
      BY <3>1
    <3>4. Access!Request(c, k)
      BY <2>2, <3>1, <3>2, <3>3, RequestStep
    <3> QED BY <3>4, <2>0 DEF Access!Next
  <2>3. ASSUME NEW c \in Caller, Enter(c)
        PROVE  Access!Next
    BY <2>3, EnterStep DEF Access!Next
  <2>4. ASSUME NEW c \in Caller, Leave(c)
        PROVE  Access!Next
    BY <2>4, LeaveStep DEF Access!Next
  <2>5. CASE UNCHANGED vars
    BY <2>5 DEF vars, Access!vars, RequestOf, AheadOf, Running
  <2> QED
    BY <2>1, <2>2, <2>3, <2>4, <2>5 DEF Next, NewReadPhase, WriteLock
<1> QED
  BY <1>1, <1>2, PhasesStayInOrder, PTL DEF Spec, FairAccessSpec, Access!Spec

-----------------------------------------------------------------------------
(* The lock of raft-core: its queue. *)

\* What release leaves of the queue.
LEMMA QueueAfterRelease ==
    ASSUME NEW S, NEW q \in Seq(S), q # <<>>
    PROVE  /\ q[1] \in S /\ Len(q) \in Nat \ {0}
           /\ Without(q, 1) \in Seq(S)
           /\ Len(Without(q, 1)) = Len(q) - 1
           /\ \A j \in 1 .. Len(q) - 1 : Without(q, 1)[j] = q[j + 1]
<1>1. Len(q) \in Nat \ {0} /\ q[1] \in S
  OBVIOUS
<1> DEFINE head == SubSeq(q, 1, 1 - 1)
           rest == SubSeq(q, 1 + 1, Len(q))
<1>2. head = <<>>
  OBVIOUS
<1>3. rest \in Seq(S) /\ Len(rest) = Len(q) - 1
  <2>1. PICK n \in Nat \ {0} : n = Len(q)
    BY <1>1
  <2>2. \A i \in 2 .. n : q[i] \in S
    BY <2>1
  <2>3. /\ SubSeq(q, 2, n) \in Seq(S)
        /\ Len(SubSeq(q, 2, n)) = IF 2 <= n THEN n - 2 + 1 ELSE 0
    BY <2>2, SubSeqProperties
  <2>4. SubSeq(q, 2, n) = rest
    BY <2>1
  <2>5. (IF 2 <= n THEN n - 2 + 1 ELSE 0) = n - 1
    OBVIOUS
  <2> HIDE DEF rest
  <2> QED BY <2>1, <2>3, <2>4, <2>5, Zenon
<1>4. \A j \in 1 .. Len(q) - 1 : rest[j] = q[j + 1]
  BY <1>1, SubSeqProperties
<1>5. head \o rest = rest
  <2> HIDE DEF rest
  <2> QED BY <1>2, <1>3
<1> QED
  BY <1>1, <1>3, <1>4, <1>5 DEF Without

-----------------------------------------------------------------------------
(* Each step keeps the lock handed over. *)

LEMMA AcquireKeepsHandOver ==
    ASSUME HandOver, NEW c \in Call, Acquire(c)
    PROVE  HandOver'
<1>1. /\ LockTypeOK
      /\ \A d \in Call : turn[d] = "queued" <=> Places(d) # {}
      /\ turn[c] = "idle"
  BY DEF HandOver, Acquire
<1>2. CASE locked
  <2>1. /\ queue' = Append(queue, c) /\ locked' = locked
        /\ turn' = [turn EXCEPT ![c] = "queued"]
    BY <1>2 DEF Acquire
  <2>2. /\ queue' \in Seq(Call) /\ Len(queue') = Len(queue) + 1 /\ Len(queue) \in Nat
        /\ queue'[Len(queue) + 1] = c
        /\ \A i \in 1 .. Len(queue) : queue'[i] = queue[i]
    BY <1>1, <2>1 DEF LockTypeOK
  <2>3. \A d \in Call : Holds(d)' <=> Holds(d)
    BY <1>1, <2>1 DEF LockTypeOK, Holds
  <2>4. LockTypeOK'
    BY <1>1, <2>1, <2>2 DEF LockTypeOK
  <2>5. \A d \in Call \ {c} : Places(d)' = Places(d)
    BY <2>2 DEF Places
  <2>6. Places(c) = {} /\ Places(c)' = {Len(queue) + 1}
    BY <1>1, <2>2 DEF Places
  <2>7. \A d \in Call : turn'[d] = "queued" <=> Places(d)' # {}
    BY <1>1, <2>1, <2>5, <2>6 DEF LockTypeOK
  <2>8. \A i \in 1 .. Len(queue) : queue[i] # c
    BY <2>6 DEF Places
  <2>9. \A i, j \in 1 .. Len(queue') : queue'[i] = queue'[j] => i = j
    BY <2>2, <2>8 DEF HandOver
  <2> QED
    BY <1>2, <2>1, <2>3, <2>4, <2>7, <2>9 DEF HandOver
<1>3. CASE ~locked
  <2>1. /\ UNCHANGED queue /\ locked' = TRUE
        /\ turn' = [turn EXCEPT ![c] = "granted"]
    BY <1>3 DEF Acquire
  <2>2. \A d \in Call : ~Holds(d)
    BY <1>3 DEF HandOver
  <2>3. \A d \in Call : Holds(d)' <=> d = c
    BY <1>1, <2>1, <2>2 DEF LockTypeOK, Holds
  <2>4. LockTypeOK'
    BY <1>1, <2>1 DEF LockTypeOK
  <2>5. \A d \in Call : turn'[d] = "queued" <=> turn[d] = "queued"
    BY <1>1, <2>1 DEF LockTypeOK
  <2> QED
    BY <1>1, <2>1, <2>3, <2>4, <2>5 DEF HandOver, Places
<1> QED
  BY <1>2, <1>3

LEMMA RunKeepsHandOver ==
    ASSUME HandOver, NEW c \in Call, Run(c)
    PROVE  HandOver'
<1>1. LockTypeOK /\ turn[c] = "granted" /\ turn' = [turn EXCEPT ![c] = "running"]
  BY DEF HandOver, Run
<1>2. \A d \in Call : (Holds(d)' <=> Holds(d)) /\ (turn'[d] = "queued" <=> turn[d] = "queued")
  BY <1>1 DEF LockTypeOK, Holds
<1>3. LockTypeOK'
  BY <1>1 DEF LockTypeOK, Run
<1> QED
  BY <1>2, <1>3 DEF HandOver, Run, Places

\* What release does when somebody waits: the first in the queue holds the lock.
LEMMA HandedOver ==
    ASSUME HandOver, NEW c \in Call, Release(c), queue # <<>>
    PROVE  /\ LockTypeOK /\ turn[c] = "running" /\ locked' = TRUE
           /\ queue[1] \in Call \ {c} /\ turn[queue[1]] = "queued"
           /\ turn' = [turn EXCEPT ![c] = "idle", ![queue[1]] = "granted"]
           /\ queue' \in Seq(Call) /\ Len(queue) \in Nat \ {0}
           /\ Len(queue') = Len(queue) - 1
           /\ \A j \in 1 .. Len(queue) - 1 : queue'[j] = queue[j + 1]
<1>1. LockTypeOK /\ turn[c] = "running" /\ locked' = TRUE
  BY DEF HandOver, Release, LockedAfter
<1>2. /\ turn' = [turn EXCEPT ![c] = "idle", ![queue[1]] = "granted"]
      /\ queue' = Without(queue, 1)
  BY DEF Release, NextWaiter
<1>3. /\ queue[1] \in Call /\ Len(queue) \in Nat \ {0}
      /\ queue' \in Seq(Call) /\ Len(queue') = Len(queue) - 1
      /\ \A j \in 1 .. Len(queue) - 1 : queue'[j] = queue[j + 1]
  BY <1>1, <1>2, QueueAfterRelease DEF LockTypeOK
<1>4. 1 \in Places(queue[1])
  BY <1>3 DEF Places
<1>5. turn[queue[1]] = "queued"
  BY <1>3, <1>4 DEF HandOver
<1> QED
  BY <1>1, <1>2, <1>3, <1>5

LEMMA ReleaseKeepsHandOver ==
    ASSUME HandOver, NEW c \in Call, Release(c)
    PROVE  HandOver'
<1>1. LockTypeOK /\ turn[c] = "running"
  BY DEF HandOver, Release
<1>2. \A d \in Call : Holds(d) <=> d = c
  BY <1>1 DEF HandOver, Holds
<1>3. CASE queue = <<>>
  <2>1. /\ locked' = FALSE /\ UNCHANGED queue
        /\ turn' = [turn EXCEPT ![c] = "idle"]
    BY <1>3 DEF Release, LockedAfter
  <2>2. \A d \in Call : ~Holds(d)' /\ (turn'[d] = "queued" <=> turn[d] = "queued")
    BY <1>1, <1>2, <2>1 DEF LockTypeOK, Holds
  <2>3. LockTypeOK'
    BY <1>1, <2>1 DEF LockTypeOK
  <2> QED
    BY <1>3, <2>1, <2>2, <2>3 DEF HandOver, Places
<1>4. CASE queue # <<>>
  <2>0. PICK w \in Call : w = queue[1]
    BY <1>4, HandedOver
  <2>1. /\ locked' = TRUE /\ w \in Call \ {c} /\ turn[w] = "queued"
        /\ turn' = [turn EXCEPT ![c] = "idle", ![w] = "granted"]
        /\ queue' \in Seq(Call) /\ Len(queue) \in Nat \ {0}
        /\ Len(queue') = Len(queue) - 1
        /\ \A j \in 1 .. Len(queue) - 1 : queue'[j] = queue[j + 1]
    BY <1>4, <2>0, HandedOver
  <2>2. \A i, j \in 1 .. Len(queue) : queue[i] = queue[j] => i = j
    BY DEF HandOver
  <2>3. \A i \in 2 .. Len(queue) : queue[i] # w
    BY <2>0, <2>1, <2>2
  <2>4. Places(w)' = {} /\ Places(c) = {} /\ Places(c)' = {}
    <3>1. Places(c) = {}
      BY <1>1 DEF HandOver
    <3>2. \A i \in 1 .. Len(queue) : queue[i] # c
      BY <3>1 DEF Places
    <3>3. \A j \in 1 .. Len(queue') : queue'[j] # w /\ queue'[j] # c
      BY <2>1, <2>3, <3>2
    <3> QED BY <3>1, <3>3 DEF Places
  <2>5. \A d \in Call \ {w} : Places(d)' # {} <=> Places(d) # {}
    <3> SUFFICES ASSUME NEW d \in Call \ {w}
                 PROVE  Places(d)' # {} <=> Places(d) # {}
      OBVIOUS
    <3>1. ASSUME NEW i \in Places(d)
          PROVE  i - 1 \in Places(d)'
      <4>1. i \in 1 .. Len(queue) /\ queue[i] = d
        BY DEF Places
      <4>2. i # 1
        BY <2>0, <4>1
      <4>3. i - 1 \in 1 .. Len(queue) - 1 /\ (i - 1) + 1 = i
        BY <2>1, <4>1, <4>2
      <4>4. queue'[i - 1] = d
        BY <2>1, <4>1, <4>3
      <4> QED BY <2>1, <4>3, <4>4 DEF Places
    <3>2. ASSUME NEW i \in Places(d)'
          PROVE  i + 1 \in Places(d)
      BY <2>1, <3>2 DEF Places
    <3> QED BY <3>1, <3>2
  <2>6. /\ \A d \in Call : Holds(d)' <=> d = w
        /\ \A d \in Call : turn'[d] = "queued" <=> turn[d] = "queued" /\ d # w
    BY <1>1, <1>2, <2>1 DEF LockTypeOK, Holds
  <2>7. LockTypeOK'
    BY <1>1, <2>1 DEF LockTypeOK
  <2>8. \A d \in Call : turn'[d] = "queued" <=> Places(d)' # {}
    <3>1. \A d \in Call : turn[d] = "queued" <=> Places(d) # {}
      BY DEF HandOver
    <3> QED BY <2>4, <2>5, <2>6, <3>1
  <2>9. \A i, j \in 1 .. Len(queue') : queue'[i] = queue'[j] => i = j
    <3> SUFFICES ASSUME NEW i \in 1 .. Len(queue'), NEW j \in 1 .. Len(queue'),
                        queue'[i] = queue'[j]
                 PROVE  i = j
      OBVIOUS
    <3>1. queue'[i] = queue[i + 1] /\ queue'[j] = queue[j + 1]
      BY <2>1
    <3>2. i + 1 \in 1 .. Len(queue) /\ j + 1 \in 1 .. Len(queue)
      BY <2>1
    <3>3. i + 1 = j + 1
      BY <2>2, <3>1, <3>2
    <3> QED BY <2>1, <3>3
  <2> QED
    BY <2>1, <2>6, <2>7, <2>8, <2>9 DEF HandOver
<1> QED
  BY <1>3, <1>4

-----------------------------------------------------------------------------
\* HandOver holds in every reachable state, for any set of callers: no wake-up
\* is lost between release and the microtask of the waiter (acquire, release).
THEOREM LockIsHandedOver == LockSpec => []HandOver
<1>1. LockInit => HandOver
  <2> SUFFICES ASSUME LockInit
               PROVE  HandOver
    OBVIOUS
  <2>1. Len(queue) = 0 /\ queue \in Seq(Call)
    BY DEF LockInit
  <2>2. \A c \in Call : turn[c] = "idle" /\ ~Holds(c) /\ Places(c) = {}
    BY <2>1 DEF LockInit, Holds, Places
  <2>3. LockTypeOK
    BY <2>1 DEF LockInit, LockTypeOK
  <2>4. ~locked /\ queue = <<>>
    BY DEF LockInit
  <2>5. \A c \in Call : turn[c] = "queued" <=> Places(c) # {}
    BY <2>2
  <2>6. \A i, j \in 1 .. Len(queue) : queue[i] = queue[j] => i = j
    BY <2>1
  <2> QED
    BY <2>2, <2>3, <2>4, <2>5, <2>6 DEF HandOver
<1>2. HandOver /\ [LockNext]_lockVars => HandOver'
  <2> SUFFICES ASSUME HandOver, [LockNext]_lockVars
               PROVE  HandOver'
    OBVIOUS
  <2>1. CASE UNCHANGED lockVars
    BY <2>1 DEF lockVars, HandOver, LockTypeOK, Holds, Places
  <2> QED
    BY <2>1, AcquireKeepsHandOver, RunKeepsHandOver, ReleaseKeepsHandOver DEF LockNext
<1> QED
  BY <1>1, <1>2, PTL DEF LockSpec

-----------------------------------------------------------------------------
(* FairAccess. *)

\* Only a caller in the queue waits for others.
LEMMA NobodyBefore ==
    ASSUME NEW c, turn[c] # "queued"
    PROVE  Before(c) = {}
BY DEF Before

LEMMA AcquireStep ==
    ASSUME HandOver, HandOver', NEW c \in Call, Acquire(c)
    PROVE  LockAccess!Request(c, "write")
<1>0. LockTypeOK /\ turn[c] = "idle"
  BY DEF HandOver, Acquire
<1> DEFINE request == [d \in Call |-> IF turn[d] = "idle" THEN "none" ELSE "write"]
           running == {d \in Call : turn[d] = "running"}
           asked == {d \in Call : turn[d] # "idle"}
<1>1. PICK s \in {"queued", "granted"} : turn' = [turn EXCEPT ![c] = s]
  BY DEF Acquire
<1>2. request' = [request EXCEPT ![c] = "write"] /\ running' = running
  BY <1>0, <1>1 DEF LockTypeOK
<1>3. {d \in Call : LockAccess!Conflict("write", request[d])} = asked
  BY DEF LockAccess!Conflict
<1>4. Before(c)' = asked
  <2>1. CASE locked
    <3>1. turn'[c] = "queued" /\ queue' = Append(queue, c)
      BY <1>0, <2>1 DEF Acquire, LockTypeOK
    <3>2. /\ Len(queue) \in Nat /\ Len(queue') = Len(queue) + 1
          /\ queue'[Len(queue) + 1] = c
          /\ \A i \in 1 .. Len(queue) : queue'[i] = queue[i]
      BY <1>0, <3>1 DEF LockTypeOK
    <3>3. Places(c)' = {Len(queue) + 1}
      <4>1. Places(c) = {}
        BY <1>0 DEF HandOver
      <4> QED BY <3>2, <4>1 DEF Places
    <3>4. \A d \in Call : (\E i \in Places(d)' : i < Len(queue) + 1) <=> Places(d) # {}
      BY <3>2 DEF Places
    <3>5. \A d \in Call : Holds(d)' <=> Holds(d)
      BY <1>0, <1>1, <2>1, <3>1 DEF Holds, LockTypeOK
    <3>6. \A d \in Call : turn[d] # "idle" <=> Holds(d) \/ turn[d] = "queued"
      BY <1>0 DEF Holds, LockTypeOK
    <3>7. \A d \in Call : turn[d] = "queued" <=> Places(d) # {}
      BY DEF HandOver
    <3>8. Before(c)' = {d \in Call : Holds(d)' \/ \E i \in Places(d)' : i < Len(queue) + 1}
      BY <3>1, <3>3 DEF Before
    <3> QED
      BY <3>4, <3>5, <3>6, <3>7, <3>8
  <2>2. CASE ~locked
    <3>1. \A d \in Call : ~Holds(d)
      BY <2>2 DEF HandOver
    <3>2. \A d \in Call : turn[d] # "queued"
      BY <2>2, <1>0 DEF HandOver, LockTypeOK, Places
    <3>3. asked = {}
      BY <1>0, <3>1, <3>2 DEF LockTypeOK, Holds
    <3>4. turn'[c] # "queued"
      BY <1>0, <2>2 DEF Acquire, LockTypeOK
    <3> QED BY <3>3, <3>4 DEF Before
  <2> QED BY <2>1, <2>2
<1>5. \A d \in Call \ {c} : Before(d)' = Before(d)
  <2> SUFFICES ASSUME NEW d \in Call \ {c}, turn[d] = "queued"
               PROVE  Before(d)' = Before(d)
    BY <1>0, <1>1 DEF Before, LockTypeOK
  <2>1. locked /\ turn'[d] = "queued"
    <3>1. Places(d) # {}
      BY DEF HandOver
    <3>2. queue # <<>>
      BY <3>1, <1>0 DEF Places, LockTypeOK
    <3> QED BY <3>2, <1>0, <1>1 DEF HandOver, LockTypeOK
  <2>2. queue' = Append(queue, c) /\ turn' = [turn EXCEPT ![c] = "queued"]
    BY <2>1 DEF Acquire
  <2>3. /\ Len(queue) \in Nat /\ Len(queue') = Len(queue) + 1
        /\ queue'[Len(queue) + 1] = c
        /\ \A i \in 1 .. Len(queue) : queue'[i] = queue[i]
    BY <1>0, <2>2 DEF LockTypeOK
  <2>4. Places(d)' = Places(d)
    BY <2>3 DEF Places
  <2>5. \A e \in Call : Holds(e)' <=> Holds(e)
    BY <1>0, <2>2 DEF Holds, LockTypeOK
  <2>6. \A e \in Call, j \in Places(d) :
           (\E i \in Places(e)' : i < j) <=> (\E i \in Places(e) : i < j)
    BY <2>3 DEF Places
  <2> QED
    BY <2>1, <2>4, <2>5, <2>6 DEF Before
<1>6. [d \in Call |-> Before(d)]' = [[d \in Call |-> Before(d)] EXCEPT ![c] = asked]
  BY <1>4, <1>5
<1>7. request[c] = "none"
  BY <1>0
<1> QED
  BY <1>2, <1>3, <1>6, <1>7 DEF LockAccess!Request

LEMMA RunStep ==
    ASSUME HandOver, NEW c \in Call, Run(c)
    PROVE  LockAccess!Enter(c)
<1>1. LockTypeOK /\ turn[c] = "granted" /\ turn' = [turn EXCEPT ![c] = "running"]
  BY DEF HandOver, Run
<1>2. [d \in Call |-> Before(d)]' = [d \in Call |-> Before(d)]
  <2>1. \A d \in Call : (Holds(d)' <=> Holds(d)) /\ (turn'[d] = "queued" <=> turn[d] = "queued")
    BY <1>1 DEF LockTypeOK, Holds
  <2>2. \A d \in Call : Places(d)' = Places(d)
    BY DEF Run, Places
  <2> QED BY <2>1, <2>2 DEF Before
<1>3. Before(c) = {}
  BY <1>1, NobodyBefore
<1> QED
  BY <1>1, <1>2, <1>3 DEF LockAccess!Enter, LockTypeOK

LEMMA ReleaseStep ==
    ASSUME HandOver, NEW c \in Call, Release(c)
    PROVE  LockAccess!Leave(c)
<1>1. LockTypeOK /\ turn[c] = "running"
  BY DEF HandOver, Release
<1>2. \A d \in Call : Holds(d) <=> d = c
  BY <1>1 DEF HandOver, Holds
<1> DEFINE request == [d \in Call |-> IF turn[d] = "idle" THEN "none" ELSE "write"]
           running == {d \in Call : turn[d] = "running"}
<1>3. request' = [request EXCEPT ![c] = "none"] /\ running' = running \ {c}
  <2>1. CASE queue = <<>>
    BY <1>1, <2>1 DEF Release, LockTypeOK
  <2>2. CASE queue # <<>>
    <3>1. PICK w \in Call \ {c} :
             /\ turn[w] = "queued"
             /\ turn' = [turn EXCEPT ![c] = "idle", ![w] = "granted"]
      BY <2>2, HandedOver
    <3> QED BY <1>1, <3>1 DEF LockTypeOK
  <2> QED BY <2>1, <2>2
<1>4. \A d \in Call : Before(d)' = Before(d) \ {c}
  <2>1. CASE queue = <<>>
    <3>1. \A d \in Call : Places(d) = {}
      BY <2>1 DEF Places
    <3>2. \A d \in Call : turn[d] # "queued" /\ turn'[d] # "queued"
      BY <1>1, <2>1, <3>1 DEF HandOver, Release, LockTypeOK
    <3> QED BY <3>2 DEF Before
  <2>2. CASE queue # <<>>
    <3>0. PICK w \in Call : w = queue[1]
      BY <2>2, HandedOver
    <3>1. /\ w # c /\ turn[w] = "queued"
          /\ turn' = [turn EXCEPT ![c] = "idle", ![w] = "granted"]
          /\ Len(queue) \in Nat \ {0} /\ Len(queue') = Len(queue) - 1
          /\ \A j \in 1 .. Len(queue) - 1 : queue'[j] = queue[j + 1]
      BY <2>2, <3>0, HandedOver
    <3>2. \A d \in Call : Holds(d)' <=> d = w
      BY <1>1, <1>2, <3>1 DEF LockTypeOK, Holds
    <3>3. Places(w) = {1}
      BY <3>0, <3>1 DEF HandOver, Places
    <3>4. Before(w)' = Before(w) \ {c}
      <4>1. Before(w)' = {}
        BY <1>1, <3>1 DEF Before, LockTypeOK
      <4>2. \A d \in Call : ~ \E i \in Places(d) : i < 1
        BY DEF Places
      <4> QED BY <1>2, <3>3, <4>1, <4>2 DEF Before
    <3>5. ASSUME NEW d \in Call \ {w}
          PROVE  Before(d)' = Before(d) \ {c}
      <4>1. turn'[d] = "queued" <=> turn[d] = "queued"
        BY <1>1, <3>1 DEF LockTypeOK
      <4>2. CASE turn[d] # "queued"
        BY <4>1, <4>2 DEF Before
      <4>3. CASE turn[d] = "queued"
        <5>1. ASSUME NEW e \in Call
              PROVE  e \in Before(d)' <=> e \in Before(d) /\ e # c
          <6>1. Places(c) = {}
            BY <1>1 DEF HandOver
          <6>2. PICK j \in Places(d) : TRUE
            BY <4>3 DEF HandOver
          <6>3. j \in 2 .. Len(queue) /\ queue[j] = d
            BY <3>0, <3>1, <6>2 DEF Places
          <6>4. Places(d) = {j}
            BY <6>3 DEF HandOver, Places
          <6>5. Places(d)' = {j - 1}
            <7>1. j - 1 \in Places(d)'
              BY <3>1, <6>3 DEF Places
            <7>2. \A k \in Places(d)' : k + 1 \in Places(d) /\ k \in Nat
              BY <3>1 DEF Places
            <7> QED BY <6>3, <6>4, <7>1, <7>2
          <6>6. (\E i \in Places(e)' : i < j - 1) <=> e # w /\ \E i \in Places(e) : i < j
            <7>1. ASSUME NEW i \in Places(e)', i < j - 1
                  PROVE  e # w /\ \E k \in Places(e) : k < j
              <8>1. i + 1 \in Places(e) /\ i + 1 < j /\ i + 1 # 1
                BY <3>1, <6>3, <7>1 DEF Places
              <8> QED BY <3>3, <8>1
            <7>2. ASSUME NEW i \in Places(e), i < j, e # w
                  PROVE  \E k \in Places(e)' : k < j - 1
              <8>1. i \in 2 .. Len(queue) /\ queue[i] = e
                BY <3>0, <3>1, <7>2 DEF Places
              <8>2. i - 1 \in Places(e)'
                BY <3>1, <8>1 DEF Places
              <8> QED BY <6>3, <7>2, <8>1, <8>2
            <7> QED BY <7>1, <7>2
          <6>7. e \in Before(d) <=> e = c \/ \E i \in Places(e) : i < j
            BY <1>2, <4>3, <6>4 DEF Before
          <6>8. e \in Before(d)' <=> e = w \/ \E i \in Places(e)' : i < j - 1
            BY <3>2, <4>1, <4>3, <6>5 DEF Before
          <6>9. e = w => e # c /\ \E i \in Places(e) : i < j
            BY <3>1, <3>3, <6>3
          <6> QED BY <6>1, <6>6, <6>7, <6>8, <6>9
        <5>2. Before(d) \subseteq Call /\ Before(d)' \subseteq Call
          BY DEF Before
        <5> QED BY <5>1, <5>2
      <4> QED BY <4>2, <4>3
    <3> QED BY <3>4, <3>5
  <2> QED BY <2>1, <2>2
<1>5. [d \in Call |-> Before(d)]' = [d \in Call |-> [x \in Call |-> Before(x)][d] \ {c}]
  BY <1>4
<1>6. c \in running
  BY <1>1
<1> QED
  BY <1>3, <1>5, <1>6 DEF LockAccess!Leave

\* Every step of the lock is a step of FairAccess or a stutter: callbacks exclude
\* each other and run in the order of the calls (AsyncLock.ts: "Minimal FIFO
\* async mutual exclusion lock").
THEOREM AsyncLockIsFair == LockSpec => FairLockAccess
<1>1. LockInit => LockAccess!Init
  BY DEF LockInit, LockAccess!Init, Before
<1>2. HandOver /\ HandOver' /\ [LockNext]_lockVars => [LockAccess!Next]_(LockAccess!vars)
  <2> SUFFICES ASSUME HandOver, HandOver', [LockNext]_lockVars
               PROVE  [LockAccess!Next]_(LockAccess!vars)
    OBVIOUS
  <2>1. ASSUME NEW c \in Call, Acquire(c)
        PROVE  LockAccess!Next
    BY <2>1, AcquireStep DEF LockAccess!Next, LockAccess!Kind
  <2>2. ASSUME NEW c \in Call, Run(c)
        PROVE  LockAccess!Next
    BY <2>2, RunStep DEF LockAccess!Next
  <2>3. ASSUME NEW c \in Call, Release(c)
        PROVE  LockAccess!Next
    BY <2>3, ReleaseStep DEF LockAccess!Next
  <2>4. CASE UNCHANGED lockVars
    BY <2>4 DEF lockVars, LockAccess!vars, Before, Holds, Places
  <2> QED
    BY <2>1, <2>2, <2>3, <2>4 DEF LockNext
<1> QED
  BY <1>1, <1>2, LockIsHandedOver, PTL DEF LockSpec, FairLockAccess, LockAccess!Spec
=============================================================================
