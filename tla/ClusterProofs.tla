---------------------------- MODULE ClusterProofs ----------------------------
(***************************************************************************)
(* Proofs about the two modules that Cluster checks together.              *)
(*                                                                         *)
(* Transport: no handler whose caller waits works on storage that is       *)
(* closed, and a leader has a client for each peer it counts on.  The      *)
(* first needs that open calls are waited for.  The second holds of        *)
(* leaders that made the members they know themselves, one configuration   *)
(* at a time, and hangs on removals:                                       *)
(*   - a member that is being removed is not active (RemovedAreInactive),  *)
(*     or the end of removeServer would drop the client of a peer;         *)
(*   - it could only come back through addServer, which a leader that      *)
(*     waits for a removal refuses: the removal is pending for as long     *)
(*     (RemovalsPend).                                                     *)
(*                                                                         *)
(* Timers, however many handlers may wait: a timer never runs behind       *)
(* TimerManager's back, and a voter always has a way to act.  The          *)
(* invariant says of every point at which a handler gives up the processor *)
(* what the rest of it may count on.                                       *)
(***************************************************************************)
EXTENDS Transport, Timers, SequenceTheorems, TLAPS


-----------------------------------------------------------------------------
(* Types, and how far logs go. *)

TypeOK ==
    /\ server \in [Node -> {"down", "binding", "up", "stopping", "stopped"}]
    /\ clients \in [Node -> SUBSET Node]
    /\ calling \in [Node -> SUBSET Node]
    /\ handling \in [Node -> SUBSET Node]
    /\ abandoned \in [Node -> SUBSET Node]
    /\ configs \in Seq(SUBSET Node)
    /\ known \in [Node -> Nat]
    /\ active \in [Node -> SUBSET Node]
    /\ committed \in [Node -> Nat]
    /\ removals \in [Node -> SUBSET [member : Node, index : Nat]]

\* Nobody knows, or has committed, more changes than there are.
WithinConfigs == \A n \in Node : known[n] <= Len(configs) /\ committed[n] <= Len(configs)

\* Where a configuration is looked up there is one.
LEMMA ConfigType ==
    ASSUME TypeOK, NEW i \in 0 .. Len(configs)
    PROVE  Config(i) \in SUBSET Node
<1>1. CASE i = 0
  BY <1>1, TransportAssumption DEF Config
<1>2. CASE i # 0
  <2>1. configs \in Seq(SUBSET Node) /\ Len(configs) \in Nat
    BY DEF TypeOK
  <2>2. i \in 1 .. Len(configs)
    BY <1>2, <2>1
  <2>3. configs[i] \in SUBSET Node
    BY <2>1, <2>2
  <2> QED BY <1>2, <2>3 DEF Config
<1> QED BY <1>1, <1>2

\* A change at the end leaves the earlier configurations.
LEMMA ConfigKept ==
    ASSUME TypeOK, NEW config \in SUBSET Node, configs' = Append(configs, config)
    PROVE  /\ configs' \in Seq(SUBSET Node) /\ Len(configs') = Len(configs) + 1
           /\ \A i \in 0 .. Len(configs) : Config(i)' = Config(i)
BY DEF TypeOK, Config

\* What giving up leaves: nobody is served or owed an answer that was not before.
LEMMA GivenUpLeaves ==
    ASSUME TypeOK, NEW n \in Node, NEW peers \in SUBSET Node, GivenUp(n, peers)
    PROVE  /\ calling' \in [Node -> SUBSET Node] /\ handling' \in [Node -> SUBSET Node]
           /\ abandoned' \in [Node -> SUBSET Node]
           /\ \A m \in Node : /\ calling'[m] \subseteq calling[m]
                             /\ handling'[m] \subseteq handling[m]
                             /\ abandoned'[m] \subseteq abandoned[m] \cup handling[m]
<1>1. calling' \in [Node -> SUBSET Node] /\ \A m \in Node : calling'[m] \subseteq calling[m]
  BY DEF GivenUp, TypeOK
<1>2. handling' \in [Node -> SUBSET Node] /\ \A m \in Node : handling'[m] \subseteq handling[m]
  BY DEF GivenUp, TypeOK
<1>3. /\ abandoned' \in [Node -> SUBSET Node]
      /\ \A m \in Node : abandoned'[m] \subseteq abandoned[m] \cup handling[m]
  BY DEF GivenUp, TypeOK
<1> QED BY <1>1, <1>2, <1>3

LEMMA TypeStep == TypeOK /\ WithinConfigs /\ [Next]_vars => TypeOK' /\ WithinConfigs'
<1> SUFFICES ASSUME TypeOK, WithinConfigs, [Next]_vars PROVE TypeOK' /\ WithinConfigs'
  OBVIOUS
<1> USE TransportAssumption
<1>1. CASE UNCHANGED vars
  BY <1>1 DEF vars, calls, cluster, TypeOK, WithinConfigs
<1>2. ASSUME NEW n \in Node, Start(n) PROVE TypeOK' /\ WithinConfigs'
  <2>1. Config(known[n]) \in SUBSET Node
    BY ConfigType DEF TypeOK, WithinConfigs
  <2> QED BY <1>2, <2>1 DEF Start, calls, TypeOK, WithinConfigs
<1>3. ASSUME NEW n \in Node, Bound(n) PROVE TypeOK' /\ WithinConfigs'
  BY <1>3 DEF Bound, ClientsOnStart, AllPeers, calls, cluster, TypeOK, WithinConfigs
<1>4. ASSUME NEW n \in Node, Stop(n) PROVE TypeOK' /\ WithinConfigs'
  <2>1. GivenUp(n, Node)
    BY <1>4 DEF Stop
  <2>2. /\ calling' \in [Node -> SUBSET Node] /\ handling' \in [Node -> SUBSET Node]
        /\ abandoned' \in [Node -> SUBSET Node]
    BY <2>1, GivenUpLeaves
  <2> QED BY <1>4, <2>2 DEF Stop, TypeOK, WithinConfigs
<1>5. ASSUME NEW n \in Node, ShutDown(n) \/ CloseStorage(n) PROVE TypeOK' /\ WithinConfigs'
  BY <1>5 DEF ShutDown, CloseStorage, calls, cluster, TypeOK, WithinConfigs
<1>6. ASSUME NEW n \in Node, BecomeLeader(n) PROVE TypeOK' /\ WithinConfigs'
  <2>1. configs' \in Seq(SUBSET Node) /\ Len(configs') = known[n]
    BY <1>6 DEF BecomeLeader, TypeOK, WithinConfigs
  <2>2. \A m \in Node : known'[m] \in Nat /\ known'[m] <= known[n] /\ committed[m] <= known[n]
    BY <1>6 DEF BecomeLeader, TypeOK
  <2>3. known' \in [Node -> Nat]
    BY <1>6, <2>2 DEF BecomeLeader, TypeOK
  <2> QED BY <1>6, <2>1, <2>2, <2>3 DEF BecomeLeader, calls, TypeOK, WithinConfigs
<1>7. ASSUME NEW n \in Node, Commit(n) PROVE TypeOK' /\ WithinConfigs'
  <2>1. PICK upTo \in NotifiedAtOnce : Notified(n, upTo)
    BY <1>7 DEF Commit
  <2>2. clients' \in [Node -> SUBSET Node] /\ removals' \in [Node -> SUBSET [member : Node, index : Nat]]
    BY <2>1 DEF Notified, Resolved, TypeOK
  <2>3. /\ committed' = [committed EXCEPT ![n] = Len(configs)]
        /\ UNCHANGED <<server, calls, configs, known, active>>
    BY <1>7 DEF Commit
  <2>4. Len(configs) \in Nat
    BY DEF TypeOK
  <2> QED BY <2>2, <2>3, <2>4 DEF calls, TypeOK, WithinConfigs
<1>8. ASSUME NEW n \in Node, Learn(n) PROVE TypeOK' /\ WithinConfigs'
  <2>1. PICK index \in Nat : /\ index <= known[n]
                             /\ committed' = [committed EXCEPT ![n] = index]
                             /\ Notified(n, index)
    <3>1. \E m \in Node :
            LET index == IF committed[m] < known[n] THEN committed[m] ELSE known[n]
            IN  committed' = [committed EXCEPT ![n] = index] /\ Notified(n, index)
      BY <1>8 DEF Learn
    <3>2. PICK m \in Node :
            LET index == IF committed[m] < known[n] THEN committed[m] ELSE known[n]
            IN  committed' = [committed EXCEPT ![n] = index] /\ Notified(n, index)
      BY <3>1
    <3>3. committed[m] \in Nat /\ known[n] \in Nat
      BY DEF TypeOK
    <3> DEFINE index == IF committed[m] < known[n] THEN committed[m] ELSE known[n]
    <3>4. index \in Nat /\ index <= known[n]
      BY <3>3
    <3>5. committed' = [committed EXCEPT ![n] = index] /\ Notified(n, index)
      BY <3>2
    <3> HIDE DEF index
    <3> QED BY <3>4, <3>5
  <2>2. clients' \in [Node -> SUBSET Node] /\ removals' \in [Node -> SUBSET [member : Node, index : Nat]]
    BY <2>1 DEF Notified, Resolved, TypeOK
  <2> QED BY <1>8, <2>1, <2>2 DEF Learn, calls, TypeOK, WithinConfigs
<1>9. ASSUME NEW n \in Node, Heartbeat(n) PROVE TypeOK' /\ WithinConfigs'
  BY <1>9 DEF Heartbeat, Discovered, AllPeers, calls, TypeOK, WithinConfigs
<1>10. ASSUME NEW n \in Node, NEW r \in removals[n], GiveUp(n, r) PROVE TypeOK' /\ WithinConfigs'
  BY <1>10 DEF GiveUp, calls, cluster, TypeOK, WithinConfigs
<1>11. ASSUME NEW n \in Node, NEW m \in Node,
              Send(n, m) \/ Receive(n, m) \/ Answer(n, m) \/ AnswerNobody(n, m) \/ Fail(n, m)
       PROVE  TypeOK' /\ WithinConfigs'
  <2>1. UNCHANGED <<server, storage, clients, cluster, removals>>
    BY <1>11 DEF Send, Receive, Answer, AnswerNobody, Fail
  <2>2. /\ calling' \in [Node -> SUBSET Node] /\ handling' \in [Node -> SUBSET Node]
        /\ abandoned' \in [Node -> SUBSET Node]
    <3>1. CASE Send(n, m)
      BY <3>1 DEF Send, TypeOK
    <3>2. CASE Receive(n, m)
      BY <3>2 DEF Receive, TypeOK
    <3>3. CASE Answer(n, m)
      BY <3>3 DEF Answer, TypeOK
    <3>4. CASE AnswerNobody(n, m)
      BY <3>4 DEF AnswerNobody, TypeOK
    <3>5. CASE Fail(n, m)
      BY <3>5, GivenUpLeaves, {m} \in SUBSET Node DEF Fail
    <3> QED BY <1>11, <3>1, <3>2, <3>3, <3>4, <3>5
  <2> QED BY <2>1, <2>2 DEF cluster, TypeOK, WithinConfigs
<1>12. ASSUME NEW n \in Node, NEW m \in Node, AddServer(n, m) PROVE TypeOK' /\ WithinConfigs'
  <2>1. active[n] \cup {m} \in SUBSET Node
    BY DEF TypeOK
  <2>2. configs' \in Seq(SUBSET Node) /\ Len(configs') = Len(configs) + 1
    BY <1>12, <2>1, ConfigKept DEF AddServer, SubmitConfigChange
  <2> QED BY <1>12, <2>1, <2>2 DEF AddServer, SubmitConfigChange, calls, TypeOK, WithinConfigs
<1>13. ASSUME NEW n \in Node, NEW m \in Node, RemoveServer(n, m) PROVE TypeOK' /\ WithinConfigs'
  <2>1. active[n] \ {m} \in SUBSET Node
    BY DEF TypeOK
  <2>2. configs' \in Seq(SUBSET Node) /\ Len(configs') = Len(configs) + 1
    BY <1>13, <2>1, ConfigKept DEF RemoveServer, SubmitConfigChange
  <2>3. removals' \in [Node -> SUBSET [member : Node, index : Nat]]
    BY <1>13 DEF RemoveServer, TypeOK
  <2> QED BY <1>13, <2>1, <2>2, <2>3 DEF RemoveServer, SubmitConfigChange, calls, TypeOK, WithinConfigs
<1>14. ASSUME NEW n \in Node, NEW m \in Node, Replicate(n, m) PROVE TypeOK' /\ WithinConfigs'
  <2>1. Config(Len(configs)) \in SUBSET Node
    BY ConfigType, Len(configs) \in 0 .. Len(configs) DEF TypeOK
  <2> QED BY <1>14, <2>1 DEF Replicate, calls, TypeOK, WithinConfigs
<1> QED BY <1>1, <1>2, <1>3, <1>4, <1>5, <1>6, <1>7, <1>8, <1>9, <1>10, <1>11, <1>12, <1>13, <1>14
        DEF Next

-----------------------------------------------------------------------------
(* Handlers and storage. *)

\* The storage is open from the start of a node to the end of its stop, and calls
\* are open in between.
ServedWhileOpen ==
    \A n \in Node : /\ server[n] # "down" => n \in storage
                    /\ handling[n] # {} => server[n] \in {"up", "stopping"}

\* A node whose handlers end in time closes no storage under those whose caller
\* waits for them (GrpcTransport.stop, RaftNode.stop).
THEOREM OpenCallsKeepStorage ==
    ASSUME ~ Slow PROVE Spec => []OpenCallsHaveStorage
<1>1. Init => ServedWhileOpen
  BY DEF Init, ServedWhileOpen
<1>2. TypeOK /\ ServedWhileOpen /\ [Next]_vars => ServedWhileOpen'
  <2> SUFFICES ASSUME TypeOK, ServedWhileOpen, [Next]_vars PROVE ServedWhileOpen'
    OBVIOUS
  <2>1. CASE UNCHANGED <<server, storage, handling>>
    BY <2>1 DEF ServedWhileOpen
  <2>2. ASSUME NEW n \in Node, Start(n) \/ Bound(n) PROVE ServedWhileOpen'
    BY <2>2 DEF Start, Bound, calls, TypeOK, ServedWhileOpen
  <2>10. ASSUME NEW n \in Node, Stop(n) PROVE ServedWhileOpen'
    <3>1. \A m \in Node : handling'[m] \subseteq handling[m]
      BY <2>10, GivenUpLeaves, Node \in SUBSET Node DEF Stop
    <3> QED BY <2>10, <3>1 DEF Stop, TypeOK, ServedWhileOpen
  <2>3. ASSUME NEW n \in Node, ShutDown(n) PROVE ServedWhileOpen'
    BY <2>3 DEF ShutDown, MayShutDown, calls, TypeOK, ServedWhileOpen
  <2>4. ASSUME NEW n \in Node, CloseStorage(n) PROVE ServedWhileOpen'
    BY <2>4 DEF CloseStorage, calls, TypeOK, ServedWhileOpen
  <2>5. ASSUME NEW n \in Node, NEW m \in Node, Receive(n, m) \/ Answer(n, m) PROVE ServedWhileOpen'
    BY <2>5 DEF Receive, Answer, TypeOK, ServedWhileOpen
  <2>11. ASSUME NEW n \in Node, NEW m \in Node, Fail(n, m) PROVE ServedWhileOpen'
    <3>1. \A k \in Node : handling'[k] \subseteq handling[k]
      BY <2>11, GivenUpLeaves, {m} \in SUBSET Node DEF Fail
    <3> QED BY <2>11, <3>1 DEF Fail, ServedWhileOpen
  <2>6. ASSUME NEW n \in Node, BecomeLeader(n) \/ Commit(n) \/ Learn(n) \/ Heartbeat(n)
        PROVE  UNCHANGED <<server, storage, handling>>
    BY <2>6 DEF calls, BecomeLeader, Commit, Learn, Heartbeat
  <2>7. ASSUME NEW n \in Node, NEW m \in Node,
               Send(n, m) \/ AnswerNobody(n, m) \/ AddServer(n, m) \/ RemoveServer(n, m)
                 \/ Replicate(n, m)
        PROVE  UNCHANGED <<server, storage, handling>>
    BY <2>7 DEF calls, Send, AnswerNobody, AddServer, RemoveServer, Replicate
  <2>8. \A n \in Node : \A r \in removals[n] : GiveUp(n, r) => UNCHANGED <<server, storage, handling>>
    BY DEF calls, GiveUp
  <2>9. UNCHANGED vars => UNCHANGED <<server, storage, handling>>
    BY DEF vars, calls
  <2> QED BY <2>1, <2>2, <2>3, <2>4, <2>5, <2>6, <2>7, <2>8, <2>9, <2>10, <2>11 DEF Next
<1>3. ServedWhileOpen => OpenCallsHaveStorage
  BY DEF ServedWhileOpen, OpenCallsHaveStorage
<1>4. Init => TypeOK /\ WithinConfigs
  BY TransportAssumption DEF Init, TypeOK, WithinConfigs
<1> QED BY <1>1, <1>2, <1>3, <1>4, TypeStep, PTL DEF Spec

-----------------------------------------------------------------------------
(* Leaders and their peers. *)

\* Who leads is up, has met no member, and waits for no removal further on
\* than the configurations go.
LeaderIsNew ==
    \A n \in Node : leader = n => /\ server[n] = "up" /\ n \notin met
                                 /\ \A r \in removals[n] : r.index <= Len(configs)

\* No node calls itself.
OthersCalled ==
    \A n \in Node : n \notin calling[n] /\ n \notin handling[n] /\ n \notin abandoned[n]

\* While it waits for a removal, a leader has a change pending.
RemovalsPend == \A n \in Node : leader = n /\ removals[n] # {} => Pending(n)

\* What is being removed is not active, with a node that has met no member.
RemovedAreInactive ==
    \A n \in Node : server[n] = "up" /\ n \notin met =>
                       \A r \in removals[n] : r.member \notin active[n]

\* Such a node has a client for each peer.
ClientsOfPeers ==
    \A n \in Node : server[n] = "up" /\ n \notin met => AllPeers(n) \subseteq clients[n]

\* A node that starts waits for no removal.
NoneLeftOver == \A n \in Node : server[n] \in {"down", "binding"} => removals[n] = {}

PeersInv == /\ LeaderIsNew /\ OthersCalled /\ RemovalsPend
            /\ RemovedAreInactive /\ ClientsOfPeers /\ NoneLeftOver

LEMMA PeersStep ==
    ASSUME ~ TakesOver, ~ Batched, TypeOK, WithinConfigs, PeersInv, [Next]_vars
    PROVE  PeersInv'
<1> USE TransportAssumption
<1>0. Len(configs) \in Nat /\ \A n \in Node : known[n] \in Nat /\ committed[n] \in Nat
  BY DEF TypeOK
<1>1. CASE UNCHANGED vars
  BY <1>1 DEF vars, calls, cluster, PeersInv, LeaderIsNew, OthersCalled, RemovalsPend,
              RemovedAreInactive, ClientsOfPeers, NoneLeftOver, Pending, AllPeers, Config
<1>2. ASSUME NEW n \in Node, Start(n) PROVE PeersInv'
  <2>1. leader # n
    BY <1>2 DEF Start, PeersInv, LeaderIsNew
  <2> QED BY <1>2, <2>1 DEF Start, calls, TypeOK, PeersInv, LeaderIsNew, OthersCalled,
            RemovalsPend, RemovedAreInactive, ClientsOfPeers, NoneLeftOver, Pending, AllPeers, Config
<1>3. ASSUME NEW n \in Node, Bound(n) PROVE PeersInv'
  BY <1>3 DEF Bound, ClientsOnStart, calls, cluster, TypeOK, PeersInv, LeaderIsNew, OthersCalled,
              RemovalsPend, RemovedAreInactive, ClientsOfPeers, NoneLeftOver, Pending, AllPeers, Config
<1>4. ASSUME NEW n \in Node, Stop(n) PROVE PeersInv'
  <2>1. OthersCalled'
    <3>1. GivenUp(n, Node)
      BY <1>4 DEF Stop
    <3> QED BY <3>1, GivenUpLeaves DEF PeersInv, OthersCalled
  <2> QED BY <1>4, <2>1 DEF Stop, TypeOK, PeersInv, LeaderIsNew, RemovalsPend,
              RemovedAreInactive, ClientsOfPeers, NoneLeftOver, Pending, AllPeers, Config
<1>5. ASSUME NEW n \in Node, ShutDown(n) \/ CloseStorage(n) PROVE PeersInv'
  <2> USE DEF calls, cluster, TypeOK, PeersInv, LeaderIsNew, OthersCalled, RemovalsPend,
              RemovedAreInactive, ClientsOfPeers, NoneLeftOver, Pending, AllPeers, Config
  <2>1. CASE ShutDown(n)
    BY <2>1 DEF ShutDown
  <2>2. CASE CloseStorage(n)
    BY <2>2 DEF CloseStorage
  <2> QED BY <1>5, <2>1, <2>2
<1>6. ASSUME NEW n \in Node, BecomeLeader(n) PROVE PeersInv'
  <2>1. /\ leader' = n /\ server[n] = "up" /\ n \notin met /\ removals[n] = {}
        /\ UNCHANGED <<server, clients, calling, handling, abandoned, active, removals, met>>
    BY <1>6 DEF BecomeLeader, calls
  <2> QED BY <2>1 DEF PeersInv, LeaderIsNew, OthersCalled, RemovalsPend,
              RemovedAreInactive, ClientsOfPeers, NoneLeftOver, AllPeers
\* Waiters are notified of what a step commits: of removed members, whose
\* clients go.
<1>7. ASSUME NEW n \in Node, NEW upTo \in Nat, Notified(n, upTo),
             UNCHANGED <<server, active, met>>
      PROVE  /\ RemovedAreInactive' /\ (NoneLeftOver /\ server[n] = "up" => NoneLeftOver')
             /\ ClientsOfPeers'
             /\ \A m \in Node : removals'[m] \subseteq removals[m]
             /\ \A m \in Node \ {n} : removals'[m] = removals[m]
             /\ removals'[n] = {r \in removals[n] : r.index > upTo}
  <2>1. /\ \A m \in Node \ {n} : removals'[m] = removals[m] /\ clients'[m] = clients[m]
        /\ removals'[n] = removals[n] \ Resolved(n, upTo)
        /\ clients'[n] = clients[n] \ {r.member : r \in Resolved(n, upTo)}
    BY <1>7 DEF Notified, TypeOK
  <2>2. \A r \in removals[n] : r.index \in Nat
    BY DEF TypeOK
  <2>3. removals'[n] = {r \in removals[n] : r.index > upTo}
    BY <2>1, <2>2 DEF Resolved
  <2>4. \A m \in Node : removals'[m] \subseteq removals[m]
    BY <2>1, <2>3
  <2>5. RemovedAreInactive'
    BY <1>7, <2>4 DEF PeersInv, RemovedAreInactive
  <2>6. ClientsOfPeers'
    <3>1. server[n] = "up" /\ n \notin met =>
              \A r \in Resolved(n, upTo) : r.member \notin active[n]
      BY DEF PeersInv, RemovedAreInactive, Resolved
    <3> QED BY <1>7, <2>1, <3>1 DEF PeersInv, ClientsOfPeers, AllPeers
  <2>7. NoneLeftOver /\ server[n] = "up" => NoneLeftOver'
    BY <1>7, <2>1 DEF NoneLeftOver
  <2> QED BY <2>1, <2>3, <2>4, <2>5, <2>6, <2>7
<1>8. ASSUME NEW n \in Node, Commit(n) PROVE PeersInv'
  <2>1. /\ leader = n /\ server[n] = "up" /\ Notified(n, Len(configs)) /\ leader' \in {n, Nil}
        /\ UNCHANGED <<server, calling, handling, abandoned, configs, active, met>>
    BY <1>8 DEF Commit, Leads, NotifiedAtOnce, calls
  <2>2. removals'[n] = {r \in removals[n] : r.index > Len(configs)}
    BY <1>0, <1>7, <2>1
  <2>3. \A r \in removals[n] : r.index \in Nat /\ r.index <= Len(configs)
    BY <2>1 DEF TypeOK, PeersInv, LeaderIsNew
  <2>4. removals'[n] = {}
    BY <1>0, <2>2, <2>3
  <2>5. RemovedAreInactive' /\ ClientsOfPeers' /\ NoneLeftOver'
    BY <1>0, <1>7, <2>1 DEF PeersInv
  <2>6. LeaderIsNew' /\ RemovalsPend'
    BY <2>1, <2>4 DEF PeersInv, LeaderIsNew, RemovalsPend
  <2> QED BY <2>1, <2>5, <2>6 DEF PeersInv, OthersCalled
<1>9. ASSUME NEW n \in Node, Learn(n) PROVE PeersInv'
  <2>1. PICK m \in Node :
            LET index == IF committed[m] < known[n] THEN committed[m] ELSE known[n]
            IN  /\ \/ index > committed[n] /\ leader # n
                   \/ index = committed[n] /\ Resolved(n, index) # {}
                /\ committed' = [committed EXCEPT ![n] = index]
                /\ Notified(n, index)
    BY <1>9 DEF Learn
  <2> DEFINE index == IF committed[m] < known[n] THEN committed[m] ELSE known[n]
  <2>2. /\ Notified(n, index) /\ committed' = [committed EXCEPT ![n] = index]
        /\ leader = n => index = committed[n]
    BY <2>1
  <2>3. index \in Nat
    BY <1>0
  <2> HIDE DEF index
  <2>4. /\ server[n] = "up"
        /\ UNCHANGED <<server, calling, handling, abandoned, configs, active, leader, met>>
    BY <1>9 DEF Learn, calls
  <2>5. RemovedAreInactive' /\ ClientsOfPeers' /\ NoneLeftOver'
    BY <1>7, <2>2, <2>3, <2>4 DEF PeersInv
  <2>6. \A k \in Node : removals'[k] \subseteq removals[k]
    BY <1>7, <2>2, <2>3, <2>4
  <2>7. \A k \in Node : leader = k => committed'[k] = committed[k]
    BY <2>2 DEF TypeOK
  <2>8. LeaderIsNew'
    BY <2>4, <2>6 DEF PeersInv, LeaderIsNew
  <2>9. RemovalsPend'
    BY <2>4, <2>6, <2>7 DEF PeersInv, RemovalsPend, Pending, Config
  <2> QED BY <2>4, <2>5, <2>8, <2>9 DEF PeersInv, OthersCalled
<1>10. ASSUME NEW n \in Node, Heartbeat(n) PROVE PeersInv'
  BY <1>10 DEF Heartbeat, calls, TypeOK, PeersInv, LeaderIsNew, OthersCalled, RemovalsPend,
               RemovedAreInactive, ClientsOfPeers, NoneLeftOver, Pending, AllPeers, Config
<1>11. ASSUME NEW n \in Node, NEW r \in removals[n], GiveUp(n, r) PROVE PeersInv'
  BY <1>11 DEF GiveUp, calls, cluster, TypeOK, PeersInv, LeaderIsNew, OthersCalled, RemovalsPend,
               RemovedAreInactive, ClientsOfPeers, NoneLeftOver, Pending, AllPeers, Config
<1>12. ASSUME NEW n \in Node, NEW m \in Node,
              Send(n, m) \/ Receive(n, m) \/ Answer(n, m) \/ AnswerNobody(n, m) \/ Fail(n, m)
       PROVE  PeersInv'
  <2>1. UNCHANGED <<server, clients, cluster, removals, met>>
    BY <1>12 DEF Send, Receive, Answer, AnswerNobody, Fail
  <2>2. OthersCalled'
    <3>1. CASE Send(n, m)
      BY <3>1 DEF Send, AllPeers, TypeOK, PeersInv, OthersCalled
    <3>2. CASE Receive(n, m)
      BY <3>2 DEF Receive, TypeOK, PeersInv, OthersCalled
    <3>3. CASE Answer(n, m)
      BY <3>3 DEF Answer, TypeOK, PeersInv, OthersCalled
    <3>4. CASE AnswerNobody(n, m)
      BY <3>4 DEF AnswerNobody, TypeOK, PeersInv, OthersCalled
    <3>5. CASE Fail(n, m)
      BY <3>5, GivenUpLeaves, {m} \in SUBSET Node DEF Fail, PeersInv, OthersCalled
    <3> QED BY <1>12, <3>1, <3>2, <3>3, <3>4, <3>5
  <2> QED BY <2>1, <2>2 DEF cluster, PeersInv, LeaderIsNew, RemovalsPend,
            RemovedAreInactive, ClientsOfPeers, NoneLeftOver, Pending, AllPeers, Config
<1>13. ASSUME NEW n \in Node, NEW m \in Node, AddServer(n, m) PROVE PeersInv'
  <2>1. /\ leader = n /\ ~ Pending(n)
        /\ active' = [active EXCEPT ![n] = @ \cup {m}]
        /\ clients' = [clients EXCEPT ![n] = @ \cup {m}]
        /\ UNCHANGED <<server, calling, handling, abandoned, leader, removals, met>>
    BY <1>13 DEF AddServer, SubmitConfigChange, Leads, calls
  <2>2. removals[n] = {}
    BY <2>1 DEF PeersInv, RemovalsPend
  <2> QED BY <2>1, <2>2 DEF TypeOK, PeersInv, LeaderIsNew, OthersCalled, RemovalsPend,
            RemovedAreInactive, ClientsOfPeers, NoneLeftOver, AllPeers
<1>14. ASSUME NEW n \in Node, NEW m \in Node, RemoveServer(n, m) PROVE PeersInv'
  <2> DEFINE r == [member |-> m, index |-> Len(configs) + 1]
  <2>1. /\ leader = n /\ server[n] = "up" /\ ~ Pending(n) /\ m \in active[n]
        /\ configs' = Append(configs, active[n] \ {m})
        /\ active' = [active EXCEPT ![n] = @ \ {m}]
        /\ removals' = [removals EXCEPT ![n] = @ \cup {r}]
        /\ UNCHANGED <<server, clients, calling, handling, abandoned, committed, leader, met>>
    BY <1>14 DEF RemoveServer, SubmitConfigChange, Leads, calls
  <2>2. removals[n] = {}
    BY <2>1 DEF PeersInv, RemovalsPend
  <2>3. removals'[n] = {r} /\ \A k \in Node \ {n} : removals'[k] = removals[k]
    BY <2>1, <2>2 DEF TypeOK
  <2>4. active'[n] = active[n] \ {m} /\ \A k \in Node \ {n} : active'[k] = active[k]
    BY <2>1 DEF TypeOK
  <2>5. Pending(n)'
    <3>1. active[n] \ {m} \in SUBSET Node /\ committed[n] \in 0 .. Len(configs)
      BY <1>0 DEF TypeOK, WithinConfigs
    <3>2. Config(committed[n])' = Config(committed[n])
      <4>1. \A i \in 0 .. Len(configs) : Config(i)' = Config(i)
        BY <2>1, <3>1, ConfigKept
      <4> QED BY <2>1, <3>1, <4>1 DEF Config
    <3> QED BY <2>1, <2>4, <3>2 DEF Pending
  <2>6. LeaderIsNew' /\ RemovalsPend'
    <3>1. Len(configs') = Len(configs) + 1
      BY <2>1, ConfigKept DEF TypeOK
    <3> QED BY <1>0, <2>1, <2>3, <2>5, <3>1 DEF PeersInv, LeaderIsNew, RemovalsPend
  <2>7. RemovedAreInactive' /\ ClientsOfPeers' /\ NoneLeftOver'
    BY <2>1, <2>3, <2>4 DEF PeersInv, RemovedAreInactive, ClientsOfPeers, NoneLeftOver, AllPeers
  <2> QED BY <2>1, <2>6, <2>7 DEF PeersInv, OthersCalled
<1>15. ASSUME NEW n \in Node, NEW m \in Node, Replicate(n, m) PROVE PeersInv'
  <2>1. /\ leader = n /\ n \in handling[m] \cup abandoned[m]
        /\ active' = [active EXCEPT ![m] = Config(Len(configs))] /\ met' = met \cup {m}
        /\ UNCHANGED <<server, clients, calling, handling, abandoned, configs, committed, leader, removals>>
    BY <1>15 DEF Replicate, Leads, calls
  <2>2. m # n
    BY <2>1 DEF PeersInv, OthersCalled
  <2> QED BY <2>1, <2>2 DEF TypeOK, PeersInv, LeaderIsNew, OthersCalled, RemovalsPend,
            RemovedAreInactive, ClientsOfPeers, NoneLeftOver, Pending, AllPeers, Config
<1> QED BY <1>1, <1>2, <1>3, <1>4, <1>5, <1>6, <1>8, <1>9, <1>10, <1>11, <1>12, <1>13, <1>14, <1>15
        DEF Next

\* A leader that has made the members it knows itself, and commits one
\* configuration at a time, has a client for each of its peers (addServer,
\* removeServer and restoreConfig of RaftNode, GrpcTransport.addPeer).
THEOREM LeadersReachAll ==
    ASSUME ~ TakesOver, ~ Batched PROVE Spec => []LeaderReachesAll
<1>1. Init => TypeOK /\ WithinConfigs /\ PeersInv
  BY TransportAssumption
     DEF Init, TypeOK, WithinConfigs, PeersInv, LeaderIsNew, OthersCalled, RemovalsPend,
         RemovedAreInactive, ClientsOfPeers, NoneLeftOver
<1>2. TypeOK /\ WithinConfigs /\ PeersInv /\ [Next]_vars => PeersInv'
  BY PeersStep
<1>3. PeersInv => LeaderReachesAll
  BY DEF PeersInv, LeaderIsNew, ClientsOfPeers, LeaderReachesAll, Leads
<1> QED BY <1>1, <1>2, <1>3, TypeStep, PTL DEF Spec

-----------------------------------------------------------------------------
(* Timers: the types, and the inductive invariant. *)


Timer == [armed : Nat, known : BOOLEAN, callback : BOOLEAN]

Waiting == Messages \cup {"start", "timeout", "heartbeat"}

Writes == {"follower", "log", "vote", "candidate", "leader"}

\* The writes a handler may have before it: a higher term comes first.
IsSection(s) ==
    /\ s \in Seq(Writes) /\ Len(s) <= 2
    /\ Len(s) = 2 => s[1] = "follower" /\ s[2] \in {"log", "vote"}

At(write) == section # Free /\ Head(section) = write

TypeInv ==
    /\ status \in {"started", "stopping", "stopped"}
    /\ role \in {Follower, Candidate, Leader}
    /\ preVote \in BOOLEAN /\ voter \in BOOLEAN /\ failed \in BOOLEAN
    /\ timer \in [{"election", "heartbeat"} -> Timer]
    /\ queue \in Seq(Waiting)
    /\ IsSection(section)

\* A timer that runs is known, and will find its callback when it fires.
RunsIfKnown(t) == t.armed = (IF t.known THEN 1 ELSE 0) /\ (t.known => t.callback)

TimersKnown == \A k \in {"election", "heartbeat"} : RunsIfKnown(timer[k])

WillTimeOut == timer["election"].known \/ (\E k \in DOMAIN queue : queue[k] \in {"timeout", "start"})

\* A leader's heartbeats go on once it has written its no-op; one that was
\* stopped before has its start in the queue.
LeaderInv ==
    /\ role = Leader /\ ~At("leader") => timer["heartbeat"].known
    /\ status = "started" /\ At("leader") =>
          role = Leader \/ \E k \in DOMAIN queue : queue[k] = "start"

\* Everyone else has its election timer where no handler is about to set it.  A
\* handler may make a voter of the node while it writes the log.
FollowerInv ==
    /\ status = "started" /\ At("log") => WillTimeOut
    /\ status = "started" /\ (section = Free \/ At("vote")) /\ role # Leader /\ voter /\ ~failed
          => WillTimeOut

ListenInv == TypeInv /\ TimersKnown /\ LeaderInv /\ FollowerInv

-----------------------------------------------------------------------------
(* The operations of TimerManager. *)

\* Setting a timer, however it was, leaves one that runs and is known.
LEMMA SetIsKnown ==
    ASSUME NEW t \in Timer, RunsIfKnown(t)
    PROVE  Set(t) \in Timer /\ RunsIfKnown(Set(t)) /\ Set(t).known
BY DEF Timer, RunsIfKnown, Set, Unset

\* Stopping a timer leaves one that does not run.
LEMMA UnsetIsOff ==
    ASSUME NEW t \in Timer, RunsIfKnown(t)
    PROVE  /\ [Unset(t) EXCEPT !.callback = FALSE] \in Timer
           /\ RunsIfKnown([Unset(t) EXCEPT !.callback = FALSE])
<1> DEFINE u == Unset(t)
<1>1. u \in Timer /\ u.armed = 0 /\ ~u.known
  <2>1. CASE t.known
    <3>1. u = [t EXCEPT !.armed = t.armed - 1, !.known = FALSE]
      BY <2>1 DEF Unset
    <3>2. t.armed = 1 /\ t.armed - 1 = 0 /\ t.callback \in BOOLEAN
      BY <2>1 DEF Timer, RunsIfKnown
    <3>3. u = [armed |-> 0, known |-> FALSE, callback |-> t.callback]
      BY <3>1, <3>2 DEF Timer
    <3> HIDE DEF u
    <3> QED BY <3>2, <3>3 DEF Timer
  <2>2. CASE ~t.known
    BY <2>2 DEF Timer, RunsIfKnown, Unset
  <2> QED BY <2>1, <2>2
<1> HIDE DEF u
<1>2. /\ [u EXCEPT !.callback = FALSE] \in Timer
      /\ RunsIfKnown([u EXCEPT !.callback = FALSE])
  BY <1>1 DEF Timer, RunsIfKnown
<1> QED BY <1>2 DEF u

\* A timer that runs and fires does not run any more.
LEMMA FiredIsOff ==
    ASSUME NEW t \in Timer, t.armed = 1
    PROVE  Fired(t) \in Timer /\ RunsIfKnown(Fired(t)) /\ Fired(t).callback = t.callback
<1>1. t.armed - 1 = 0 /\ t.callback \in BOOLEAN
  BY DEF Timer
<1> DEFINE u == Fired(t)
<1>2. u = [t EXCEPT !.armed = t.armed - 1, !.known = FALSE]
  BY DEF Fired
<1>3. u = [armed |-> 0, known |-> FALSE, callback |-> t.callback]
  BY <1>1, <1>2 DEF Timer
<1> HIDE DEF u
<1>4. u \in Timer /\ RunsIfKnown(u) /\ u.callback = t.callback
  BY <1>1, <1>3 DEF Timer, RunsIfKnown
<1> QED BY <1>4 DEF u

\* The state of both timers that TimerManager keeps.
Known(ts) ==
    /\ ts \in [{"election", "heartbeat"} -> Timer]
    /\ \A k \in {"election", "heartbeat"} : RunsIfKnown(ts[k])

LEMMA StartElectionIs ==
    ASSUME NEW ts, Known(ts)
    PROVE  /\ Known(StartElectionTimer(ts)) /\ StartElectionTimer(ts)["election"].known
           /\ StartElectionTimer(ts)["heartbeat"] = ts["heartbeat"]
<1>1. StartElectionTimer(ts) = [ts EXCEPT !["election"] = Set(ts["election"])]
  BY DEF StartElectionTimer, Known
<1>2. Set(ts["election"]) \in Timer /\ RunsIfKnown(Set(ts["election"])) /\ Set(ts["election"]).known
  BY SetIsKnown DEF Known
<1> QED BY <1>1, <1>2 DEF Known

LEMMA ResetElectionIs ==
    ASSUME NEW ts, Known(ts)
    PROVE  /\ Known(ResetElectionTimer(ts))
           /\ ts["election"].known => ResetElectionTimer(ts)["election"].known
           /\ ResetElectionTimer(ts)["heartbeat"] = ts["heartbeat"]
BY StartElectionIs DEF ResetElectionTimer

LEMMA StartHeartbeatIs ==
    ASSUME NEW ts, Known(ts)
    PROVE  /\ Known(StartHeartbeatTimer(ts)) /\ StartHeartbeatTimer(ts)["heartbeat"].known
           /\ StartHeartbeatTimer(ts)["election"] = ts["election"]
<1>1. StartHeartbeatTimer(ts) = [ts EXCEPT !["heartbeat"] = Set(ts["heartbeat"])]
  BY DEF StartHeartbeatTimer, Known
<1>2. Set(ts["heartbeat"]) \in Timer /\ RunsIfKnown(Set(ts["heartbeat"])) /\ Set(ts["heartbeat"]).known
  BY SetIsKnown DEF Known
<1> QED BY <1>1, <1>2 DEF Known

LEMMA StopHeartbeatIs ==
    ASSUME NEW ts, Known(ts)
    PROVE  Known(StopHeartbeatTimer(ts))
<1> DEFINE off == [Unset(ts["heartbeat"]) EXCEPT !.callback = FALSE]
<1>1. StopHeartbeatTimer(ts) = [ts EXCEPT !["heartbeat"] = off]
  BY DEF StopHeartbeatTimer, Known
<1>2. off \in Timer /\ RunsIfKnown(off)
  BY UnsetIsOff DEF Known
<1> HIDE DEF off
<1> QED BY <1>1, <1>2 DEF Known

LEMMA StopAllIs ==
    ASSUME NEW ts, Known(ts)
    PROVE  Known(StopAllTimers(ts))
<1> DEFINE off(k) == [Unset(ts[k]) EXCEPT !.callback = FALSE]
<1>1. StopAllTimers(ts) = [k \in {"election", "heartbeat"} |-> off(k)]
  BY DEF StopAllTimers, Known
<1>2. \A k \in {"election", "heartbeat"} : off(k) \in Timer /\ RunsIfKnown(off(k))
  BY UnsetIsOff DEF Known
<1> HIDE DEF off
<1> QED BY <1>1, <1>2 DEF Known

-----------------------------------------------------------------------------
(* The queue and the section. *)

\* What waits in the queue stays there while others join it.
LEMMA QueueGrows ==
    ASSUME TypeInv, NEW m \in Waiting, queue' = Append(queue, m)
    PROVE  /\ queue' \in Seq(Waiting)
           /\ \A k \in DOMAIN queue : k \in DOMAIN queue' /\ queue'[k] = queue[k]
           /\ \E k \in DOMAIN queue' : queue'[k] = m
<1>1. queue \in Seq(Waiting)
  BY DEF TypeInv
<1>2. Len(queue') = Len(queue) + 1 /\ queue'[Len(queue) + 1] = m
  BY <1>1
<1>3. \A k \in 1 .. Len(queue) : queue'[k] = queue[k]
  BY <1>1
<1>4. DOMAIN queue = 1 .. Len(queue) /\ DOMAIN queue' = 1 .. Len(queue) + 1
  BY <1>1, <1>2
<1>5. queue' \in Seq(Waiting) /\ Len(queue) \in Nat
  BY <1>1
<1> QED BY <1>2, <1>3, <1>4, <1>5

\* The handler that enters is taken off the head of the queue.
LEMMA QueueMoves ==
    ASSUME TypeInv, queue # <<>>, queue' = Tail(queue)
    PROVE  /\ queue' \in Seq(Waiting) /\ Head(queue) \in Waiting
           /\ \A k \in DOMAIN queue : queue[k] # Head(queue) =>
                 \E j \in DOMAIN queue' : queue'[j] = queue[k]
<1>1. queue \in Seq(Waiting)
  BY DEF TypeInv
<1>2. queue' \in Seq(Waiting) /\ Head(queue) \in Waiting /\ Head(queue) = queue[1]
  BY <1>1
<1>3. Len(queue') = Len(queue) - 1 /\ \A j \in 1 .. Len(queue) - 1 : queue'[j] = queue[j + 1]
  BY <1>1
<1>4. ASSUME NEW k \in DOMAIN queue, queue[k] # Head(queue)
      PROVE  \E j \in DOMAIN queue' : queue'[j] = queue[k]
  <2>1. k \in 1 .. Len(queue) /\ k # 1 /\ Len(queue) \in Nat
    BY <1>1, <1>2, <1>4
  <2>2. k - 1 \in 1 .. Len(queue) - 1 /\ queue'[k - 1] = queue[k]
    BY <2>1, <1>3
  <2> QED BY <2>2, <1>3, <1>2
<1> QED BY <1>2, <1>4

\* The head of a sequence is its first member.
LEMMA HeadIsFirst ==
    ASSUME NEW S, NEW s \in Seq(S)
    PROVE  /\ s # <<>> => Len(s) \in Nat \ {0} /\ Head(s) = s[1]
           /\ s = <<>> => Len(s) = 0
           /\ Len(s) \in Nat
<1>1. s # <<>> => Len(s) >= 1 /\ Head(s) = s[1]
  OBVIOUS
<1> QED BY <1>1, EmptySeq

\* There are at most two writes.
LEMMA UpToTwo ==
    ASSUME NEW n \in Nat
    PROVE  /\ n <= 2 => n \in 0 .. 2 /\ (n # 0 => n = 1 \/ n = 2)
           /\ n <= 1 => n \in 0 .. 1
OBVIOUS

\* What is left of a section after its first write.
LEMMA SectionMoves ==
    ASSUME IsSection(section), section # Free
    PROVE  /\ Head(section) \in Writes
           /\ IsSection(Tail(section))
           /\ Head(section) = "follower" =>
                 Tail(section) = Free \/ Head(Tail(section)) \in {"log", "vote"}
           /\ Head(section) # "follower" => Tail(section) = Free
<1>0. section \in Seq(Writes) /\ Len(section) <= 2 /\ section # <<>>
  BY DEF IsSection, Free
<1>1. (Len(section) = 1 \/ Len(section) = 2) /\ Head(section) = section[1]
  <2>1. Len(section) \in Nat /\ Len(section) # 0 /\ Head(section) = section[1]
    BY <1>0, HeadIsFirst
  <2> QED BY <2>1, <1>0, UpToTwo
<1>2. Head(section) \in Writes /\ Tail(section) \in Seq(Writes)
      /\ Len(Tail(section)) = Len(section) - 1
      /\ (Len(section) = 2 => Tail(section)[1] = section[2])
  BY <1>0
<1>3. CASE Len(section) = 1
  <2>1. Len(Tail(section)) = 0
    BY <1>2, <1>3
  <2>2. Tail(section) = Free
    BY <2>1, <1>2, EmptySeq DEF Free
  <2> QED BY <1>2, <2>1, <2>2 DEF IsSection
<1>4. CASE Len(section) = 2
  <2> DEFINE tail == Tail(section)
  <2>1. tail \in Seq(Writes) /\ Len(tail) = 1 /\ tail[1] = section[2]
    BY <1>2, <1>4
  <2>2. section[1] = "follower" /\ section[2] \in {"log", "vote"}
    BY <1>4 DEF IsSection
  <2> HIDE DEF tail
  <2>3. tail # <<>> /\ Head(tail) = tail[1]
    BY <2>1, HeadIsFirst
  <2>4. IsSection(tail)
    BY <2>1 DEF IsSection
  <2> QED BY <1>1, <1>2, <2>1, <2>2, <2>3, <2>4 DEF tail
<1> QED BY <1>1, <1>3, <1>4

\* A section of one write.
LEMMA OneWrite ==
    ASSUME NEW w \in Writes
    PROVE  IsSection(<<w>>) /\ <<w>> # Free /\ Head(<<w>>) = w
<1>1. <<w>> \in Seq(Writes) /\ Len(<<w>>) = 1 /\ <<w>>[1] = w
  OBVIOUS
<1> QED BY <1>1 DEF IsSection, Free

\* No write at all.
LEMMA NoWrite == IsSection(Free)
<1>1. Free \in Seq(Writes) /\ Len(Free) = 0
  BY DEF Free
<1> QED BY <1>1 DEF IsSection

\* A section that writes a higher term first.
LEMMA TermFirst ==
    ASSUME NEW s, IsSection(s), s = Free \/ Head(s) \in {"log", "vote"}, Len(s) <= 1
    PROVE  /\ IsSection(<<"follower">> \o s) /\ <<"follower">> \o s # Free
           /\ Head(<<"follower">> \o s) = "follower"
<1> DEFINE f == <<"follower">>
<1>1. f \in Seq(Writes) /\ Len(f) = 1 /\ f[1] = "follower"
  BY DEF Writes
<1> HIDE DEF f
<1>0. s \in Seq(Writes)
  BY DEF IsSection
<1>2. s \in Seq(Writes) /\ Len(s) \in 0 .. 1 /\ (s = Free => Len(s) = 0)
      /\ (Len(s) = 1 => s # Free /\ Head(s) = s[1])
  <2>1. Len(s) \in Nat /\ (s = <<>> => Len(s) = 0) /\ (Len(s) = 1 => s # <<>> /\ Head(s) = s[1])
    BY <1>0, HeadIsFirst
  <2> QED BY <2>1, <1>0, UpToTwo DEF Free
<1>3. f \o s \in Seq(Writes) /\ Len(f \o s) = 1 + Len(s) /\ (f \o s)[1] = "follower"
      /\ (Len(s) = 1 => (f \o s)[2] = s[1])
  BY <1>1, <1>2, ConcatProperties
<1>4. IsSection(f \o s) /\ f \o s # Free /\ Head(f \o s) = "follower"
  BY <1>2, <1>3 DEF IsSection, Free
<1> QED BY <1>4 DEF f

-----------------------------------------------------------------------------
(* What a handler does until it gives up the processor.                     *)

\* becomeFollower once the term is written.
LEMMA FollowedIs ==
    ASSUME TypeInv, TimersKnown, Followed
    PROVE  Known(timer') /\ timer'["election"].known /\ role' = Follower /\ preVote' = FALSE
<1>1. Known(timer)
  BY DEF TypeInv, TimersKnown, Known
<1>2. Known(StopHeartbeatTimer(timer))
  BY <1>1, StopHeartbeatIs
<1>3. CASE role = Leader
  BY <1>2, <1>3, StartElectionIs DEF Followed
<1>4. CASE role # Leader
  BY <1>1, <1>4, StartElectionIs DEF Followed
<1> QED BY <1>3, <1>4

\* How a handler may leave the node when it gives up the processor: with a term
\* to write; as a follower or candidate whose election timer is set; with the
\* writes of a new candidate or a new leader; or with nothing changed, for a
\* message that is no start and a timeout that asks for nothing.
TermToWrite == At("follower")' /\ role' = role /\ timer' = timer
ElectionTimerSet == role' # Leader /\ timer'["election"].known /\ ~At("leader")'
NewCandidate == At("candidate")' /\ role' = Candidate /\ timer' = timer
NewLeader == At("leader")' /\ role' = Leader /\ timer' = timer
NothingChanged(m) ==
    /\ section' = Free \/ At("vote")'
    /\ role' = role /\ timer' = timer
    /\ m # "start" /\ (m = "timeout" => ~voter \/ role = Leader)

Outcome(m) ==
    /\ IsSection(section') /\ Known(timer')
    /\ role' \in {Follower, Candidate, Leader} /\ preVote' \in BOOLEAN
    /\ \/ TermToWrite \/ ElectionTimerSet \/ NewCandidate \/ NewLeader
       \/ NothingChanged(m)

\* becomeFollowerUnlocked.
LEMMA BecomeFollowerOutcome ==
    ASSUME TypeInv, TimersKnown, NEW m, NEW then, BecomeFollower(then),
           then = Free \/ then = <<"log">> \/ then = <<"vote">>
    PROVE  Outcome(m)
<1>1. IsSection(then) /\ Len(then) <= 1 /\ (then = Free \/ Head(then) \in {"log", "vote"})
  <2>1. "log" \in Writes /\ "vote" \in Writes
    BY DEF Writes
  <2>2. CASE then = Free
    BY <2>2, NoWrite DEF Free
  <2>3. CASE then = <<"log">>
    BY <2>1, <2>3, OneWrite
  <2>4. CASE then = <<"vote">>
    BY <2>1, <2>4, OneWrite
  <2> QED BY <2>2, <2>3, <2>4
<1>2. CASE section' = <<"follower">> \o then /\ UNCHANGED <<role, preVote, timer>>
  <2>1. IsSection(section') /\ section' # Free /\ Head(section') = "follower"
    BY <1>1, <1>2, TermFirst
  <2> QED BY <2>1, <1>2 DEF Outcome, TermToWrite, At, TypeInv, TimersKnown, Known
<1>3. CASE section' = then /\ Followed
  <2>1. Known(timer') /\ timer'["election"].known /\ role' = Follower /\ preVote' = FALSE
    BY <1>3, FollowedIs
  <2>2. ~At("leader")' /\ role' # Leader
    BY <1>1, <1>3, <2>1 DEF At, Follower, Leader
  <2> QED BY <1>1, <1>3, <2>1, <2>2 DEF Outcome, ElectionTimerSet
<1> QED BY <1>2, <1>3 DEF BecomeFollower

\* handleElectionTimeout.
LEMMA TimeoutOutcome ==
    ASSUME TypeInv, TimersKnown, HandleElectionTimeout
    PROVE  Outcome("timeout")
<1>0. Known(timer)
  BY DEF TypeInv, TimersKnown, Known
<1>1. CASE ~voter \/ role = Leader
  BY <1>0, <1>1, NoWrite DEF HandleElectionTimeout, Outcome, NothingChanged, TypeInv
<1>2. CASE voter /\ role # Leader /\ (preVote \/ role # Candidate)
  <2>1. section' = Free /\ preVote' = TRUE /\ role' = role /\ timer' = StartElectionTimer(timer)
    BY <1>2 DEF HandleElectionTimeout, StartPreVote, PreVoteTimer
  <2>2. Known(timer') /\ timer'["election"].known
    BY <1>0, <2>1, StartElectionIs
  <2> QED BY <1>2, <2>1, <2>2, NoWrite DEF Outcome, ElectionTimerSet, At, TypeInv
<1>3. CASE voter /\ role # Leader /\ ~preVote /\ role = Candidate
  <2>1. section' = <<"candidate">> /\ role' = Candidate /\ timer' = timer /\ preVote' = preVote
    BY <1>3 DEF HandleElectionTimeout, BecomeCandidate
  <2> QED BY <1>0, <2>1, OneWrite DEF Outcome, NewCandidate, At, Writes, TypeInv
<1> QED BY <1>1, <1>2, <1>3 DEF TypeInv

\* Answers that complete a quorum.
LEMMA QuorumOutcome ==
    ASSUME TypeInv, TimersKnown, HandlePreVoteQuorum \/ HandleVoteQuorum, NEW m, m \notin {"start", "timeout"}
    PROVE  Outcome(m)
<1>0. Known(timer)
  BY DEF TypeInv, TimersKnown, Known
<1>1. CASE HandlePreVoteQuorum
  <2>1. CASE ~preVote \/ role # Follower
    BY <1>0, <1>1, <2>1, NoWrite DEF HandlePreVoteQuorum, Outcome, NothingChanged, TypeInv
  <2>2. CASE preVote /\ role = Follower /\ voter
    <3>1. section' = <<"candidate">> /\ role' = Candidate /\ timer' = timer /\ preVote' = FALSE
      BY <1>1, <2>2 DEF HandlePreVoteQuorum, BecomeCandidate
    <3> QED BY <1>0, <3>1, OneWrite DEF Outcome, NewCandidate, At, Writes, TypeInv
  <2>3. CASE preVote /\ role = Follower /\ ~voter
    <3>1. section' = Free /\ Followed
      BY <1>1, <2>3 DEF HandlePreVoteQuorum
    <3> QED BY <3>1, FollowedIs, NoWrite DEF Outcome, ElectionTimerSet, At, Follower, Leader
  <2> QED BY <2>1, <2>2, <2>3 DEF TypeInv
<1>2. CASE HandleVoteQuorum
  <2>1. CASE role # Candidate
    BY <1>0, <1>2, <2>1, NoWrite DEF HandleVoteQuorum, Outcome, NothingChanged, TypeInv
  <2>2. CASE role = Candidate /\ ~voter
    <3>1. section' = Free /\ Followed
      BY <1>2, <2>2 DEF HandleVoteQuorum
    <3> QED BY <3>1, FollowedIs, NoWrite DEF Outcome, ElectionTimerSet, At, Follower, Leader
  <2>3. CASE role = Candidate /\ voter
    <3>1. section' = <<"leader">> /\ role' = Leader /\ timer' = timer /\ preVote' = preVote
      BY <1>2, <2>3 DEF HandleVoteQuorum
    <3> QED BY <1>0, <3>1, OneWrite DEF Outcome, NewLeader, At, Writes, TypeInv
  <2> QED BY <2>1, <2>2, <2>3
<1> QED BY <1>1, <1>2

\* Every handler ends in one of these ways.
LEMMA HandleOutcome ==
    ASSUME TypeInv, TimersKnown, NEW m \in Waiting, Handle(m)
    PROVE  Outcome(m)
<1>0. Known(timer)
  BY DEF TypeInv, TimersKnown, Known
<1>1. CASE m = "timeout" /\ HandleElectionTimeout
  BY <1>1, TimeoutOutcome
<1>2. CASE m = "heartbeat" /\ section' = Free /\ UNCHANGED <<role, preVote, timer>>
  BY <1>0, <1>2, NoWrite DEF Outcome, NothingChanged, TypeInv
<1>3. CASE m \in {"append", "snapshot"} /\ BecomeFollower(<<"log">>)
  BY <1>3, BecomeFollowerOutcome
<1>4. CASE /\ m = "snapshot" /\ role = Follower
           /\ timer' = StartElectionTimer(timer) /\ section' = <<"log">>
           /\ UNCHANGED <<role, preVote>>
  <2>1. Known(timer') /\ timer'["election"].known
    BY <1>0, <1>4, StartElectionIs
  <2>2. IsSection(section') /\ section' # Free /\ Head(section') = "log"
    BY <1>4, OneWrite DEF Writes
  <2> QED BY <1>4, <2>1, <2>2 DEF Outcome, ElectionTimerSet, At, TypeInv, Follower, Leader
<1>5. CASE m \in {"higherTerm", "start"} /\ BecomeFollower(Free)
  BY <1>5, BecomeFollowerOutcome
<1>6. CASE m = "voteRequest" /\ section' = <<"vote">> /\ UNCHANGED <<role, preVote, timer>>
  <2>1. IsSection(section') /\ section' # Free /\ Head(section') = "vote"
    BY <1>6, OneWrite DEF Writes
  <2> QED BY <1>0, <1>6, <2>1 DEF Outcome, NothingChanged, At, TypeInv
<1>7. CASE m = "voteRequest" /\ BecomeFollower(<<"vote">>)
  BY <1>7, BecomeFollowerOutcome
<1>8. CASE m \in {"preVoteQuorum", "voteQuorum"} /\ (HandlePreVoteQuorum \/ HandleVoteQuorum)
  BY <1>8, QuorumOutcome
<1> QED BY <1>1, <1>2, <1>3, <1>4, <1>5, <1>6, <1>7, <1>8 DEF Handle

-----------------------------------------------------------------------------
(* Each step keeps the invariant. *)

\* What waits in the queue makes up for a timer that has fired.
LEMMA WaitingStays ==
    ASSUME TypeInv, NEW m \in Waiting, queue' = Append(queue, m)
    PROVE  /\ queue' \in Seq(Waiting)
           /\ (\E k \in DOMAIN queue : queue[k] \in {"timeout", "start"})
                 => \E k \in DOMAIN queue' : queue'[k] \in {"timeout", "start"}
           /\ (\E k \in DOMAIN queue : queue[k] = "start")
                 => \E k \in DOMAIN queue' : queue'[k] = "start"
           /\ \E k \in DOMAIN queue' : queue'[k] = m
BY QueueGrows

\* A timer fires.
LEMMA FireStep ==
    ASSUME ListenInv, FireElection \/ FireHeartbeat
    PROVE  ListenInv'
<1>0. TypeInv /\ TimersKnown /\ LeaderInv /\ FollowerInv
  BY DEF ListenInv
<1>1. CASE FireElection
  <2>1. timer["election"].known /\ timer["election"].armed = 1 /\ timer["election"].callback
        /\ timer["election"] \in Timer
    BY <1>0, <1>1 DEF FireElection, TypeInv, TimersKnown, RunsIfKnown, Timer
  <2>2. queue' = Append(queue, "timeout")
    BY <1>1, <2>1 DEF FireElection
  <2>3. /\ timer'["heartbeat"] = timer["heartbeat"]
        /\ timer'["election"] \in Timer /\ RunsIfKnown(timer'["election"])
        /\ timer' \in [{"election", "heartbeat"} -> Timer]
    <3> DEFINE fired == Fired(timer["election"])
    <3>1. timer' = [timer EXCEPT !["election"] = fired]
      BY <1>0, <1>1 DEF FireElection, TypeInv
    <3>2. fired \in Timer /\ RunsIfKnown(fired)
      BY <2>1, FiredIsOff
    <3> HIDE DEF fired
    <3> QED BY <1>0, <3>1, <3>2 DEF TypeInv
  <2>4. UNCHANGED <<status, role, preVote, voter, section, failed>>
    BY <1>1 DEF FireElection
  <2>5. queue' \in Seq(Waiting) /\ \E k \in DOMAIN queue' : queue'[k] \in {"timeout", "start"}
    BY <1>0, <2>2, WaitingStays DEF Waiting
  <2>6. TypeInv' /\ TimersKnown'
    BY <1>0, <2>3, <2>4, <2>5 DEF TypeInv, TimersKnown
  <2>7. LeaderInv'
    BY <1>0, <2>2, <2>3, <2>4, WaitingStays DEF LeaderInv, At, Waiting
  <2>8. FollowerInv'
    BY <2>5 DEF FollowerInv, WillTimeOut
  <2> QED BY <2>6, <2>7, <2>8 DEF ListenInv
<1>2. CASE FireHeartbeat
  <2>1. timer["heartbeat"].known /\ timer["heartbeat"].armed = 1 /\ timer["heartbeat"].callback
        /\ timer["heartbeat"] \in Timer
    BY <1>0, <1>2 DEF FireHeartbeat, TypeInv, TimersKnown, RunsIfKnown, Timer
  <2>2. queue' = Append(queue, "heartbeat") /\ timer' = [timer EXCEPT !.heartbeat.known = TRUE]
    BY <1>2, <2>1 DEF FireHeartbeat
  <2>3. timer' = timer
    BY <1>0, <2>1, <2>2 DEF TypeInv, Timer
  <2>4. UNCHANGED <<status, role, preVote, voter, section, failed>>
    BY <1>2 DEF FireHeartbeat
  <2>5. TypeInv' /\ TimersKnown'
    BY <1>0, <2>2, <2>3, <2>4, WaitingStays DEF TypeInv, TimersKnown, Waiting
  <2>6. LeaderInv'
    BY <1>0, <2>2, <2>3, <2>4, WaitingStays DEF LeaderInv, At, Waiting
  <2>7. FollowerInv'
    BY <1>0, <2>2, <2>3, <2>4, WaitingStays DEF FollowerInv, WillTimeOut, At, Waiting
  <2> QED BY <2>5, <2>6, <2>7 DEF ListenInv
<1> QED BY <1>1, <1>2

\* A message arrives, or the node starts again: either joins the queue.
LEMMA JoinStep ==
    ASSUME ListenInv, Arrive \/ StartNode
    PROVE  ListenInv'
<1>0. TypeInv /\ TimersKnown /\ LeaderInv /\ FollowerInv
  BY DEF ListenInv
<1>1. PICK m \in Waiting : queue' = Append(queue, m) /\ (StartNode => m = "start")
  BY DEF Arrive, StartNode, Messages, Waiting
<1>2. UNCHANGED <<role, preVote, voter, timer, section, failed>>
  BY DEF Arrive, StartNode
<1>3. status' \in {"started", "stopping", "stopped"} /\ (Arrive => status' = status)
  BY <1>0 DEF Arrive, StartNode, TypeInv
<1>4. TypeInv' /\ TimersKnown'
  BY <1>0, <1>1, <1>2, <1>3, WaitingStays DEF TypeInv, TimersKnown
<1>5. CASE Arrive
  <2>1. LeaderInv'
    BY <1>0, <1>1, <1>2, <1>3, <1>5, WaitingStays DEF LeaderInv, At
  <2>2. FollowerInv'
    BY <1>0, <1>1, <1>2, <1>3, <1>5, WaitingStays DEF FollowerInv, WillTimeOut, At
  <2> QED BY <1>4, <2>1, <2>2 DEF ListenInv
<1>6. CASE StartNode
  <2>1. \E k \in DOMAIN queue' : queue'[k] = "start"
    BY <1>0, <1>1, <1>6, WaitingStays
  <2>2. LeaderInv'
    BY <1>0, <1>2, <2>1 DEF LeaderInv, At
  <2>3. FollowerInv'
    BY <2>1 DEF FollowerInv, WillTimeOut
  <2> QED BY <1>4, <2>2, <2>3 DEF ListenInv
<1> QED BY <1>5, <1>6

\* A handler has the lock, and leaves the node in one of the ways above.
LEMMA EnterStep ==
    ASSUME ListenInv, Enter
    PROVE  ListenInv'
<1>0. TypeInv /\ TimersKnown /\ LeaderInv /\ FollowerInv
  BY DEF ListenInv
<1>1. /\ section = Free /\ queue # <<>> /\ Handle(Head(queue)) /\ queue' = Tail(queue)
      /\ failed' = (failed /\ ~timer'["election"].known)
      /\ status' = status /\ voter' = voter
  BY DEF Enter
<1>2. /\ queue' \in Seq(Waiting) /\ Head(queue) \in Waiting
      /\ \A k \in DOMAIN queue : queue[k] # Head(queue) =>
                 \E j \in DOMAIN queue' : queue'[j] = queue[k]
  BY <1>0, <1>1, QueueMoves
<1>3. Outcome(Head(queue))
  BY <1>0, <1>1, <1>2, HandleOutcome
<1>4. failed' \in BOOLEAN
  BY <1>1
<1>5. TypeInv' /\ TimersKnown'
  BY <1>0, <1>1, <1>2, <1>3, <1>4 DEF TypeInv, TimersKnown, Outcome, Known
<1>6. role = Leader => timer["heartbeat"].known
  BY <1>0, <1>1 DEF LeaderInv, At
<1>7. CASE TermToWrite
  <2>1. LeaderInv'
    BY <1>6, <1>7 DEF TermToWrite, LeaderInv, At
  <2>2. FollowerInv'
    BY <1>7 DEF TermToWrite, FollowerInv, At
  <2> QED BY <1>5, <2>1, <2>2 DEF ListenInv
<1>8. CASE ElectionTimerSet
  <2>1. LeaderInv'
    BY <1>8 DEF ElectionTimerSet, LeaderInv, At
  <2>2. FollowerInv'
    BY <1>8 DEF ElectionTimerSet, FollowerInv, WillTimeOut
  <2> QED BY <1>5, <2>1, <2>2 DEF ListenInv
<1>9. CASE NewCandidate \/ NewLeader
  <2>1. LeaderInv'
    BY <1>9 DEF NewCandidate, NewLeader, LeaderInv, At, Candidate, Leader
  <2>2. FollowerInv'
    BY <1>9 DEF NewCandidate, NewLeader, FollowerInv, At
  <2> QED BY <1>5, <2>1, <2>2 DEF ListenInv
<1>10. CASE NothingChanged(Head(queue))
  <2>1. LeaderInv'
    BY <1>6, <1>10 DEF NothingChanged, LeaderInv, At
  <2>2. ASSUME status' = "started", role' # Leader, voter', ~failed' PROVE WillTimeOut'
    <3>1. role # Leader /\ voter /\ timer' = timer /\ Head(queue) \notin {"start", "timeout"}
      BY <1>1, <1>10, <2>2 DEF NothingChanged
    <3>2. CASE failed
      BY <1>1, <2>2, <3>2 DEF WillTimeOut
    <3>3. CASE ~failed
      <4>1. WillTimeOut
        BY <1>0, <1>1, <2>2, <3>1, <3>3 DEF FollowerInv
      <4> QED BY <1>2, <3>1, <4>1 DEF WillTimeOut
    <3> QED BY <3>2, <3>3
  <2>3. FollowerInv'
    BY <1>10, <2>2 DEF NothingChanged, FollowerInv, At
  <2> QED BY <1>5, <2>1, <2>3 DEF ListenInv
<1> QED BY <1>3, <1>7, <1>8, <1>9, <1>10 DEF Outcome

\* The handler goes on with what it has written.
LEMMA ResumeStep ==
    ASSUME ListenInv, Resume
    PROVE  ListenInv'
<1>0. TypeInv /\ TimersKnown /\ LeaderInv /\ FollowerInv /\ Known(timer)
  BY DEF ListenInv, TypeInv, TimersKnown, Known
<1>1. /\ section # Free /\ Written /\ section' = Tail(section)
      /\ failed' = (failed /\ ~timer'["election"].known)
      /\ status' = status /\ queue' = queue
  BY DEF Resume
<1>2. /\ Head(section) \in Writes /\ IsSection(section')
      /\ Head(section) = "follower" => section' = Free \/ Head(section') \in {"log", "vote"}
      /\ Head(section) # "follower" => section' = Free
  BY <1>0, <1>1, SectionMoves DEF TypeInv
<1>3. CASE Head(section) = "follower" /\ Followed /\ UNCHANGED voter
  <2>1. Known(timer') /\ timer'["election"].known /\ role' = Follower /\ preVote' = FALSE
    BY <1>0, <1>3, FollowedIs
  <2>2. TypeInv' /\ TimersKnown'
    BY <1>0, <1>1, <1>2, <1>3, <2>1 DEF TypeInv, TimersKnown, Known
  <2>3. LeaderInv' /\ FollowerInv'
    BY <1>2, <1>3, <2>1 DEF LeaderInv, FollowerInv, WillTimeOut, At, Follower, Leader
  <2> QED BY <2>2, <2>3 DEF ListenInv
<1>4. CASE Head(section) = "log" /\ voter' \in BOOLEAN /\ UNCHANGED <<role, preVote, timer>>
  <2>1. TypeInv' /\ TimersKnown'
    BY <1>0, <1>1, <1>2, <1>4 DEF TypeInv, TimersKnown
  <2>2. LeaderInv'
    BY <1>0, <1>1, <1>2, <1>4 DEF LeaderInv, At
  <2>3. status = "started" => WillTimeOut'
    BY <1>0, <1>1, <1>4 DEF FollowerInv, WillTimeOut, At
  <2> QED BY <1>1, <2>1, <2>2, <2>3 DEF FollowerInv, ListenInv
<1>5. CASE Head(section) = "vote" /\ timer' = ResetElectionTimer(timer) /\ UNCHANGED <<role, preVote, voter>>
  <2>1. /\ Known(timer') /\ timer'["heartbeat"] = timer["heartbeat"]
        /\ timer["election"].known => timer'["election"].known
    BY <1>0, <1>5, ResetElectionIs
  <2>2. TypeInv' /\ TimersKnown'
    BY <1>0, <1>1, <1>2, <1>5, <2>1 DEF TypeInv, TimersKnown, Known
  <2>3. LeaderInv'
    BY <1>0, <1>1, <1>2, <1>5, <2>1 DEF LeaderInv, At
  <2>4. FollowerInv'
    <3>1. ASSUME status' = "started", role' # Leader, voter', ~failed' PROVE WillTimeOut'
      BY <1>0, <1>1, <1>5, <2>1, <3>1 DEF FollowerInv, WillTimeOut, At
    <3> QED BY <1>2, <1>5, <3>1 DEF FollowerInv, At
  <2> QED BY <2>2, <2>3, <2>4 DEF ListenInv
<1>6. CASE Head(section) = "candidate" /\ timer' = StartElectionTimer(timer) /\ UNCHANGED <<role, preVote, voter>>
  <2>1. Known(timer') /\ timer'["heartbeat"] = timer["heartbeat"] /\ timer'["election"].known
    BY <1>0, <1>6, StartElectionIs
  <2>2. TypeInv' /\ TimersKnown'
    BY <1>0, <1>1, <1>2, <1>6, <2>1 DEF TypeInv, TimersKnown, Known
  <2>3. LeaderInv' /\ FollowerInv'
    BY <1>0, <1>1, <1>2, <1>6, <2>1 DEF LeaderInv, FollowerInv, WillTimeOut, At
  <2> QED BY <2>2, <2>3 DEF ListenInv
<1>7. CASE Head(section) = "leader" /\ timer' = StartHeartbeatTimer(timer) /\ UNCHANGED <<role, preVote, voter>>
  <2>1. Known(timer') /\ timer'["heartbeat"].known /\ timer'["election"] = timer["election"]
    BY <1>0, <1>7, StartHeartbeatIs
  <2>2. TypeInv' /\ TimersKnown'
    BY <1>0, <1>1, <1>2, <1>7, <2>1 DEF TypeInv, TimersKnown, Known
  <2>3. LeaderInv'
    BY <1>2, <1>7, <2>1 DEF LeaderInv, At
  <2>4. FollowerInv'
    BY <1>0, <1>1, <1>2, <1>7 DEF LeaderInv, FollowerInv, WillTimeOut, At
  <2> QED BY <2>2, <2>3, <2>4 DEF ListenInv
<1> QED BY <1>1, <1>3, <1>4, <1>5, <1>6, <1>7 DEF Written

\* A write fails, or the node stops: nothing is asked of it then.
LEMMA StopStep ==
    ASSUME ListenInv, WriteFails \/ StopNode \/ Stopped
    PROVE  ListenInv'
<1>0. TypeInv /\ TimersKnown /\ LeaderInv /\ FollowerInv /\ Known(timer)
  BY DEF ListenInv, TypeInv, TimersKnown, Known
<1>1. CASE WriteFails
  <2>1. /\ Head(section) # "leader" /\ section' = Free /\ failed' = TRUE
        /\ UNCHANGED <<status, role, preVote, voter, timer, queue>>
    BY <1>1 DEF WriteFails
  <2>2. TypeInv' /\ TimersKnown'
    BY <1>0, <2>1, NoWrite DEF TypeInv, TimersKnown
  <2>3. LeaderInv' /\ FollowerInv'
    BY <1>0, <2>1 DEF LeaderInv, FollowerInv, At
  <2> QED BY <2>2, <2>3 DEF ListenInv
<1>2. CASE StopNode
  <2>1. status' = "stopping" /\ role' = Follower /\ UNCHANGED <<preVote, voter, queue, section, failed>>
    BY <1>2 DEF StopNode
  <2>2. Known(timer')
    BY <1>0, <1>2, StopAllIs DEF StopNode
  <2>3. TypeInv' /\ TimersKnown'
    BY <1>0, <2>1, <2>2 DEF TypeInv, TimersKnown, Known
  <2>4. LeaderInv' /\ FollowerInv'
    BY <2>1 DEF LeaderInv, FollowerInv, Follower, Leader
  <2> QED BY <2>3, <2>4 DEF ListenInv
<1>3. CASE Stopped
  <2>1. status' = "stopped" /\ UNCHANGED <<role, preVote, voter, timer, queue, section, failed>>
    BY <1>3 DEF Stopped
  <2>2. TypeInv' /\ TimersKnown'
    BY <1>0, <2>1 DEF TypeInv, TimersKnown
  <2>3. LeaderInv' /\ FollowerInv'
    BY <1>0, <2>1 DEF LeaderInv, FollowerInv, At
  <2> QED BY <2>2, <2>3 DEF ListenInv
<1> QED BY <1>1, <1>2, <1>3

LEMMA InitListens == TimersInit => ListenInv
<1> SUFFICES ASSUME TimersInit PROVE ListenInv
  OBVIOUS
<1>1. queue \in Seq(Waiting)
  <2>1. "start" \in Waiting
    BY DEF Waiting
  <2> QED BY <2>1 DEF TimersInit
<1>2. timer \in [{"election", "heartbeat"} -> Timer] /\ TimersKnown
  BY DEF TimersInit, Timer, TimersKnown, RunsIfKnown
<1>3. TypeInv
  BY <1>1, <1>2, NoWrite DEF TimersInit, TypeInv
<1>4. queue[1] = "start" /\ 1 \in DOMAIN queue
  BY DEF TimersInit
<1>5. LeaderInv /\ FollowerInv
  BY <1>4 DEF TimersInit, LeaderInv, FollowerInv, WillTimeOut, At, Follower, Leader
<1> QED BY <1>2, <1>3, <1>5 DEF ListenInv

LEMMA NextListens == ListenInv /\ [TimersNext]_timerVars => ListenInv'
<1> SUFFICES ASSUME ListenInv, [TimersNext]_timerVars PROVE ListenInv'
  OBVIOUS
<1>1. CASE TimersNext
  BY <1>1, FireStep, JoinStep, EnterStep, ResumeStep, StopStep DEF TimersNext
<1>2. CASE UNCHANGED timerVars
  <2>1. TypeInv' /\ TimersKnown'
    BY <1>2 DEF ListenInv, TypeInv, TimersKnown, timerVars
  <2>2. LeaderInv' /\ FollowerInv'
    BY <1>2 DEF ListenInv, LeaderInv, FollowerInv, WillTimeOut, At, timerVars
  <2> QED BY <2>1, <2>2 DEF ListenInv
<1> QED BY <1>1, <1>2

\* The invariant of the timers and of what handlers count on.
THEOREM TimersInvariant == TimersSpec => []ListenInv
<1> QED BY InitListens, NextListens, PTL DEF TimersSpec

\* A timer never runs on without TimerManager knowing it, in every interleaving
\* of timeouts, messages, failed writes, stops and restarts: at most one chain
\* of heartbeats and one election timeout (TimerManager).
THEOREM TimersAreOnce == TimersSpec => []OneTimerEach
<1>1. ListenInv => OneTimerEach
  BY DEF ListenInv, TypeInv, TimersKnown, RunsIfKnown, OneTimerEach
<1> QED BY <1>1, TimersInvariant, PTL

\* Whenever no handler runs in a voter, its election timer is set, or a timeout
\* or its start waits for the lock, or it leads and sends heartbeats; only a
\* failed write can leave it without (handleElectionTimeout, becomeFollower).
THEOREM VotersListen == TimersSpec => []Listens
<1>1. ListenInv => Listens
  <2> SUFFICES ASSUME ListenInv, status = "started", voter, section = Free, ~failed,
                      ~ \E k \in DOMAIN queue : queue[k] \in {"timeout", "start"}
               PROVE  timer[IF role = Leader THEN "heartbeat" ELSE "election"].known
    BY DEF Listens
  <2>1. CASE role = Leader
    BY <2>1 DEF ListenInv, LeaderInv, At
  <2>2. CASE role # Leader
    BY <2>2 DEF ListenInv, FollowerInv, WillTimeOut
  <2> QED BY <2>1, <2>2
<1> QED BY <1>1, TimersInvariant, PTL
=============================================================================
