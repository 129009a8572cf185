------------------------------ MODULE Transport ------------------------------
(***************************************************************************)
(* Who can call whom in a raft-core cluster over gRPC: GrpcTransport's     *)
(* server and its clients, one for each peer, the calls in flight          *)
(* (RPCHandler), and the places where RaftNode and StateMachine start and  *)
(* stop the transport and tell it of a new peer.  The configurations of    *)
(* the cluster are a sequence that the leader extends and the others       *)
(* follow; how they are agreed on is Membership, and that a learner does   *)
(* not vote is left to it.                                                 *)
(***************************************************************************)
EXTENDS Integers, FiniteSets, Sequences

CONSTANTS
    Node, Nil,
    Peers,          \* what each node is created with, besides itself
    MaxConfigs, MaxCalls, MaxStops,     \* bounds of the model
    Slow,           \* a handler may take longer than shutdownTimeoutMs
    TakesOver,      \* a node may lead that has met a member since it started
    Batched         \* a leader may commit a configuration and more in one go

ASSUME TransportAssumption == Peers \subseteq Node /\ Nil \notin Node

VARIABLES
    server,         \* of each node: "down", "binding", "up", "stopping", "stopped"
    storage,        \* the nodes whose storage is open
    clients,        \* of each node, the peers it has a client for
    calling,        \* the peers whose answer it waits for
    handling,       \* the peers whose request its handler works on
    abandoned,      \* and those that have given up a request it still works on
    configs,        \* the members, one change after another
    known,          \* how many changes each node has in its log
    active,         \* the configuration each node goes by (ConfigManager)
    committed,      \* how many each node has committed (ConfigManager)
    leader,
    tracked,        \* the peers of its LeaderState
    removals,       \* of each node: the [member, index] its removeServer waits for
    stops,
    met             \* the nodes that have learnt of a member since they started

calls == <<calling, handling, abandoned>>
cluster == <<configs, known, active, committed, leader, tracked>>
vars == <<server, storage, clients, calls, cluster, removals, stops, met>>

AllPeers(n) == active[n] \ {n}

Config(i) == IF i = 0 THEN Peers ELSE configs[i]

Init ==
    /\ server = [n \in Node |-> "down"]
    /\ storage = {}
    /\ clients = [n \in Node |-> {}]
    /\ calling = [n \in Node |-> {}]
    /\ handling = [n \in Node |-> {}]
    /\ abandoned = [n \in Node |-> {}]
    /\ configs = <<>>
    /\ known = [n \in Node |-> 0]
    /\ active = [n \in Node |-> Peers]
    /\ committed = [n \in Node |-> 0]
    /\ leader = Nil
    /\ tracked = {}
    /\ removals = [n \in Node |-> {}]
    /\ stops = 0
    /\ met = {}

-----------------------------------------------------------------------------
(* RaftNode.start and stop. *)

Start(n) ==
    /\ server[n] = "down"
    /\ server' = [server EXCEPT ![n] = "binding"]
    /\ storage' = storage \cup {n}
    /\ active' = [active EXCEPT ![n] = Config(known[n])]
    /\ UNCHANGED <<clients, calls, configs, known, committed, leader, tracked, removals, met, stops>>

\* Mutant of ClientsOnStart: the members of the configuration are not added.
ClientsOnStartOfPeers(n) == Peers \ {n}

\* GrpcTransport makes a client of each peer it was given, RaftNode adds the
\* members of the configuration it has restored.
ClientsOnStart(n) == (Peers \ {n}) \cup AllPeers(n)

\* The server is bound; the handler is registered before a request can come.
Bound(n) ==
    /\ server[n] = "binding"
    /\ server' = [server EXCEPT ![n] = "up"]
    /\ clients' = [clients EXCEPT ![n] = ClientsOnStart(n)]
    /\ met' = met \ {n}
    /\ UNCHANGED <<storage, calls, cluster, removals, stops>>

\* The calls of n to some peers end with an error: n is not answered any more,
\* and a handler at work on one of them runs on.  Of what one peer leaves behind,
\* two handlers count as one.
GivenUp(n, peers) ==
    /\ calling' = [calling EXCEPT ![n] = @ \ peers]
    /\ handling' = [m \in Node |-> IF m \in peers THEN handling[m] \ {n} ELSE handling[m]]
    /\ abandoned' = [m \in Node |-> IF m \in peers THEN abandoned[m] \cup (handling[m] \cap {n})
                                                  ELSE abandoned[m]]

\* The state machine stops, the clients are closed, no request is taken any
\* more; what the calls would have answered is an error.
Stop(n) ==
    /\ server[n] = "up" /\ stops < MaxStops
    /\ stops' = stops + 1
    /\ server' = [server EXCEPT ![n] = "stopping"]
    /\ clients' = [clients EXCEPT ![n] = {}]
    /\ GivenUp(n, Node)
    /\ leader' = IF leader = n THEN Nil ELSE leader
    /\ UNCHANGED <<storage, configs, known, active, committed, tracked, removals, met>>

\* Mutant of MayShutDown: the open calls are not waited for.
MayShutDownAtOnce(n) == TRUE

\* tryShutdown lets the open calls be answered, and does not know of handlers
\* whose caller is gone; forceShutdown waits for nothing.
MayShutDown(n) == handling[n] = {} \/ Slow

ShutDown(n) ==
    /\ server[n] = "stopping"
    /\ MayShutDown(n)
    /\ server' = [server EXCEPT ![n] = "stopped"]
    /\ UNCHANGED <<storage, clients, calls, cluster, removals, met, stops>>

CloseStorage(n) ==
    /\ server[n] = "stopped"
    /\ server' = [server EXCEPT ![n] = "down"]
    /\ storage' = storage \ {n}
    /\ removals' = [removals EXCEPT ![n] = {}]
    /\ UNCHANGED <<clients, calls, cluster, met, stops>>

-----------------------------------------------------------------------------
(* Calls. *)

Calls == {c \in Node \X Node : c[2] \in calling[c[1]] \/ c[1] \in handling[c[2]] \cup abandoned[c[2]]}

\* A peer without a client is an error at once.
Send(n, m) ==
    /\ server[n] = "up" /\ m \in AllPeers(n) /\ m \in clients[n] /\ m \notin calling[n]
    /\ Cardinality(Calls) < MaxCalls
    /\ calling' = [calling EXCEPT ![n] = @ \cup {m}]
    /\ UNCHANGED <<server, storage, clients, handling, abandoned, cluster, removals, met, stops>>

Receive(n, m) ==
    /\ m \in calling[n] /\ server[m] = "up" /\ n \notin handling[m]
    /\ handling' = [handling EXCEPT ![m] = @ \cup {n}]
    /\ UNCHANGED <<server, storage, clients, calling, abandoned, cluster, removals, met, stops>>

\* The handler ends, and its caller has the answer.
Answer(n, m) ==
    /\ n \in handling[m]
    /\ handling' = [handling EXCEPT ![m] = @ \ {n}]
    /\ calling' = [calling EXCEPT ![n] = @ \ {m}]
    /\ UNCHANGED <<server, storage, clients, abandoned, cluster, removals, met, stops>>

\* The handler ends, and nobody waits for its answer.
AnswerNobody(n, m) ==
    /\ n \in abandoned[m]
    /\ abandoned' = [abandoned EXCEPT ![m] = @ \ {n}]
    /\ UNCHANGED <<server, storage, clients, calling, handling, cluster, removals, met, stops>>

\* The timeout of RPCHandler, the deadline of gRPC or a failed connection.
Fail(n, m) ==
    /\ m \in calling[n]
    /\ GivenUp(n, {m})
    /\ UNCHANGED <<server, storage, clients, cluster, removals, met, stops>>

-----------------------------------------------------------------------------
(* Members. *)

Pending(n) == active[n] # Config(committed[n])

\* becomeLeaderUnlocked: entries that only others have are overwritten, and
\* their active configurations stay.  An election takes longer than the 100 ms
\* after which a node that has lost its leadership gives up its waiters.
BecomeLeader(n) ==
    /\ server[n] = "up" /\ leader # n /\ n \in active[n]
    /\ \A m \in Node : known[n] >= committed[m]
    /\ removals[n] = {}
    /\ TakesOver \/ n \notin met
    /\ leader' = n
    /\ tracked' = AllPeers(n)
    /\ configs' = SubSeq(configs, 1, known[n])
    /\ known' = [m \in Node |-> IF known[m] > known[n] THEN known[n] ELSE known[m]]
    /\ UNCHANGED <<server, storage, clients, calls, active, committed, removals, met, stops>>

Leads(n) == leader = n /\ server[n] = "up"

\* submitConfigChange up to its wait.
SubmitConfigChange(n, config) ==
    /\ Len(configs) < MaxConfigs
    /\ configs' = Append(configs, config)
    /\ known' = [known EXCEPT ![n] = Len(configs) + 1]
    /\ active' = [active EXCEPT ![n] = config]

AddServer(n, m) ==
    /\ Leads(n) /\ ~Pending(n) /\ m \notin active[n]
    /\ SubmitConfigChange(n, active[n] \cup {m})
    /\ clients' = [clients EXCEPT ![n] = @ \cup {m}]
    /\ UNCHANGED <<server, storage, calls, committed, leader, tracked, removals, met, stops>>

RemoveServer(n, m) ==
    /\ Leads(n) /\ ~Pending(n) /\ m \in active[n] /\ Cardinality(active[n]) > 2
    /\ SubmitConfigChange(n, active[n] \ {m})
    /\ removals' = [removals EXCEPT ![n] = @ \cup {[member |-> m, index |-> Len(configs) + 1]}]
    /\ UNCHANGED <<server, storage, clients, calls, committed, leader, tracked, met, stops>>

\* waitForCommit gives up.
GiveUp(n, r) ==
    /\ r \in removals[n]
    /\ removals' = [removals EXCEPT ![n] = @ \ {r}]
    /\ UNCHANGED <<server, storage, clients, calls, cluster, met, stops>>

\* handleAppendEntries: the follower's active configuration is the new one, and
\* nothing tells its transport.
Replicate(n, m) ==
    /\ Leads(n) /\ n \in handling[m] \cup abandoned[m] /\ known[m] < Len(configs)
    /\ known' = [known EXCEPT ![m] = Len(configs)]
    /\ active' = [active EXCEPT ![m] = Config(Len(configs))]
    /\ met' = met \cup {m}
    /\ UNCHANGED <<server, storage, clients, calls, configs, committed, leader, tracked, removals, stops>>

\* calculateCommitIndex: a majority has all of the log.
Held(n) ==
    2 * Cardinality({m \in active[n] : known[m] = Len(configs)}) > Cardinality(active[n])

Resolved(n, upTo) == {r \in removals[n] : r.index <= upTo}

\* notifyCommitWaiters: removeServer goes on, and drops the peer.
Notified(n, upTo) ==
    /\ clients' = [clients EXCEPT ![n] = @ \ {r.member : r \in Resolved(n, upTo)}]
    /\ removals' = [removals EXCEPT ![n] = @ \ Resolved(n, upTo)]

\* How far the waiters are notified when the leader commits: a configuration
\* counts as committed before the entries behind it have been read.
NotifiedAtOnce == IF Batched THEN {0, Len(configs)} ELSE {Len(configs)}

\* tryAdvanceCommitIndex; a leader that has been removed steps down.
Commit(n) ==
    /\ Leads(n) /\ committed[n] < Len(configs) /\ Held(n)
    /\ committed' = [committed EXCEPT ![n] = Len(configs)]
    /\ tracked' = tracked \cup AllPeers(n)
    /\ leader' = IF n \in active[n] THEN leader ELSE Nil
    /\ \E upTo \in NotifiedAtOnce : Notified(n, upTo)
    /\ UNCHANGED <<server, storage, calls, configs, known, active, stops, met>>

\* The commit index of handleAppendEntries, which one who leads does not handle,
\* and the rest of tryAdvanceCommitIndex.
Learn(n) ==
    /\ server[n] = "up"
    /\ \E m \in Node :
          LET index == IF committed[m] < known[n] THEN committed[m] ELSE known[n]
          IN  /\ \/ index > committed[n] /\ leader # n
                 \/ index = committed[n] /\ Resolved(n, index) # {}
              /\ committed' = [committed EXCEPT ![n] = index]
              /\ Notified(n, index)
    /\ UNCHANGED <<server, storage, calls, configs, known, active, leader, tracked, stops, met>>

\* sendHeartbeatsUnlocked: a peer that LeaderState does not have is added.
Discovered(n) == AllPeers(n) \ tracked
Heartbeat(n) ==
    /\ Leads(n) /\ Discovered(n) # {}
    /\ tracked' = tracked \cup Discovered(n)
    /\ clients' = [clients EXCEPT ![n] = @ \cup Discovered(n)]
    /\ UNCHANGED <<server, storage, calls, configs, known, active, committed, leader, removals, met, stops>>

Next ==
    \/ \E n \in Node :
          \/ Start(n) \/ Bound(n) \/ Stop(n) \/ ShutDown(n) \/ CloseStorage(n)
          \/ BecomeLeader(n) \/ Commit(n) \/ Learn(n) \/ Heartbeat(n)
          \/ \E r \in removals[n] : GiveUp(n, r)
    \/ \E n, m \in Node :
          \/ Send(n, m) \/ Receive(n, m) \/ Answer(n, m) \/ AnswerNobody(n, m) \/ Fail(n, m)
          \/ AddServer(n, m) \/ RemoveServer(n, m) \/ Replicate(n, m)

Spec == Init /\ [][Next]_vars

-----------------------------------------------------------------------------
\* A leader has a client for every member of its configuration: it can
\* replicate to all it counts on (README of raft-core: members change "without
\* downtime").
LeaderReachesAll == \A n \in Node : Leads(n) => AllPeers(n) \subseteq clients[n]

\* No handler works on storage that is closed under it while its caller waits for
\* the answer, also when nodes stop while others call them and when they start
\* again (RaftNode.stop closes the storage after the transport).
OpenCallsHaveStorage == \A n \in Node : handling[n] # {} => n \in storage

\* No handler at all does: a node has ended what it was doing when it has stopped
\* ("graceful shutdown", GrpcTransport.stop; "releases runtime resources",
\* RaftNode.stop).
HandlersHaveStorage == \A n \in Node : handling[n] \cup abandoned[n] # {} => n \in storage
=============================================================================
