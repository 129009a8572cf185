------------------------------- MODULE Daemon -------------------------------
(***************************************************************************)
(* The daemons of a cluster: the application daemonFSM that Raft drives on *)
(* every node.  Raft itself is taken as what Raft.tla shows of it: log is  *)
(* the sequence of entries that are or will be committed, and each node    *)
(* holds a prefix of it, knows a part of that as committed and applies it  *)
(* in order.  apply buffers the command, executes what is buffered on the  *)
(* node's database, commits it, and the leader appends a DROPLOG entry,    *)
(* which makes every node take a snapshot of its database files when it    *)
(* applies it.  A database maps the name of a collection to its documents, *)
(* in the order of their insertion.                                        *)
(***************************************************************************)
EXTENDS Integers, Sequences, SequencesExt

CONSTANTS
    Node, Name, Nil,
    Users,                 \* the collection every daemon creates when it starts
    Value,                 \* contents of a document
    SnapshotThreshold,     \* applied entries after which a node takes a snapshot
    Repeats,               \* whether clients create a collection again
    Misses,                \* whether clients use a collection that is missing
    Uncovered,             \* whether a node may restart before its first snapshot
    Maintains,             \* whether databases are compacted or shrunk
    MaxCommands, MaxLog, MaxElections, MaxDisturbances     \* bounds of the model

ASSUME DaemonAssumption == Nil \notin Node \cup Nat /\ MaxLog \in Nat

VARIABLES
    log,
    leader,         \* the node that is leader, or Nil
    elections,
    held,           \* the last entry of the log each node has on disk
    commitIndex, lastApplied,
    snapshot,       \* [index, data, lacking] on each node's disk, or Nil
    db,             \* the open database of each node
    attached,       \* whether that database is the one its FSM works on
    buffered,       \* bufferedCommands
    applying,       \* Nil, or how many buffered commands have been executed
    status,         \* "up", "stopped" when the apply loop has ended, or "down"
    refused,        \* the nodes to which the leader goes on sending its snapshot
    lacking,        \* the nodes whose database lacks commands that they skipped
    disturbances    \* crashes and maintenance so far

cluster == <<log, leader, elections>>
disk == <<held, snapshot, db>>
owing == <<refused, lacking>>
raft == <<commitIndex, lastApplied>>
fsm == <<attached, buffered, applying, status>>
vars == <<cluster, disk, raft, fsm, owing, disturbances>>

-----------------------------------------------------------------------------
(* Commands.  A document command is a list of operations on a collection.   *)

Op(kind, id, val) == [kind |-> kind, id |-> id, val |-> val]

Command(type, name, ops) == [type |-> type, name |-> name, ops |-> ops]

\* The bodies the request handlers build: the ids of inserted documents are new,
\* and a bulk of an insertion and a deletion stands for all bulks.
Create(name) == Command("CREATE", name, <<>>)
DeleteCollection(name) == Command("DELETE", name, <<>>)
DeleteDocument(name, id) == Command("DOC", name, <<Op("delete", id, Nil)>>)
UpdateDocument(name, id, v) == Command("DOC", name, <<Op("update", id, v)>>)
Insert(name, new, v) == Command("INSERT", name, <<Op("insert", new, v)>>)
InsertMany(name, new, v) ==
    Command("INSERT_MANY", name, <<Op("insert", new, v), Op("insert", new + 1, v)>>)
Bulk(name, new, id, v) ==
    Command("BULK", name, <<Op("insert", new, v), Op("delete", id, Nil)>>)

Commands(name, id, new) ==
    {Create(name), DeleteCollection(name), DeleteDocument(name, id)}
    \cup UNION {{Insert(name, new, v), InsertMany(name, new, v), Bulk(name, new, id, v),
                 UpdateDocument(name, id, v)} : v \in Value}

Docs(d, name) == IF name \in DOMAIN d THEN d[name] ELSE <<>>

WithDocs(d, name, docs) == [x \in DOMAIN d \cup {name} |-> IF x = name THEN docs ELSE d[x]]

\* A single insert and one of a bulk command create a missing collection.
CreatesCollection(type, op) == op.kind = "insert" /\ type # "INSERT_MANY"

Inserted(docs, op) == Append(docs, [id |-> op.id, val |-> op.val])

\* update and delete go by the id and leave other documents alone.
Operated(docs, op) ==
    LET at == SelectInSeq(docs, LAMBDA doc : doc.id = op.id)
    IN  CASE op.kind = "insert" -> Inserted(docs, op)
          [] at = 0 -> docs
          [] at # 0 /\ op.kind = "update" -> [docs EXCEPT ![at].val = op.val]
          [] OTHER -> RemoveAt(docs, at)

Operate(type, name, run, op) ==
    IF run.threw THEN run
    ELSE IF name \in DOMAIN run.db \/ CreatesCollection(type, op)
    THEN [run EXCEPT !.db = WithDocs(@, name, Operated(Docs(@, name), op))]
    ELSE [run EXCEPT !.threw = TRUE]

\* What a command does to a database, and whether it throws on the way.
Execution(d, c) ==
    CASE c.type = "CREATE" -> [db |-> WithDocs(d, c.name, Docs(d, c.name)), threw |-> FALSE]
      [] c.type = "DELETE" -> [db |-> [x \in DOMAIN d \ {c.name} |-> d[x]], threw |-> FALSE]
      [] OTHER -> FoldLeft(LAMBDA run, op : Operate(c.type, c.name, run, op),
                           [db |-> d, threw |-> FALSE], c.ops)

\* apply returns early, in the middle of its loop.
ReturnsEarly(d, c) == c.type = "CREATE" /\ c.name \in DOMAIN d

InitialDb == [x \in {Users} |-> <<>>]

-----------------------------------------------------------------------------
(* What the cluster has decided. *)

Entry(type, c) == [type |-> type, command |-> c]

\* What an entry makes of a database: a command is executed.
AfterEntry(d, e) == IF e.type = "COMMAND" THEN Execution(d, e.command).db ELSE d

\* The database after the first i entries of l, each command executed once.
DbAfter(l, i) ==
    LET D[j \in 0 .. i] == IF j = 0 THEN InitialDb ELSE AfterEntry(D[j - 1], l[j])
    IN  D[i]

Decided(i) == DbAfter(log, i)

CommandCount == Len(SelectSeq(log, LAMBDA e : e.type = "COMMAND"))

\* The document that updates and deletes are about; 0 is no document.
OldestId(d, name) == IF Docs(d, name) = <<>> THEN 0 ELSE Docs(d, name)[1].id

\* The commands clients send, as the switches of the model have it.
MaySend(c) ==
    LET d == Decided(Len(log))
    IN  /\ ReturnsEarly(d, c) => Repeats
        /\ Execution(d, c).threw => Misses

\* The entry is in the log of the node that appends it, and others may get it.
AppendTo(n, e) ==
    /\ log' = Append(log, e)
    /\ held' = [held EXCEPT ![n] = Len(log) + 1]

\* A request handler of the leader, and submitCommand.
Submit(n) ==
    /\ leader = n /\ status[n] = "up"
    /\ CommandCount < MaxCommands /\ Len(log) < MaxLog
    /\ \E name \in Name :
          \E c \in Commands(name, OldestId(Decided(Len(log)), name), 2 * Len(log) + 1) :
              /\ MaySend(c)
              /\ AppendTo(n, Entry("COMMAND", c))
    /\ UNCHANGED <<leader, elections, snapshot, db, raft, fsm, owing, disturbances>>

\* A new leader finds out anew what the others have.
Elect(n) ==
    /\ leader # n /\ status[n] # "down"
    /\ held[n] = Len(log)
    /\ elections < MaxElections \/ leader = Nil
    /\ elections' = IF elections < MaxElections THEN elections + 1 ELSE elections
    /\ leader' = n
    /\ IF Len(log) < MaxLog THEN AppendTo(n, Entry("NOOP", Nil)) ELSE UNCHANGED <<log, held>>
    /\ refused' = {}
    /\ UNCHANGED <<snapshot, db, raft, fsm, lacking, disturbances>>

SnapshotIndex(n) == IF snapshot[n] = Nil THEN 0 ELSE snapshot[n].index

\* AppendEntries of the leader, for what it still has in its log.
Replicate(n) ==
    /\ leader \notin {Nil, n} /\ status[n] # "down" /\ n \notin refused
    /\ held[n] + 1 > SnapshotIndex(leader) /\ held[n] < Len(log)
    /\ held' = [held EXCEPT ![n] = Len(log)]
    /\ UNCHANGED <<cluster, snapshot, db, raft, fsm, owing, disturbances>>

LearnCommit(n) ==
    /\ status[n] # "down" /\ leader # Nil /\ n \notin refused
    /\ commitIndex[n] < held[n]
    /\ commitIndex' = [commitIndex EXCEPT ![n] = held[n]]
    /\ UNCHANGED <<cluster, disk, lastApplied, fsm, owing, disturbances>>

-----------------------------------------------------------------------------
(* The apply loop. *)

NextEntry(n) == log[lastApplied[n] + 1]

MayGoOn(n) ==
    /\ status[n] = "up" /\ applying[n] = Nil
    /\ lastApplied[n] < commitIndex[n]

\* The entry after the last applied is committed and not in the snapshot.
MayApply(n) == MayGoOn(n) /\ lastApplied[n] >= SnapshotIndex(n)

\* What the snapshot covers counts as applied, whether or not the application
\* has taken the snapshot over.
Skip(n) ==
    /\ MayGoOn(n) /\ lastApplied[n] < SnapshotIndex(n)
    /\ lastApplied' = [lastApplied EXCEPT ![n] = SnapshotIndex(n)]
    /\ lacking' = lacking \cup {n}
    /\ UNCHANGED <<cluster, disk, commitIndex, fsm, refused, disturbances>>

\* The index takeSnapshot gives the snapshot.
SnapshotAt(n, applied) == applied

\* takeSnapshot, and the discard of the log it covers: the checkpoint and the
\* copy of the files read the database that is open.
TakenSnapshot(n, applied) ==
    [index |-> SnapshotAt(n, applied), data |-> db[n], lacking |-> n \in lacking]

\* setLastApplied, and a snapshot when the last one is too old.
Applied(n, snap) ==
    LET i == lastApplied[n] + 1
        last == IF snap = Nil THEN 0 ELSE snap.index
    IN  /\ lastApplied' = [lastApplied EXCEPT ![n] = i]
        /\ snapshot' = [snapshot EXCEPT ![n] =
                           IF i - last >= SnapshotThreshold THEN TakenSnapshot(n, i) ELSE snap]

ApplyNoop(n) ==
    /\ MayApply(n) /\ NextEntry(n).type = "NOOP"
    /\ Applied(n, snapshot[n])
    /\ UNCHANGED <<cluster, held, db, commitIndex, fsm, owing, disturbances>>

\* A DROPLOG entry: the snapshot ends before the entry itself.
ApplyDropLog(n) ==
    /\ MayApply(n) /\ NextEntry(n).type = "DROPLOG"
    /\ Applied(n, TakenSnapshot(n, lastApplied[n]))
    /\ UNCHANGED <<cluster, held, db, commitIndex, fsm, owing, disturbances>>

\* How many applied commands are executed together.
TRESHOLD == 1

\* apply, up to the first buffered command.
BeginApply(n) ==
    /\ MayApply(n) /\ NextEntry(n).type = "COMMAND"
    /\ buffered' = [buffered EXCEPT ![n] = Append(@, NextEntry(n).command)]
    /\ IF Len(buffered'[n]) < TRESHOLD
       THEN /\ Applied(n, snapshot[n])
            /\ UNCHANGED applying
       ELSE /\ applying' = [applying EXCEPT ![n] = 0]
            /\ UNCHANGED <<lastApplied, snapshot>>
    /\ UNCHANGED <<cluster, held, db, commitIndex, attached, status, owing, disturbances>>

Executing(n) == applying[n] # Nil /\ applying[n] < Len(buffered[n])

CommandNow(n) == buffered[n][applying[n] + 1]

\* The command throws, or the FSM's database has been closed.
Throws(n) ==
    IF Executing(n)
    THEN /\ ~ReturnsEarly(db[n], CommandNow(n))
         /\ ~attached[n] \/ Execution(db[n], CommandNow(n)).threw
    ELSE ~attached[n]

\* One turn of the loop over the buffered commands.  Where the collection to
\* create exists, apply returns, and Raft counts the entry as applied.
Execute(n) ==
    /\ Executing(n) /\ ~Throws(n)
    /\ IF ReturnsEarly(db[n], CommandNow(n))
       THEN /\ applying' = [applying EXCEPT ![n] = Nil]
            /\ Applied(n, snapshot[n])
            /\ UNCHANGED db
       ELSE /\ applying' = [applying EXCEPT ![n] = @ + 1]
            /\ db' = [db EXCEPT ![n] = Execution(@, CommandNow(n)).db]
            /\ UNCHANGED <<lastApplied, snapshot>>
    /\ UNCHANGED <<cluster, held, commitIndex, attached, buffered, status, owing, disturbances>>

\* apply throws: the apply loop ends, and the node is no longer started.
Throw(n) ==
    /\ applying[n] # Nil /\ Throws(n)
    /\ db' = [db EXCEPT ![n] = IF attached[n] THEN Execution(@, CommandNow(n)).db ELSE @]
    /\ applying' = [applying EXCEPT ![n] = Nil]
    /\ status' = [status EXCEPT ![n] = "stopped"]
    /\ UNCHANGED <<cluster, held, snapshot, raft, attached, buffered, owing, disturbances>>

\* Mutant of Emptied: the buffer stays as it is.
NotEmptied(commands) == commands

\* bufferedCommands once they have all been executed.
Emptied(commands) == <<>>

\* The end of apply: the buffer is emptied, the database committed, and the
\* leader appends its DROPLOG entry, which may be lost with its term.
FinishApply(n) ==
    /\ applying[n] = Len(buffered[n]) /\ ~Throws(n)
    /\ buffered' = [buffered EXCEPT ![n] = Emptied(@)]
    /\ applying' = [applying EXCEPT ![n] = Nil]
    /\ Applied(n, snapshot[n])
    /\ \/ leader = n /\ Len(log) < MaxLog /\ AppendTo(n, Entry("DROPLOG", Nil))
       \/ UNCHANGED <<log, held>>
    /\ UNCHANGED <<leader, elections, db, commitIndex, attached, status, owing, disturbances>>

-----------------------------------------------------------------------------
(* Snapshots from the leader, maintenance, and restarts. *)

\* Mutant of NeedsSnapshot: the first entry that is missing is thought present.
NeedsSnapshotLate(n) == held[n] + 1 < SnapshotIndex(leader)

\* The leader has dropped the entry the node needs next.
NeedsSnapshot(n) == held[n] + 1 <= SnapshotIndex(leader)

\* sendSnapshot of the leader reaches n; handleInstallSnapshot waits for the
\* apply lock.  (Raft.tla has late snapshots.)  One that was refused comes again.
SnapshotComes(n) ==
    /\ leader \notin {Nil, n} /\ status[n] # "down" /\ applying[n] = Nil
    /\ NeedsSnapshot(n) \/ n \in refused
    /\ snapshot[leader] # Nil

\* saveSnapshot, and the log ends with the snapshot or goes on behind it.
SaveSnapshot(n) ==
    /\ snapshot' = [snapshot EXCEPT ![n] = snapshot[leader]]
    /\ held' = [held EXCEPT ![n] = IF @ < SnapshotIndex(leader) THEN SnapshotIndex(leader) ELSE @]

\* The FSM closes its database, writes the files and opens them again; what it
\* has buffered stays.
InstallSnapshot(n) ==
    /\ SnapshotComes(n) /\ attached[n]
    /\ SaveSnapshot(n)
    /\ db' = [db EXCEPT ![n] = snapshot[leader].data]
    /\ commitIndex' = [commitIndex EXCEPT ![n] = SnapshotIndex(leader)]
    /\ lastApplied' = [lastApplied EXCEPT ![n] = SnapshotIndex(leader)]
    /\ refused' = refused \ {n}
    /\ lacking' = IF snapshot[leader].lacking THEN lacking \cup {n} ELSE lacking
    /\ UNCHANGED <<cluster, fsm, disturbances>>

\* Where the FSM's database is closed, its close commits and throws: the handler
\* fails with the snapshot saved and the log behind it, and the leader sends the
\* snapshot again.
RefuseSnapshot(n) ==
    /\ SnapshotComes(n) /\ ~attached[n]
    /\ SaveSnapshot(n)
    /\ refused' = refused \cup {n}
    /\ UNCHANGED <<cluster, db, raft, fsm, lacking, disturbances>>

Disturbed == disturbances < MaxDisturbances /\ disturbances' = disturbances + 1

\* /db/compact, /db/shrink and the AutoCompactor close the database and open
\* its files again; they hold dbLock, which apply does not take.
Maintain(n) ==
    /\ Maintains /\ Disturbed
    /\ status[n] # "down" /\ attached[n]
    /\ attached' = [attached EXCEPT ![n] = FALSE]
    /\ UNCHANGED <<cluster, disk, raft, buffered, applying, status, owing>>

Untouched(n) == lastApplied[n] = 0 /\ applying[n] = Nil

Crash(n) ==
    /\ Disturbed
    /\ status[n] # "down"
    /\ Uncovered \/ snapshot[n] # Nil \/ Untouched(n)
    /\ status' = [status EXCEPT ![n] = "down"]
    /\ leader' = IF leader = n THEN Nil ELSE leader
    /\ buffered' = [buffered EXCEPT ![n] = <<>>]
    /\ applying' = [applying EXCEPT ![n] = Nil]
    /\ commitIndex' = [commitIndex EXCEPT ![n] = 0]
    /\ lastApplied' = [lastApplied EXCEPT ![n] = 0]
    /\ UNCHANGED <<log, elections, disk, attached, owing>>

\* initDB, setDB and RaftNode.start, which installs the node's own snapshot.
Restart(n) ==
    /\ status[n] = "down"
    /\ status' = [status EXCEPT ![n] = "up"]
    /\ attached' = [attached EXCEPT ![n] = TRUE]
    /\ db' = [db EXCEPT ![n] = IF snapshot[n] = Nil THEN @ ELSE snapshot[n].data]
    /\ commitIndex' = [commitIndex EXCEPT ![n] = SnapshotIndex(n)]
    /\ lastApplied' = [lastApplied EXCEPT ![n] = SnapshotIndex(n)]
    /\ lacking' = {m \in Node : IF m = n /\ snapshot[n] # Nil THEN snapshot[n].lacking
                                                           ELSE m \in lacking}
    /\ UNCHANGED <<cluster, held, snapshot, buffered, applying, refused, disturbances>>

-----------------------------------------------------------------------------
Init ==
    /\ log = <<>>
    /\ leader = Nil
    /\ elections = 0
    /\ held = [n \in Node |-> 0]
    /\ commitIndex = [n \in Node |-> 0]
    /\ lastApplied = [n \in Node |-> 0]
    /\ snapshot = [n \in Node |-> Nil]
    /\ db = [n \in Node |-> InitialDb]
    /\ attached = [n \in Node |-> TRUE]
    /\ buffered = [n \in Node |-> <<>>]
    /\ applying = [n \in Node |-> Nil]
    /\ status = [n \in Node |-> "up"]
    /\ refused = {}
    /\ lacking = {}
    /\ disturbances = 0

Apply(n) ==
    \/ Skip(n) \/ ApplyNoop(n) \/ ApplyDropLog(n) \/ BeginApply(n)
    \/ Execute(n) \/ Throw(n) \/ FinishApply(n)

Next ==
    \E n \in Node :
        \/ Submit(n) \/ Elect(n) \/ Replicate(n) \/ LearnCommit(n)
        \/ Apply(n)
        \/ InstallSnapshot(n) \/ RefuseSnapshot(n)
        \/ Maintain(n) \/ Crash(n) \/ Restart(n)

Spec == Init /\ [][Next]_vars

\* The apply loop runs every 10 ms, heartbeats go on, somebody is elected, and
\* a node that went down is started again; clients need not come.
Fairness ==
    \A n \in Node :
        /\ WF_vars(Apply(n)) /\ WF_vars(Restart(n))
        /\ WF_vars(leader = Nil /\ Elect(n))
        /\ WF_vars(Replicate(n)) /\ WF_vars(LearnCommit(n))
        /\ WF_vars(InstallSnapshot(n) \/ RefuseSnapshot(n))

FairSpec == Spec /\ Fairness

-----------------------------------------------------------------------------
(* Properties. *)

\* Between two commands a node's database is what the applied part of the log
\* makes of it, each command executed once and in order, whatever it got by
\* replay and what by snapshot; and a snapshot holds the effect of exactly the
\* commands up to its index, its copy of the files neither lagging behind
\* lastApplied nor running ahead of it (apply, takeSnapshot, installSnapshot).
\* It is said of databases and snapshots that no skip has gone into.
AppliedIsExecuted ==
    \A n \in Node :
        /\ status[n] = "up" /\ applying[n] = Nil /\ n \notin lacking =>
               db[n] = Decided(lastApplied[n])
        /\ snapshot[n] # Nil /\ ~snapshot[n].lacking =>
               snapshot[n].data = Decided(snapshot[n].index)

\* It is so of every database and snapshot: Raft calls apply for every committed
\* command, or the node takes a snapshot over instead (comment of daemonFSM).
CommandsAreExecuted ==
    \A n \in Node :
        /\ status[n] = "up" /\ applying[n] = Nil => db[n] = Decided(lastApplied[n])
        /\ snapshot[n] # Nil => snapshot[n].data = Decided(snapshot[n].index)

\* Once clients pause, every node counts as applied all there is, through
\* restarts and changes of leader: the leader's snapshots stand in for the
\* entries it has dropped.  Out of it are a node whose apply loop has ended, and
\* one that goes on refusing the snapshot it needs, its FSM's database closed.
CatchesUp ==
    []<>(\A n \in Node : \/ lastApplied[n] = Len(log) \/ status[n] = "stopped"
                         \/ n \in refused /\ ~attached[n])
=============================================================================
