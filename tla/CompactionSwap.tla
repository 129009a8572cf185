--------------------------- MODULE CompactionSwap ---------------------------
(***************************************************************************)
(* The swap that ends /db/compact (atomicCompactionSwap): the compacted    *)
(* database lies in four temporary files, which are renamed over the four  *)
(* files of the old one under the protection of a marker, and the recovery *)
(* from a crash in it (recoverCompactionSwap, at the start of initDB).     *)
(* The marker is written without a sync: a loss of power may leave it torn *)
(* behind the renames that follow it.                                      *)
(***************************************************************************)
EXTENDS Integers, Sequences

CONSTANTS
    PowerLoss,       \* whether a crash may lose what is not synced
    MaxCrashes       \* bound of the model

VARIABLES
    version,     \* "old" or "new", of each file in place
    temps,       \* the temporary files that exist
    marker,      \* "none", "written" or "torn"
    task,        \* what the daemon is doing, and the files it has still to do
    crashes

vars == <<version, temps, marker, task, crashes>>

\* The order in which the files are renamed and removed.
RenameOrder == <<"db", "wal", "heap", "heapWal">>

Files == {RenameOrder[i] : i \in 1 .. 4}

Task(name, todo) == [name |-> name, todo |-> todo]

Init ==
    /\ version = [f \in Files |-> "old"]
    /\ temps = Files
    /\ marker = "none"
    /\ task = Task("swap", RenameOrder)
    /\ crashes = 0

\* writeFile of the marker.
WriteMarker == marker' = "written"

BeginSwap ==
    /\ task = Task("swap", RenameOrder) /\ marker = "none"
    /\ WriteMarker
    /\ task' = Task("rename", RenameOrder)
    /\ UNCHANGED <<version, temps, crashes>>

Doing(name) == task.name = name /\ task.todo # <<>>

Renamed(f) ==
    /\ version' = [version EXCEPT ![f] = "new"]
    /\ temps' = temps \ {f}

\* One rename of the swap, or of the recovery that completes it, which passes
\* over the files that are gone.
Rename ==
    /\ Doing("rename")
    /\ IF Head(task.todo) \in temps THEN Renamed(Head(task.todo)) ELSE UNCHANGED <<version, temps>>
    /\ task' = Task("rename", Tail(task.todo))
    /\ UNCHANGED <<marker, crashes>>

\* One unlink of the recovery that rolls back.
Remove ==
    /\ Doing("remove")
    /\ temps' = temps \ {Head(task.todo)}
    /\ task' = Task("remove", Tail(task.todo))
    /\ UNCHANGED <<version, marker, crashes>>

\* The marker goes, and the database is opened.
Finish ==
    /\ task.name \in {"rename", "remove"} /\ task.todo = <<>>
    /\ marker' = "none"
    /\ task' = Task("open", <<>>)
    /\ UNCHANGED <<version, temps, crashes>>

Crash ==
    /\ task.name # "down" /\ crashes < MaxCrashes
    /\ task' = Task("down", <<>>)
    /\ marker' \in {marker} \cup (IF PowerLoss /\ marker # "none" THEN {"torn"} ELSE {})
    /\ crashes' = crashes + 1
    /\ UNCHANGED <<version, temps>>

\* Mutant of SwapBegan: the last file tells.
SwapEnded == "heapWal" \notin temps

\* The first rename has happened: its temporary file is gone.
SwapBegan == "db" \notin temps

\* The start of recoverCompactionSwap.
Recover ==
    /\ task.name = "down"
    /\ task' = IF marker # "written" THEN Task("open", <<>>)
               ELSE Task(IF SwapBegan THEN "rename" ELSE "remove", RenameOrder)
    /\ marker' = IF marker = "torn" THEN "none" ELSE marker
    /\ UNCHANGED <<version, temps, crashes>>

Next == BeginSwap \/ Rename \/ Remove \/ Finish \/ Crash \/ Recover

Spec == Init /\ [][Next]_vars

-----------------------------------------------------------------------------
\* The database that is opened is the old one or the compacted one, never the
\* index of one and the documents of the other (simpledbmsd.mts: "Uses a marker
\* file so the operation is recoverable after a crash").
OneDatabase ==
    task.name = "open" => \A f, g \in Files : version[f] = version[g]
=============================================================================
