------------------------------ MODULE LogStore ------------------------------
(***************************************************************************)
(* What LogStorage promises Raft: a log that grows at its end, loses a     *)
(* suffix to a conflict or a prefix to a snapshot, and changes in no other *)
(* way; in particular no entry is ever replaced in place, and a crash may  *)
(* complete what was asked but undoes nothing.                             *)
(***************************************************************************)
EXTENDS RaftLog

CONSTANTS Term, Command, MaxIndex

VARIABLE store

LogEntry == [term : Term, cmd : Command]

Init == store = EmptyLog

Extend ==
    /\ LastIndex(store) < MaxIndex
    /\ \E es \in {<<e>> : e \in LogEntry} \cup {<<e, f>> : e, f \in LogEntry} :
          store' = AppendEntries(store, es)

TruncateFrom ==
    \E i \in store.snapIndex + 1 .. LastIndex(store) : store' = DeleteEntriesFrom(store, i)

\* A snapshot may come under another term than the entry it replaces; where
\* nothing follows it, its term is the last one.
Compact ==
    \E i \in store.snapIndex + 1 .. LastIndex(store), t \in Term :
        store' = Reload(DiscardEntriesUpTo(store, i, t))

Reset ==
    \E i \in store.snapIndex .. MaxIndex, t \in Term : store' = ResetToSnapshot(i, t)

Next == Extend \/ TruncateFrom \/ Compact \/ Reset

Spec == Init /\ [][Next]_store
=============================================================================
