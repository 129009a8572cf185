---------------------------- MODULE ReplacedFile ----------------------------
(***************************************************************************)
(* A file of a Raft node that is always replaced whole: term.bin           *)
(* (DiskMetaStorage), snapshot.bin (DiskSnapshotStorage) and config.bin    *)
(* (DiskConfigStorage) are written beside themselves, synced and renamed.  *)
(* A content is a value with its checksum, or torn; a crash may tear what  *)
(* is not synced.                                                          *)
(***************************************************************************)
EXTENDS Integers

CONSTANTS
    Value, Nil,
    Writer,          \* the calls that may be in progress at once
    MaxWrites, MaxCrashes     \* bounds of the model

VARIABLES
    file,        \* [value, synced] of the file, or Nil if there is none
    tmp,         \* the same of the temporary file
    call,        \* [value, step] of each call, or Nil
    known,       \* what the last write or start has reported
    acked,       \* whether a write has returned
    opened,      \* whether the storage is open
    writes, crashes

vars == <<file, tmp, call, known, acked, opened, writes, crashes>>

Content(v, synced) == [value |-> v, synced |-> synced]
ValueOf(content) == IF content = Nil THEN Nil ELSE content.value

At(w, step) == opened /\ call[w] # Nil /\ call[w].step = step

Goto(w, step) == call' = [call EXCEPT ![w] = [@ EXCEPT !.step = step]]

Return(w) == call' = [call EXCEPT ![w] = Nil]

\* write and save: writeFile truncates the temporary file,
Truncate(w) ==
    /\ opened /\ call[w] = Nil /\ writes < MaxWrites
    /\ \E v \in Value : call' = [call EXCEPT ![w] = [value |-> v, step |-> "fill"]]
    /\ tmp' = Content("torn", FALSE)
    /\ writes' = writes + 1
    /\ UNCHANGED <<file, known, acked, opened, crashes>>

\* and fills it; two calls that do so at once leave a mixture.
Fill(w) ==
    /\ At(w, "fill")
    /\ tmp' = IF tmp # Nil /\ (\A x \in Writer : At(x, "fill") => x = w)
              THEN Content(call[w].value, FALSE) ELSE tmp
    /\ Goto(w, "sync")
    /\ UNCHANGED <<file, known, acked, opened, writes, crashes>>

\* Mutant of Synced: the temporary file is closed without a sync.
Unsynced(content) == content

Synced(content) == [content EXCEPT !.synced = TRUE]

\* open(tmp), sync and close; without the file the call throws.
Sync(w) ==
    /\ At(w, "sync")
    /\ IF tmp = Nil THEN Return(w) /\ UNCHANGED tmp
       ELSE Goto(w, "rename") /\ tmp' = Synced(tmp)
    /\ UNCHANGED <<file, known, acked, opened, writes, crashes>>

Rename(w) ==
    /\ At(w, "rename")
    /\ Return(w)
    /\ IF tmp = Nil THEN UNCHANGED <<file, tmp, known, acked>>
       ELSE file' = tmp /\ tmp' = Nil /\ known' = call[w].value /\ acked' = TRUE
    /\ UNCHANGED <<opened, writes, crashes>>

MayTear(content) ==
    {content} \cup (IF content # Nil /\ ~content.synced THEN {Content("torn", FALSE)} ELSE {})

\* The crash may come after a rename whose call has not returned.
Crash ==
    /\ opened /\ crashes < MaxCrashes
    /\ opened' = FALSE
    /\ \E f \in MayTear(file), t \in MayTear(tmp) :
          \/ file' = f /\ tmp' = t
          \/ (\E w \in Writer : At(w, "rename")) /\ t # Nil /\ file' = t /\ tmp' = Nil
    /\ call' = [w \in Writer |-> Nil]
    /\ crashes' = crashes + 1
    /\ UNCHANGED <<known, acked, writes>>

\* recover: the temporary file counts only where there is no other.
Recovered == IF file = Nil THEN tmp ELSE file

\* open, and the read with which the node starts, which throws on a torn file.
Open ==
    /\ ~opened /\ ValueOf(file) # "torn"
    /\ file' = Recovered
    /\ tmp' = Nil
    /\ opened' = (ValueOf(Recovered) # "torn")
    /\ known' = IF opened' THEN ValueOf(Recovered) ELSE known
    /\ UNCHANGED <<call, acked, writes, crashes>>

Init ==
    /\ file = Nil /\ tmp = Nil
    /\ call = [w \in Writer |-> Nil]
    /\ known = Nil /\ acked = FALSE
    /\ opened = TRUE
    /\ writes = 0 /\ crashes = 0

Next ==
    \/ \E w \in Writer : Truncate(w) \/ Fill(w) \/ Sync(w) \/ Rename(w)
    \/ Crash \/ Open

Spec == Init /\ [][Next]_vars

-----------------------------------------------------------------------------
\* What a write or a start has reported is what the file holds; the only file
\* that does not read back is one whose first write was cut off, so that term,
\* vote, snapshot and configuration outlive every later crash (write, save,
\* recover).
KnownIsRead ==
    /\ opened => ValueOf(file) = known
    /\ ValueOf(file) = "torn" => ~acked
=============================================================================
