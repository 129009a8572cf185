------------------------------ MODULE NodeFiles ------------------------------
(***************************************************************************)
(* The files of a Raft node, which share no variable, checked side by      *)
(* side: its log (DiskLog) and those that hold its term and vote, its      *)
(* snapshot and its configuration (ReplacedFile).  A behaviour runs one of *)
(* them; the other stays as it starts.                                     *)
(***************************************************************************)
EXTENDS DiskLog

CONSTANTS FileContent, Writer, MaxWrites     \* of ReplacedFile

\* A content is a value that reads, and neither it nor a call is Nil.
ASSUME NodeFilesAssumption ==
    /\ "torn" \notin FileContent \cup {Nil}
    /\ Nil \notin [value : FileContent \cup {"torn"}, synced : BOOLEAN]
    /\ Nil \notin [value : FileContent, step : {"fill", "sync", "rename"}]

VARIABLES part, replaced, replacement, call, known, everAcked, opened, writes, replacedCrashes

NodeFile ==
    INSTANCE ReplacedFile WITH
        Value <- FileContent, file <- replaced, tmp <- replacement, acked <- everAcked,
        crashes <- replacedCrashes

nodeFileVars == <<replaced, replacement, call, known, everAcked, opened, writes,
                  replacedCrashes>>
filesVars == <<part, vars, nodeFileVars>>

FilesInit == part \in {"log", "file"} /\ Init /\ NodeFile!Init

OfLog == part = "log" /\ Next /\ UNCHANGED <<part, nodeFileVars>>
OfNodeFile == part = "file" /\ NodeFile!Next /\ UNCHANGED <<part, vars>>

FilesNext == OfLog \/ OfNodeFile

FilesSpec == FilesInit /\ [][FilesNext]_filesVars

-----------------------------------------------------------------------------
(* The properties of DiskLog keep their names. *)

\* A file reads as last written (ReplacedFile, write and recover).
KnownIsRead == part = "file" => NodeFile!KnownIsRead
=============================================================================
