------------------------------ MODULE Database ------------------------------
(***************************************************************************)
(* The engine and what is above it, which share no variable, checked side  *)
(* by side: the accounts API of the daemon (Accounts), the query language  *)
(* (Sql), a collection of the engine (Collection) and its import           *)
(* (IndexImport).  A behaviour runs one of them; the others stay as they   *)
(* start.                                                                  *)
(***************************************************************************)
EXTENDS Accounts, Collection, TLC

CONSTANTS
    MaxId, ColumnValue, Decimal, OrderAnyColumn,    \* of Sql
    FieldValue, MaxDocs, BATCH_SIZE,                \* of IndexImport
    BATCH_SIZE_FOR_DISK, MAX_CONCURRENT_CHUNKS, Overlaps, ClosesEarly

VARIABLES
    part,
    table, writing, pending, reported, before,
    sent, inbox, batch, outbox, storage, flushing, disk, stage, merge, yielded

Statements == INSTANCE Sql WITH Value <- ColumnValue
Import == INSTANCE IndexImport WITH Value <- FieldValue, writing <- flushing, phase <- stage

queryVars == <<table, writing, pending, reported, before>>
importVars == <<sent, inbox, batch, outbox, storage, flushing, disk, stage, merge, yielded>>
databaseVars == <<part, vars, engineVars, queryVars, importVars>>

DatabaseInit ==
    /\ part \in {"accounts", "collection", "query", "import"}
    /\ Init /\ EngineInit /\ Statements!Init /\ Import!Init
    /\ part # "accounts" => setting = "calm"

OfAccounts ==
    part = "accounts" /\ Next /\ UNCHANGED <<part, engineVars, queryVars, importVars>>
OfCollection ==
    part = "collection" /\ EngineNext /\ UNCHANGED <<part, vars, queryVars, importVars>>
OfQuery ==
    part = "query" /\ Statements!Next /\ UNCHANGED <<part, vars, engineVars, importVars>>
OfImport ==
    part = "import" /\ Import!Next /\ UNCHANGED <<part, vars, engineVars, queryVars>>

DatabaseNext == OfAccounts \/ OfCollection \/ OfQuery \/ OfImport

DatabaseSpec == DatabaseInit /\ [][DatabaseNext]_databaseVars

Symmetry == Permutations(DocId) \cup Permutations(Slot)

-----------------------------------------------------------------------------
(* The properties of the parts; those of Accounts and Collection keep their *)
(* names.                                                                   *)

\* SELECT answers, UPDATE and DELETE change what they should (Sql, the
\* optimizer, parseUpdate and the executors).
StatementsAreRight == part = "query" => Statements!SelectIsRight /\ Statements!WritesAreRight

\* The import hands over every entry in order and cleans up after itself
\* (IndexImport, getSorted and cleanup).
AllSorted == part = "import" => Import!AllSorted /\ Import!NothingLeft
=============================================================================
