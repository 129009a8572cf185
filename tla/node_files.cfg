SPECIFICATION FilesSpec
CONSTANTS
  Term = {1, 2}
  Command = {a}
  Process = {state}
  Nil = Nil
  Alone = TRUE
  MaxIndex = 3
  MaxCrashes = 2
  FileContent = {w1, w2, w3}
  Writer = {snapshots}
  MaxWrites = 3
INVARIANTS AcknowledgedIsHeld CacheIsFile KnownIsRead
PROPERTIES ImplementsLogStore
CHECK_DEADLOCK FALSE
