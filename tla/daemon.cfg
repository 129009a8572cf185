SPECIFICATION FairSpec
CONSTANTS
  Node = {n1, n2}
  Name = {c}
  Nil = Nil
  Users = users
  Value = {v}
  SnapshotThreshold = 3
  Repeats = FALSE
  Misses = TRUE
  Uncovered = FALSE
  Maintains = TRUE
  MaxCommands = 2
  MaxLog = 4
  MaxElections = 0
  MaxDisturbances = 1
INVARIANTS AppliedIsExecuted
PROPERTIES CatchesUp
CHECK_DEADLOCK FALSE
