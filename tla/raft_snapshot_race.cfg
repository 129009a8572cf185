SPECIFICATION Spec
CONSTANTS
  s1 = s1
  s2 = s2
  c1 = c1
  Server = {s1, s2, s3}
  Electable = {s1}
  Command = {c1}
  Nil = Nil
  NoOp = NoOp
  SnapshotThreshold = 1
  MaxBatch = 1
  MaxTerm = 1
  MaxLog = 2
  MaxRestarts = 1
  MaxInFlight = 1
SYMMETRY Symmetry
INVARIANTS SameHistory
CHECK_DEADLOCK FALSE
