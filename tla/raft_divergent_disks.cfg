SPECIFICATION DisksSpec
CONSTANTS
  s1 = s1
  s2 = s2
  c1 = c1
  Server = {s1, s2, s3}
  Electable = {s1}
  Command = {c1}
  Nil = Nil
  NoOp = NoOp
  SnapshotThreshold = 9
  MaxBatch = 1
  MaxTerm = 3
  MaxLog = 3
  MaxRestarts = 1
  MaxInFlight = 2
INVARIANTS SameHistory LogMatching
PROPERTIES CommittedIsKept CommitNeverRegresses
CHECK_DEADLOCK FALSE
