SPECIFICATION Spec
CONSTANTS
  Block = {b1, b2}
  Value = {v0, v1}
  Blank = v0
  Torn = torn
  WriteSize = 2
  CommitSize = 1
  WalSizeLimit = 4
  RecoversOnOpen = TRUE
  SealFails = FALSE
  MaxTransactions = 1
  MaxFailures = 0
  MaxCrashes = 1
INVARIANTS CommitIsDurable
CHECK_DEADLOCK FALSE
