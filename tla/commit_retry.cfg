SPECIFICATION BlocksSpec
CONSTANTS
  Data = {d1, d2}
  Big = {d2}
  Nil = Nil
  BatchMayChange = FALSE
  FreesAgain = TRUE
  LastBlock = 3
  MaxBlockFailures = 1
  MaxBlockCrashes = 0
INVARIANT UsedOrFree
CHECK_DEADLOCK FALSE
