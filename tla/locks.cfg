SPECIFICATION FairLocksSpec
CONSTANTS
  Caller = {c1, c2, c3, c4}
  MaxPhases = 5
  Call = {c1, c2, c3, c4, c5}
INVARIANTS HandOver
PROPERTIES FairAccessSpec EveryoneEnters FairLockAccess EveryoneRuns
CHECK_DEADLOCK FALSE
