SPECIFICATION Spec
CONSTANTS
  Node = {h1, h2}
  Nil = Nil
  Peers = {h1, h2}
  MaxConfigs = 0
  MaxCalls = 1
  MaxStops = 1
  Slow = FALSE
  TakesOver = FALSE
  Batched = FALSE
INVARIANT HandlersHaveStorage
CHECK_DEADLOCK FALSE
