SPECIFICATION ClusterSpec
SYMMETRY ClusterSymmetry
CONSTANTS
  Node = {h1, h2, h3}
  Nil = Nil
  Peers = {h1, h2}
  MaxConfigs = 3
  MaxCalls = 1
  MaxStops = 1
  Slow = FALSE
  TakesOver = FALSE
  Batched = FALSE
  Member = {n1, n2, n3, n4}
  Voter = {n1, n2, n3}
  Added = {n4}
  Removed = {n3}
  Waits = FALSE
  Reordered = FALSE
  Electable = {n1, n2}
  MaxTerm = 2
  MaxLog = 4
  MaxRestarts = 1
  MaxQueue = 3
INVARIANTS LeaderReachesAll OpenCallsHaveStorage CommittedStays OneAtATime Listens OneTimerEach
CHECK_DEADLOCK FALSE
