SPECIFICATION Spec
CONSTANTS
  Slot = {r1, r2}
  Username = {}
  Registered = {n1, n2}
  Coll = {c1, c2}
  DocName = {}
  Nil = Nil
  Setting = {"eager"}
  MaxRequests = 6
  MaxBusyRequests = 3
  MaxFailingRequests = 2
INVARIANTS AsIfAlone
CHECK_DEADLOCK FALSE
