SPECIFICATION DatabaseSpec
CONSTANTS
  DocId = {i1, i2}
  Value = {1, 2}
  NullValue = NullValue
  Absent = Absent
  Content = {1, 2, Absent}
  MaxBlock = 3
  MaxCrashes = 1
  MaxFailures = 1
  MaxWrites = 5
  GoesOn = FALSE
  ReopensStale = FALSE
  Slot = {r1, r2}
  Username = {n1, n3}
  Registered = {n1, n2}
  Coll = {c}
  DocName = {d}
  Nil = Nil
  Setting = {"calm", "busy", "failing"}
  MaxRequests = 4
  MaxBusyRequests = 3
  MaxFailingRequests = 2
  MaxId = 3
  ColumnValue = {0, 1}
  Decimal = FALSE
  OrderAnyColumn = FALSE
  FieldValue = {1, 2}
  MaxDocs = 5
  BATCH_SIZE = 1
  BATCH_SIZE_FOR_DISK = 3
  MAX_CONCURRENT_CHUNKS = 4
  Overlaps = FALSE
  ClosesEarly = FALSE
INVARIANTS AsIfAlone OnlyOwners ListedExists
INVARIANTS DocumentsAreKept FindIsExact StatementsAreRight AllSorted
SYMMETRY Symmetry
CHECK_DEADLOCK FALSE
