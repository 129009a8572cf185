SPECIFICATION Spec
CONSTANTS
  Value = {1, 2}
  MaxDocs = 4
  BATCH_SIZE = 1
  BATCH_SIZE_FOR_DISK = 2
  MAX_CONCURRENT_CHUNKS = 2
  Overlaps = FALSE
  ClosesEarly = TRUE
INVARIANT AllSorted
CHECK_DEADLOCK FALSE
