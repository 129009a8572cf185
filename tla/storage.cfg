SPECIFICATION StorageSpec
CONSTANTS
  Block = {b1, b2}
  Value = {v0, v1}
  Blank = v0
  Torn = torn
  WriteSize = 2
  CommitSize = 1
  WalSizeLimit = 99
  RecoversOnOpen = TRUE
  SealFails = TRUE
  MaxTransactions = 2
  MaxFailures = 2
  MaxCrashes = 2
  FullBlock = {b1, b2}
  FullValue = {v0, v1}
  FullLimit = 5
  FullSealFails = FALSE
  FullTransactions = 3
  FullFailures = 2
  Data = {d1, d2}
  Big = {d2}
  Nil = Nil
  BatchMayChange = FALSE
  FreesAgain = FALSE
  LastBlock = 3
  MaxBlockFailures = 2
  MaxBlockCrashes = 1
  MaxKey = 6
  Order = 2
  Loaded = {}
  ReadsFirst = TRUE
  AbortsSplits = FALSE
  ReopensBatches = FALSE
  MaxReopens = 1
  TreeTransactions = 1
  Orders = {1, 2, 3, 4}
  Extra = 0
  MaxBlock = 7
  SeparateHeap = FALSE
  HeapBlock = {}
  PowerLoss = FALSE
  FewCrashes = 1
INVARIANTS CommitIsDurable CommittedIsRead FullJournalIsSafe BlobsAreKept
INVARIANTS TreeHoldsContents ContentsKept OneDatabase
PROPERTIES AtomicStoreSpec
CHECK_DEADLOCK FALSE
