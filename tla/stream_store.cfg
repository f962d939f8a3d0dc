CONSTANTS
  NoBatch = NoBatch
  book = book
  mark = mark
  Batches = {1, 2, 3, 4}
  Foreign = {1, 2}
  Streams = {book, mark}
  StreamOf <- MCStreamOf
  LastReceived <- MCLastReceived
  MaxCrashes = 3

SPECIFICATION FairStoreSpec

INVARIANTS
  StoreTypeOK
  CheckpointIsVisible
  ValidatedIsDurable
  RecoveryLeavesNothingBehind

PROPERTIES
  VisibleBatches
  PromotedIsRecovered
