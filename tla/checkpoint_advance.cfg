CONSTANTS
  NoBatch = NoBatch
  book = book
  mark = mark
  Batches = {1, 2, 3, 4}
  Foreign = {}
  Streams = {book, mark}
  StreamOf <- MCStreamOf
  LastReceived <- MCLastReceived
  MaxCrashes = 0

SPECIFICATION StoreSpec

PROPERTY CheckpointAdvances
