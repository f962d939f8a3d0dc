CONSTANTS
  NoFile = NoFile
  Damaged = Damaged
  Mixed = Mixed
  Days = {1}
  Versions = {1, 2, 3}
  Unusable = {3}
  Rows <- MCRows
  Interval = 2
  DayEnd = 5
  MaxConcurrency = 1
  MaxAttempts = 2
  MaxReplacements = 2
  MaxFaults = 3
  Overlap = FALSE
SPECIFICATION FairSpec
INVARIANTS
  TypeOK
  BronzeIsDurable
  PassedIsComplete
PROPERTIES
  ValidatedIsVerified
  RawNotOverwritten
  CompletedIsDelivered
  ServedForever
  EventuallyListed
