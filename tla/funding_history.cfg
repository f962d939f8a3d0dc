SPECIFICATION FairSpec
CONSTANTS
  btc = btc
  eth = eth
  low = low
  high = high
  none = none
  Symbols <- MCSymbols
  Keys <- MCKeys
  Rates <- MCRates
  NoRate = none
  RatesOf <- MCRatesOf
  Ranges <- MCRanges
  Requests <- MCRequests
  Limit = 2
  MaxAttempts = 2
  MaxFiles = 2
CHECK_DEADLOCK FALSE
INVARIANTS TypeOK
PROPERTIES SyncIsServed SyncEnds
