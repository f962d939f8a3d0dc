SPECIFICATION Spec
CONSTANTS
  None = None
  Experiment <- MCExperiment
  Symbols <- MCSymbols
  Identity <- MCIdentity
  Books <- MCBooks
  Files <- MCFiles
  Capital = 40
  Times = {1, 2}
  MaxAttempts = 2
  MaxDamages = 1
INVARIANTS NettingOnlySaves LegsExplainTheBooks
CHECK_DEADLOCK FALSE
