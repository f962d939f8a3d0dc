SPECIFICATION Spec
CONSTANTS
  NaN = NaN
  None = None
  Symbols = {1, 2, 3}
  BTC = 1
  ETH = 2
  DayHours = 3
  ShortHours = 2
  WeekHours = 3
  PriorHours = 2
  BetaHours = 3
  Tuning <- MCTuning
  Risk <- MCRisk
  Histories <- MCHistories
  Plans <- MCPlans
  Delays = {0, 1}
  TrainBars = 3
  TestBars = 3
  EmbargoBars = 1
  Costs <- MCCosts
  FeesFrom = 52
  FeesUntil = 80
  Capital = 40000
INVARIANTS DecisionsAreCausal LabelsPrecedeTest WeightsWithinMandate HoldIsBounded BooksBalance FundingPaidByHolder
CHECK_DEADLOCK FALSE
