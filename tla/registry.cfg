SPECIFICATION Spec
CONSTANTS
  None = None
  m1 = m1
  m2 = m2
  Manager <- MCManager
  Key <- MCKey
  Definition <- MCDefinition
  Commands <- MCCommands
  Trial <- MCTrial
  TrialKey <- MCTrialKey
  MemberKey <- MCMemberKey
  Parameters <- MCParameters
  Profile <- MCProfile
  Metrics <- MCMetrics
  CleanGit <- MCCleanGit
  ByHand <- MCByHand
  Reviewed <- MCReviewed
  MaxCommands = 2
  Times <- MCTimes
  Declarations <- MCDeclarations
  Deflated <- MCDeflated
  Lockbox = TRUE
  MaxEvents = 3
  MinProfitableFolds = 2
  Preregistered <- MCTrial
  RequiresCleanGit = TRUE
  MaxMonthConcentration = 50
  MaxSymbolConcentration = 50
  MinPositiveNeighbors = 50
SYMMETRY Symmetric
CHECK_DEADLOCK FALSE
INVARIANTS TypeOK ReadStageIsTrue
PROPERTIES RecordIsAppendOnly
