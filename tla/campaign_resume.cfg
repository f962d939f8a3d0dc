CONSTANTS
  c1 = c1
  c2 = c2
  d1 = d1
  d2 = d2
  Trials = {1, 2}
  MaxAttempts = 2
  Digests = {d1}
  NoDigest = NoDigest
  NoRun = NoRun
  Coordinators = {c1}
  WorkerCounts = {1, 2}
  MaxCommands = 2
  MaxReruns = 0
  MaxFaults = 1
  Nobody = Nobody

SPECIFICATION Spec

INVARIANT RunningIsExecuted

PROPERTY CampaignOutcome

CHECK_DEADLOCK FALSE
