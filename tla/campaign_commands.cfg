CONSTANTS
  c1 = c1
  c2 = c2
  d1 = d1
  d2 = d2
  Trials = {1}
  MaxAttempts = 2
  Digests = {d1}
  NoDigest = NoDigest
  NoRun = NoRun
  Coordinators = {c1, c2}
  WorkerCounts = {1, 2}
  MaxCommands = 2
  MaxReruns = 1
  MaxFaults = 2
  Nobody = Nobody

SPECIFICATION FairSpec

INVARIANTS
  SucceededIsPublished

PROPERTIES
  CampaignOutcome
  CampaignSettles

CHECK_DEADLOCK FALSE
