SPECIFICATION FairSpec
CONSTANTS
  j1 = j1
  j2 = j2
  a = a
  b = b
  primary = primary
  WorkerId = {primary}
  WorkerOf <- OneWorker
  Priority <- RankedJobs
  Job = {j1}
  Instance = {a, b}
  AutomaticRetries = 0
  Budget = 1
  Usage = {1}
  Controls <- KillSwitchOnly
  LeaseDuration = 2
  WorkerLease = 1
  InitialBackoff = 1
  MaxBackoff = 1
  RecoveryLimit = 1
  MaxLag = 0
  MaxToken = 2
  MaxStops = 2
  SingleProcess = FALSE
PROPERTIES
  SupersededNeverCommits
