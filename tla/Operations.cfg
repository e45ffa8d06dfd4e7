SPECIFICATION OperationsSpec
CONSTANTS
  Parts = {"worker", "operator"}
  j1 = j1
  j2 = j2
  a = a
  b = b
  primary = primary
  Job = {j1}
  Instance = {a, b}
  WorkerId = {primary}
  WorkerOf <- OneWorker
  Priority <- RankedJobs
  AutomaticRetries = 1
  Budget = 1
  Usage = {1}
  Controls <- KillSwitchOnly
  LeaseDuration = 2
  WorkerLease = 2
  InitialBackoff = 1
  MaxBackoff = 1
  RecoveryLimit = 1
  MaxLag = 1
  MaxToken = 2
  MaxStops = 1
  SingleProcess = FALSE
  k1 = k1
  k2 = k2
  l1 = l1
  Key = {k1, k2}
  Plan = {l1}
  MaxControlVersion = 2
  MaxSwitches = 2
  MaxRenewals = 1
SYMMETRY NameSymmetry
INVARIANTS
  OperationsTypeOK
  JobsAreSound
  OneClaimHolder
  OpenPlansFollowControl
  ConfirmationsAreSound
PROPERTIES
  ClaimEndsByHolderOrExpiry
  ImplementsLifecycle
  PublicationIsControlled
