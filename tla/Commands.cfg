SPECIFICATION CommandsSpec
CHECK_DEADLOCK FALSE
CONSTANTS
  Parts = {"reviews", "reports", "content", "worker", "calendar", "lifecycle", "telegram", "backups", "events"}
  j1 = j1
  j2 = j2
  a = a
  b = b
  primary = primary
  WorkerId = {primary}
  WorkerOf <- OneWorker
  Priority <- RankedJobs
  Job = {j1, j2}
  Instance = {a}
  AutomaticRetries = 1
  Budget = 1
  Usage = {2}
  Controls <- EitherStop
  LeaseDuration = 1
  WorkerLease = 1
  InitialBackoff = 1
  MaxBackoff = 1
  RecoveryLimit = 1
  MaxLag = 0
  MaxToken = 2
  MaxStops = 1
  SingleProcess = TRUE
  h1 = h1
  h2 = h2
  tg = tg
  cli = cli
  x1 = x1
  l1 = l1
  o1 = o1
  o2 = o2
  rep = rep
  n1 = n1
  Caller = {h1, h2, tg, cli, o1, o2, rep}
  Plan = {l1}
  MaxControlVersion = 1
  MaxSwitches = 0
  CenterCaller = {h1, h2}
  TelegramCaller = tg
  DirectCaller = cli
  CenterAction = {x1}
  DirectCommand <- Directs
  MaxManifests = 1
  MaxReviewStops = 1
  Operator = {o1, o2}
  Reporter = rep
  ControlId = {n1}
  MaxVersion = 2
  MaxReportStops = 1
  d1 = d1
  d2 = d2
  w1 = w1
  w2 = w2
  ContentJob = {d1, d2}
  ContentWorker = {w1, w2}
  MaxJobAttempts = 2
  MaxWorkerCrashes = 2
  SlotsPerDay = 48
  Winter = 2
  Summer = 4
  ChangeAt = 50
  SearchWindow = 12
  ClockTime <- ClockTimes
  CalendarHorizon = 102
  LifecycleJob = {j1, j2}
  MaxLifecycleAttempts = 2
  LastUpdate = 2
  PollLimit = 2
  MaxPollingRetries = 1
  ReceiptRetention = 1
  SessionRetention = 2
  MaxTelegramTime = 3
  MaxTelegramStops = 1
  v1 = v1
  v2 = v2
  Verifier = {v1, v2}
  Existing = 1
  LastBackup = 3
  MinimumRecent = 1
  MaxDeletions = 1
  MaxRetentionFaults = 2
  g1 = g1
  g2 = g2
  Page = {g1, g2}
  ConnectionLimit = 1
  EventBatch = 1
  MaxReplay = 2
  MaxBuffer = 3
  RetainNewest = 2
  LastEventNumber = 4
  MaxStreamFaults = 1
INVARIANTS
  CommandsTypeOK
  AnswersAreSound
  UpdatesAreSettled
  DatesResolve
  LifecycleSound
PROPERTIES
  ProductionsAreSound
  BackupsAreKept
  ControlsAreReplayed
  OccurrencesFollow
  UsageIsAccounted
  EventsFollow
