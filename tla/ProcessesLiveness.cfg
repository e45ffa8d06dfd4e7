SPECIFICATION LivenessFairSpec
CONSTANTS
  Parts = {"worker", "scheduler", "lock", "ledger file", "content", "pages"}
  j1 = j1
  j2 = j2
  primary = primary
  WorkerId = {primary}
  WorkerOf <- OneWorker
  Priority <- RankedJobs
  Job = {j1}
  Instance = {a, b}
  AutomaticRetries = 1
  Budget = 1
  Usage = {1}
  Controls <- KillSwitchOnly
  LeaseDuration = 1
  WorkerLease = 1
  InitialBackoff = 1
  MaxBackoff = 1
  RecoveryLimit = 1
  MaxLag = 1
  MaxToken = 5
  MaxStops = 1
  SingleProcess = TRUE
  skip = skip
  catch = catch
  once = once
  a = a
  s1 = s1
  s2 = s2
  b = b
  r1 = r1
  r2 = r2
  r3 = r3
  p1 = p1
  p2 = p2
  p3 = p3
  p4 = p4
  q1 = q1
  q2 = q2
  q3 = q3
  Schedule = {catch}
  Scheduler = {s1, s2}
  BatchLimit = 1
  MaxQueueDepth = 1
  MaxSchedulerStops = 1
  Gap <- Gaps
  CatchUp <- Catching
  FirstRun = 1
  SchedulerLease = 1
  Window = 2
  MaxOthers = 1
  MaxLate = 2
  MaxReadLag = 1
  MaxSchedulerToken = 2
  Process = {p1, p2, p3}
  MaxCrashes = 1
  CrashesInRecovery = TRUE
  ModelRequest = {r1, r2}
  Mission <- Missions
  Estimate <- Estimates
  Limit <- Limits
  Cost = {1, 2}
  AcceptLimit = 2
  DayLength = 2
  ApprovalWindow = 1
  Horizon = 2
  MaxFaults = 1
  Pid = {q1, q2}
  LockAttempts = 2
  MaxDeaths = 1
  MaxAged = 1
  d1 = d1
  d2 = d2
  w1 = w1
  w2 = w2
  ContentJob = {d1}
  ContentWorker = {w1, w2}
  MaxJobAttempts = 2
  MaxWorkerCrashes = 2
  g1 = g1
  Page = {g1}
  ConnectionLimit = 1
  EventBatch = 1
  MaxReplay = 1
  MaxBuffer = 2
  RetainNewest = 2
  LastEventNumber = 2
  MaxStreamFaults = 1
  t1 = t1
  t2 = t2
  t3 = t3
  m1 = m1
  m2 = m2
  Txn = {t1}
  Branch = {m1, m2}
  Runner = {q1, q2}
  RunnerOf <- Runners
  MaxRunnerFaults = 0
PROPERTIES
  ClaimsEnd
  CancellationTakesEffect
  OccurrencesAreExact
  DueIsHandled
  LocksComeBack
  ContentJobsEnd
  PagesCatchUp
