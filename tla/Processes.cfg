SPECIFICATION ProcessesSpec
CONSTANTS
  Parts = {"scheduler", "lock", "paid calls", "ledger file", "transactions"}
  skip = skip
  catch = catch
  once = once
  s1 = s1
  s2 = s2
  r1 = r1
  r2 = r2
  r3 = r3
  p1 = p1
  p2 = p2
  p3 = p3
  p4 = p4
  q1 = q1
  q2 = q2
  q3 = q3
  Schedule = {skip, catch, once}
  Scheduler = {s1}
  BatchLimit = 2
  MaxQueueDepth = 2
  MaxSchedulerStops = 0
  Gap <- Gaps
  CatchUp <- Catching
  FirstRun = 1
  SchedulerLease = 1
  Window = 2
  MaxOthers = 1
  MaxLate = 3
  MaxReadLag = 1
  MaxSchedulerToken = 2
  Process = {p1, p2, p3, p4}
  MaxCrashes = 2
  CrashesInRecovery = FALSE
  ModelRequest = {r1, r2, r3}
  Mission <- Missions
  Estimate <- Estimates
  Limit <- Limits
  Cost = {1, 2}
  AcceptLimit = 2
  DayLength = 1
  ApprovalWindow = 0
  Horizon = 1
  MaxFaults = 1
  Pid = {q1, q2, q3}
  LockAttempts = 2
  MaxDeaths = 2
  MaxAged = 1
  t1 = t1
  t2 = t2
  t3 = t3
  m1 = m1
  m2 = m2
  Txn = {t1, t2, t3}
  Branch = {m1, m2}
  Runner = {q1, q2}
  RunnerOf <- Runners
  MaxRunnerFaults = 2
INVARIANTS
  ProcessesTypeOK
  HolderIsPublished
  BudgetsHold
  ReservationsAreSound
  LedgerIsKept
PROPERTIES
  CatchesUp
  QueueBounded
  TransactionsAreAtomic
