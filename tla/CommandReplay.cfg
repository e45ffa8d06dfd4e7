SPECIFICATION ReviewSpec
CHECK_DEADLOCK FALSE
CONSTANTS
  h1 = h1
  h2 = h2
  tg = tg
  cli = cli
  x1 = x1
  l1 = l1
  Caller = {h1, tg, cli}
  Plan = {l1}
  MaxControlVersion = 1
  MaxSwitches = 0
  CenterCaller = {h1}
  TelegramCaller = tg
  DirectCaller = cli
  CenterAction = {x1}
  DirectCommand <- Directs
  MaxManifests = 1
  MaxReviewStops = 1
PROPERTIES
  AppliedIsReplayed
