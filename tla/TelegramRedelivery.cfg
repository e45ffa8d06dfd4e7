SPECIFICATION TelegramSpec
CHECK_DEADLOCK FALSE
CONSTANTS
  LastUpdate = 1
  PollLimit = 1
  MaxPollingRetries = 1
  ReceiptRetention = 1
  SessionRetention = 2
  MaxTelegramTime = 2
  MaxTelegramStops = 1
INVARIANTS
  AnsweredOnce
