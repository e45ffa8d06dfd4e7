SPECIFICATION WorkflowAdminSpec
CHECK_DEADLOCK FALSE
CONSTANTS
  Parts = {"workflow", "admin"}
  a = a
  b = b
  i1 = i1
  i2 = i2
  c1 = c1
  c2 = c2
  Step = {a, b}
  Definition <- Definitions
  ApprovalRequired = {a}
  GuardianRequired = {b}
  Invocation = {i1, i2}
  Caller = {c1, c2}
  MaxAttempts = {1, 2}
  MaxVersion = 5
  MaxEvidence = 2
  Request = {c1, c2}
  Setting <- Settings
  Ttl <- Lifetimes
  MaxLag = 1
  Horizon = 2
  MaxTokens = 2
  MaxFlows = 2
  MaxReceipts = 1
  MaxCounter = 1
SYMMETRY NameSymmetry
INVARIANTS
  WorkflowAdminTypeOK
  StepsAreSound
  CeremoniesAreOneUse
PROPERTIES
  ReservedUnderControls
  LateAnswersChangeNothing
  SessionsEndForGood
