SPECIFICATION WorkflowSpec
CHECK_DEADLOCK FALSE
CONSTANTS
  a = a
  b = b
  i1 = i1
  i2 = i2
  c1 = c1
  c2 = c2
  Step = {a, b}
  Definition <- Definitions
  ApprovalRequired = {a}
  GuardianRequired = {}
  Invocation = {i1, i2}
  Caller = {c1, c2}
  MaxAttempts = {1, 2}
  MaxVersion = 5
  MaxEvidence = 2
SYMMETRY NameSymmetry
PROPERTIES
  ResumedAtReservedVersion
