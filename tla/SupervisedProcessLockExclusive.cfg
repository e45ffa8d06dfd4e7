SPECIFICATION LockSpec
CONSTANTS
  p1 = p1
  p2 = p2
  p3 = p3
  p4 = p4
  Process = {p1, p2, p3}
  MaxCrashes = 1
  CrashesInRecovery = TRUE
SYMMETRY ProcessSymmetry
INVARIANTS
  Exclusive
