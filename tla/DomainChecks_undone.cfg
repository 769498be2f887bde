SPECIFICATION DomSpec
CONSTANTS
  Sweeper = {s1, s2}
  RecheckAfter = 1
  LapseAfter = 3
  MinVerified = 1
  MaxRun = 1
  SlowWrites = TRUE
  MaxDocFails = 1
PROPERTY ThreeDaysWithoutProof
CHECK_DEADLOCK FALSE
