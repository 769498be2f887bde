SPECIFICATION JobsSpec
CONSTANTS
  Sweeper = {s1, s2}
  RecheckAfter = 2
  LapseAfter = 2
  MinVerified = 1
  MaxRun = 1
  SlowWrites = FALSE
  MaxDocFails = 1
  Delivery = {d1, d2}
  MaxAttempts = 2
  DisableAfter = 2
  MaxCrashes = 1
  MaxUndos = 1
INVARIANTS
  OnlyStraysWait
PROPERTIES
  LapsesAfterThreeDays
  UnprovedDomainsLapse
  VerifiedAllThatTime
  NothingSentWhileTakenDown
  EveryDeliverySettles
CHECK_DEADLOCK FALSE
