SPECIFICATION HookSpec
CONSTANTS
  Delivery = {d1}
  MaxAttempts = 2
  DisableAfter = 2
  MaxCrashes = 0
  MaxUndos = 1
INVARIANT HeldUntilRestored
CHECK_DEADLOCK FALSE
