SPECIFICATION HandleSpec
CONSTANTS
  Person = {alice, bob}
  Handle = {h1, h2}
  NoHandle = nohandle
  Upsert = {u1, u2}
  PartlyRefused = FALSE
  MaxActions = 2
INVARIANTS
  OneProfilePerHandle
CHECK_DEADLOCK FALSE
