SPECIFICATION SSpec
CONSTANTS
  Requests = {r1, r2}
  Limit = 1
  Window = 4
  Second = 2
  MaxDelay = 1
  MaxTime = 6
INVARIANTS
  STypeOK
  AuditsPerWindow
  AcceptedAndOnlyThen
PROPERTIES
  PromisesKept
CHECK_DEADLOCK FALSE
