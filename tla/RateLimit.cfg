SPECIFICATION Spec
CONSTANTS
  Requests = {r1, r2, r3, r4}
  Limit = 2
  Window = 4
  Second = 2
  MaxDelay = 1
  MaxTime = 7
SYMMETRY Symmetry
INVARIANTS
  TypeOK
  SlidingWindow
  AdmittedStillCount
  RetryAfterAccurate
PROPERTIES
  NoneTurnedAwayEarly
CHECK_DEADLOCK FALSE
