SPECIFICATION Spec
CONSTANTS
  Agents = {a1, a2}
  Streams = {s1}
  Faults = {"late_ack"}
INVARIANT NoEventLost
CHECK_DEADLOCK FALSE
