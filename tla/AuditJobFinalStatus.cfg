SPECIFICATION FairSpec
CONSTANTS
  Agents = {a1, a2}
  Streams = {s1}
  Faults = {"redis"}
PROPERTY FinalStatusDelivered
CHECK_DEADLOCK FALSE
