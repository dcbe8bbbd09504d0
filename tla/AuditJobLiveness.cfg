SPECIFICATION FairSpec
CONSTANTS
  Agents = {a1, a2}
  Streams = {s1}
  Faults = {"retry", "drop"}
PROPERTIES
  AuditFinishes
  StreamFinishes
CHECK_DEADLOCK FALSE
