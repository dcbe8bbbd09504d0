SPECIFICATION Spec
CONSTANTS
  Agents = {a1, a2}
  Streams = {s1}
  Faults = {"redis", "retry", "loss", "crash", "drop", "late_ack"}
SYMMETRY Symmetry
INVARIANTS
  StreamInOrder
CHECK_DEADLOCK FALSE
