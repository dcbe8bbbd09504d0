SPECIFICATION Spec
CONSTANTS
  Agents = {a1, a2, a3}
  Streams = {s1}
  Faults = {"redis", "retry", "loss", "crash", "drop"}
SYMMETRY Symmetry
INVARIANTS
  TypeOK
  RecordCoherent
  StreamAgreesWithStore
  StreamIsPrefix
  CompletedStreamIsComplete
  NoEventLost
  IInv
PROPERTIES
  StatusNeverRegresses
  ImplementsFeed
  ImplementsGraphRun
CHECK_DEADLOCK FALSE
