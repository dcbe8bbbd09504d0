SPECIFICATION Spec
CONSTANTS
  FileSets <- AllFileSets
  MaxLine = 3
  MaxDecisions = 2
INVARIANTS
  HitsReported
  DecisionsHitTheirCandidate
\* The node ends.
CHECK_DEADLOCK FALSE
