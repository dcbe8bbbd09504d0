\* A failing call whose text is longer than 1000 characters.
SPECIFICATION Spec
CONSTANTS
  Keys = {k1, u1}
  Known = {k1}
  MaxFindings = 1
  MaxBatch = 1
  MaxHits = 1
  Tokens <- Powers
  OverlongSets = {{"error"}}
INVARIANTS
  AgentsDegrade
CHECK_DEADLOCK FALSE
