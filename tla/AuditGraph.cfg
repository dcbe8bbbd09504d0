\* Every mix of answers and failures; in some audits no text fits its field.
SPECIFICATION FairSpec
CONSTANTS
  Keys = {k1, k2, u1}
  Known = {k1, k2}
  MaxFindings = 2
  MaxBatch = 1
  MaxHits = 2
  Tokens <- Powers
  OverlongSets <- EveryOrNone
INVARIANTS
  TypeOK
  EveryFailureReported
  EveryCallCounted
  FindingsAreClaims
  ClaimsAreReported
  ReportAddsUp
PROPERTIES
  ReportIsProduced
  ImplementsGraphRun
\* The graph ends.
CHECK_DEADLOCK FALSE
