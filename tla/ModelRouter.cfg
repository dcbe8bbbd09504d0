SPECIFICATION FairSpec
CONSTANTS
  Uses <- Reviews
  Retries <- OneRetry
  Names <- AllNames
  NamesOf <- DefaultNames
  Words <- WordsOf
  Priced = {"claude-sonnet-4-5", "gemini-2.5-flash"}
  Callers = {c1}
INVARIANTS
  TypeOK
  PreferenceKept
  CostGoesToAnswerer
PROPERTIES
  OneHealthyIsEnough
  Recovers
  CallsEnd
