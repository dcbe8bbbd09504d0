SPECIFICATION Spec
CONSTANTS
  Names = {"src", "m.py", ".env"}
  Allowed = {"m.py", ".env"}
  Suffixed = {"m.py"}
  Inputs <- AllInputs
  MaxFileCount = 3
  MaxFileSize = 2
  MaxArchiveSize = 4
INVARIANTS
  FiledWhereItLeads
  AcceptedIffFine
\* Ingestion ends.
CHECK_DEADLOCK FALSE
