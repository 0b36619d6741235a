CONSTANTS
  KeyIds = {"id1", "id2"}
  ReadFaults = FALSE
  MaxRuns = 5
SPECIFICATION SignSpec
CHECK_DEADLOCK FALSE
INVARIANTS
  MintIsIdempotent
