SPECIFICATION Spec
CONSTANTS
  Files <- ResetFiles
  Wanted <- ResetWanted
  Called = {"f", "main"}
  TableSize = 2
  MemSize = 3
  MaxMade = 6
  Resets = TRUE
INVARIANTS
  ExportsLive
CHECK_DEADLOCK FALSE
