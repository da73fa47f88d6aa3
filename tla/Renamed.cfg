SPECIFICATION Spec
CONSTANTS
  Files <- RenamedFiles
  Wanted <- RenamedWanted
  Called = {}
  TableSize = 2
  MemSize = 3
  MaxMade = 3
  Resets = FALSE
INVARIANTS
  InstantiatedOnce
