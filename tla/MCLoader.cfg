SPECIFICATION Spec
CONSTANTS
  Files <- GoodFiles
  Wanted <- GoodWanted
  Called = {"f", "main", "table"}
  TableSize = 2
  MemSize = 3
  MaxMade = 7
  Resets = FALSE
INVARIANTS
  LoaderTypeInv
  Defined
  IndexNames
  ExportsLive
  TablesLive
  LinkedByName
  StoreReplays
  InstantiatedOnce
PROPERTIES
  LoadsEnd
