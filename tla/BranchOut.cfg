SPECIFICATION Spec
CONSTANTS
  Funcs <- MCFuncs
  NoFunc = NoFunc
  Natives <- MCNatives
  Exiting <- MCExiting
  Entries <- MCEntries
  Params <- MCParams
  Locals <- MCLocals
  Ret <- MCRet
  Table <- MCTable
  Globals = {}
  Val = {0, 1}
  ValueCap = 20
  LabelCap = 4
  FrameCap = 4
  LocalCap = 4
  MaxHeight = 2
  MaxDepth = 2
  BrOut = TRUE
  LeftoverReturn = FALSE
INVARIANTS
  StopsAreTraps
