SPECIFICATION Spec
CONSTANTS
  Funcs <- OutFuncs
  NoFunc = NoFunc
  Natives = {}
  Exiting = {}
  Entries = {"main"}
  Params <- OutParams
  Locals <- OutLocals
  Ret <- OutRet
  Table <- OutTable
  Globals = {}
  Val = {0, 1}
  ValueCap = 2
  LabelCap = 4
  FrameCap = 4
  LocalCap = 5
  MaxHeight = 2
  MaxDepth = 2
  BrOut = TRUE
  LeftoverReturn = TRUE
INVARIANTS
  StacksInBounds
  DummyBelow
