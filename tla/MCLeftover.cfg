SPECIFICATION Spec
CONSTANTS
  Funcs <- PairFuncs
  NoFunc = NoFunc
  Natives = {}
  Exiting = {}
  Entries = {"start", "pair"}
  Params <- PairParams
  Locals <- PairLocals
  Ret <- PairRet
  Table <- PairTable
  Globals = {"g"}
  Val = {0, 1}
  ValueCap = 3
  LabelCap = 4
  FrameCap = 4
  LocalCap = 5
  MaxHeight = 2
  MaxDepth = 2
  BrOut = FALSE
  LeftoverReturn = TRUE
INVARIANTS
  FrameOfCode
  LabelsOfBlocks
  LocalsOfFrames
  OperandsAvailable
