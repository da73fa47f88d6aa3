SPECIFICATION Spec
CONSTANTS
  Funcs <- WideFuncs
  NoFunc = NoFunc
  Natives <- MCNatives
  Exiting <- MCExiting
  Entries <- WideEntries
  Params <- WideParams
  Locals <- WideLocals
  Ret <- WideRet
  Table <- MCTable
  Globals = {}
  Val = {0, 1}
  ValueCap = 6
  LabelCap = 4
  FrameCap = 4
  LocalCap = 5
  MaxHeight = 3
  MaxDepth = 2
  BrOut = FALSE
  LeftoverReturn = FALSE
INVARIANTS
  TypeInv
  FrameOfCode
  LabelsOfBlocks
  LocalsOfFrames
  OperandsExact
  StaysDefined
  SuccessIsClean
  StopsAreTraps
  FailureReported
PROPERTIES
  ReturnClears
  Refinement
