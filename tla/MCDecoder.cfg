SPECIFICATION Spec
CONSTANTS
  Files <- MCFiles
  Modules <- MCModules
  Garbage = {0, 11}
  Changing <- MCChanging
  NameWord = 110
  MaxParams = 2
  MaxList = 12
INVARIANTS
  DecoderTypeInv
  Faithful
  CodesEnded
  CodeDeclared
PROPERTY
  DecodingEnds
CHECK_DEADLOCK FALSE
