SPECIFICATION Spec
CONSTANTS
  U32Size = 16
  PageSize = 2
  MaxLen = 8
  Min = 1
  HasMax = FALSE
  DeclMax = 4
  Byte = {0}
  Garbage = Garbage
  Grows <- AllGrows
  Offsets = {0, 15}
  Widths = {1, 2}
INVARIANTS
  SizesAgree
CHECK_DEADLOCK FALSE
