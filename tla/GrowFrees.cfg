SPECIFICATION Spec
CONSTANTS
  U32Size = 16
  PageSize = 2
  MaxLen = 8
  Min = 1
  HasMax = FALSE
  DeclMax = 0
  Byte = {0, 1}
  Garbage = Garbage
  Grows <- AllGrows
  Offsets = {0, 3, 15}
  Widths = {1, 2}
PROPERTIES
  RefusedGrowKeeps
