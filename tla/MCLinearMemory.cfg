SPECIFICATION Spec
CONSTANTS
  U32Size = 16
  PageSize = 2
  MaxLen = 8
  Min = 1
  HasMax = TRUE
  DeclMax = 4
  Byte = {0, 1}
  Garbage = Garbage
  Grows <- SmallGrows
  Offsets = {0, 3, 15}
  Widths = {1, 2}
INVARIANTS
  MemoryTypeInv
  SizesAgree
  BlockSafe
  MaxKept
PROPERTIES
  MemoryRefinement
