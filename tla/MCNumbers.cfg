SPECIFICATION Spec
CONSTANTS
  W32 = 3
  W64 = 6
  Group = 4
  Stale = {0, 5}
  Masks = TRUE
  MaxHeight = 2
  BitAnd <- MachineAnd
  BitOr <- MachineOr
  BitXor <- MachineXor
INVARIANT NumbersTypeInv
PROPERTY Computes
