CONSTANTS
  Value = {a, b, c, d, e, f}
  Index = {0, 1, 2, 3, 4, 5, 6, 7}
  NULL = NULL
  Garbage = Garbage
  Width = 6
  FreesOnZero = FALSE
SPECIFICATION Spec
INVARIANTS TypeOK EachOwnedOnce
PROPERTY IsList
SYMMETRY ValueSymmetry
CHECK_DEADLOCK FALSE
