CONSTANTS
  Value = {a, b}
  Index = {0, 1, 2}
  NULL = NULL
  Garbage = Garbage
  Width = 6
  FreesOnZero = TRUE
SPECIFICATION Spec
INVARIANT BlockAlive
CHECK_DEADLOCK FALSE
