SPECIFICATION Spec
CONSTANTS
  Byte = {0, 1}
  Counts <- FewCounts
  ItemSize = 2
  Garbage = Garbage
  MaxSize = 6
VIEW Store
INVARIANTS
  TypeOK
PROPERTIES
  IsString
CHECK_DEADLOCK FALSE
