CONSTANTS
  Key = {1, 2, 3, 4, 5, 6, 7, 8, 9, 10, 12}
  Rank <- NumberRank
  Uses <- TreeOrListKeys
  NULL = NULL
  Bits = 4
SPECIFICATION Spec
INVARIANTS
  TypeOK
  RedBlack
  Searchable
  SortedWalk
  OrderLinked
  PathFits
PROPERTIES
  IsDictionary
  EachCallKept
VIEW Shape
CHECK_DEADLOCK FALSE
