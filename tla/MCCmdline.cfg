SPECIFICATION Spec
CONSTANTS
  Tokens <- AllTokens
  Options <- GeneralTable
  Lines <- GeneralLines
  Rets = {0, 7}
  MaxWords = 3
INVARIANTS
  TypeOK
  ArgContract
  PositionalsAfterDoubleDash
  NoWordLost
PROPERTIES
  AbortIsFinal
CHECK_DEADLOCK FALSE
