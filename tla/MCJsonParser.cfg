SPECIFICATION Spec
CONSTANTS
  Configs <- AllConfigs
  Alphabet <- SomeBytes
  Given <- SomeTexts
  KeepsFeeding <- AfterErrors
  MaxChunk = 2
  Rets = {"SUCCESS", "STOP"}
  MaxLen = 6
INVARIANTS
  PlacesRight
  ReadsDocuments
  StringsRepaired
PROPERTIES
  IsEventStream
  ErrorIsFinal
CHECK_DEADLOCK FALSE
