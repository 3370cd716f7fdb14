SPECIFICATION Spec
CONSTANTS
  Configs <- OneConfig
  Alphabet <- SomeBytes
  Given <- UnfinishedTexts
  KeepsFeeding <- AfterErrors
  MaxChunk = 2
  Rets = {"SUCCESS"}
  MaxLen = 6
INVARIANTS
  AcceptsOnlyDocuments
CHECK_DEADLOCK FALSE
