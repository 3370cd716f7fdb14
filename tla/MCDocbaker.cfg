SPECIFICATION FairSpec
CONSTANTS
  Tokens <- AllTokens
  Lines <- SomeLines
  Entries <- SomeEntries
  Links <- SomeLinks
  Headers <- SomeHeaders
  MaxLinks = 1
  MaxWords = 3
INVARIANTS
  TypeOK
  OutputsJustified
  RejectedTouchesNothing
  OptionsInForce
  NoHeaderLost
  HandlesBalanced
PROPERTIES
  KeepsPromise
  Terminates
CHECK_DEADLOCK FALSE
