SPECIFICATION Spec
CONSTANTS
  Scalars <- SomeScalars
  Keys <- SomeKeys
  Policies = {"ABORT", "USEFIRST", "USELAST"}
  NestsUsed = FALSE
  InitialAlloc = 1
  MaxEvents = 8
  Bits32 = 6
  Bits64 = 10
  DoubleBits = 8
  FloatBits = 4
  Fraction = 4
  SigDigits = 2
  MaxNegative = 1
  DecimalPoint = 44
  TabsRun = 1
  SpacesRun = 3
  Formats <- SomeFormats
  Ordered = TRUE
  PathTexts <- SomePaths
  DumpedEvents = 8
INVARIANTS
  PathFollowsNesting
  BuildsDocument
  NothingLeaked
  PathsFind
  DumpReadsBack
CHECK_DEADLOCK FALSE
