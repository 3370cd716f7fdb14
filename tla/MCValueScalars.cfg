SPECIFICATION Spec
CONSTANTS
  Bits32 = 6
  Bits64 = 10
  DoubleBits = 8
  FloatBits = 4
  Fraction = 4
  SigDigits = 2
  MaxNegative = 1
  DecimalPoint = 44
  ValueSize = 16
  SizeOf <- Sizes
  GroupBits = 2
  IntBits = 7
  SizeBits = 10
  Texts <- Numerals
  Doubles <- SomeDoubles
  Lengths <- UpTo20
  MaxDigits = 4
  MaxDouble = 20000
INVARIANTS
  CompatibleKeepsNumber
  NumbersKept
  StringKept
  ReadsBack
CHECK_DEADLOCK FALSE
