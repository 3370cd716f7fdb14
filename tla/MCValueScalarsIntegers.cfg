SPECIFICATION Spec
CONSTANTS
  Bits32 = 6
  Bits64 = 10
  DoubleBits = 8
  FloatBits = 4
  Fraction = 4
  SigDigits = 2
  MaxNegative = 1
  DecimalPoint = 44
  ValueSize = 16
  SizeOf <- Sizes
  GroupBits = 2
  IntBits = 7
  SizeBits = 10
  Texts <- Numerals
  Doubles <- SomeDoubles
  Lengths <- UpTo20
  MaxDigits = 1
  MaxDouble = 20
INVARIANTS
  IntegersReadBack
CHECK_DEADLOCK FALSE
