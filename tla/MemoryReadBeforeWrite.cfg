\* What a load of a merged memory says of bytes that were never stored.
CONSTANTS
  Valuation <- mcValuation
  ByteModulus = 3
  AddressModulus = 2
  Condition <- mcCondition
  Vectors <- mcVectors
  Words <- mcOneWord
  LoadSizes = {1}
  NULL = NULL
  Gone = Gone
  Nothing = Nothing
  MaxNodes = 10
  MaxOps = 4
  MaxFrames = 2
SPECIFICATION Spec
PROPERTY WrittenToIsExact
CHECK_DEADLOCK FALSE
