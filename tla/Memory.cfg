\* One- and two-byte words in either byte order, one and two forks deep.
CONSTANTS
  Valuation <- mcValuation
  ByteModulus = 3
  AddressModulus = 2
  Condition <- mcCondition
  Vectors <- mcVectors
  Words <- mcWords
  LoadSizes = {2}
  NULL = NULL
  Gone = Gone
  Nothing = Nothing
  MaxNodes = 10
  MaxOps = 4
  MaxFrames = 2
SPECIFICATION Spec
INVARIANTS NodesAreThoseInUse StoresAreNotShared
PROPERTIES BehavesAsArrays WritesAreReported
CHECK_DEADLOCK FALSE
