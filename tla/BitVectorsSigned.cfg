CONSTANTS
  Valuation <- Vals
  WORD_BITS = 4
  BITS_IN_BYTE = 2
  INT_BITS = 6
  Reg <- Two
  InitialVectors <- Vectors
  MaxSize = 6
  MaxOps = 1
SPECIFICATION Spec
INVARIANT SignExtends
CHECK_DEADLOCK FALSE
