\* Two nested conditionals and a solver that may give up on any call.
CONSTANTS
  Valuation <- mcValuation
  ByteModulus = 4
  base_address = 0
  cMem_size = 2
  h1 = h1
  h2 = h2
  h3 = h3
  h4 = h4
  h5 = h5
  Handle = {h1, h2, h3, h4, h5}
  Freed = Freed
  NoHandle = NoHandle
  HeapStart = 1
  Esp = 1
  Eax = 0
  InitDepth = 1
  DepthModulus = 4
  SatLimited = TRUE
  Condition <- mcCondition
  Stores <- mcOneStore
  Moves = {}
  MallocSizes <- mcMallocSizes
  Pops = {1}
  Unwritten = Unwritten
  GivenUp = GivenUp
  MaxOps = 4
  MaxFrames = 2
\* Nothing in the fairness or the property tells handles apart, and since ops
\* only grows no behaviour has a cycle that symmetry could hide.
SYMMETRY HandleSymmetry
SPECIFICATION FairSpec
INVARIANTS OneOwner ErrorsOnlyWhereLost
PROPERTIES RunsConcretely BranchesComplete
CHECK_DEADLOCK FALSE
