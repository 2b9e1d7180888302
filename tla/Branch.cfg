\* Two nested conditionals, an unlimited solver, every kind of store.
CONSTANTS
  Valuation <- mcValuation
  ByteModulus = 4
  base_address = 0
  cMem_size = 2
  h1 = h1
  h2 = h2
  h3 = h3
  h4 = h4
  h5 = h5
  Handle = {h1, h2, h3, h4, h5}
  Freed = Freed
  NoHandle = NoHandle
  HeapStart = 1
  Esp = 1
  Eax = 0
  InitDepth = 1
  DepthModulus = 4
  SatLimited = FALSE
  Condition <- mcConditionConst
  Stores <- mcStores
  Moves <- mcMoves
  MallocSizes <- mcMallocSizes
  Pops = {1}
  Unwritten = Unwritten
  GivenUp = GivenUp
  MaxOps = 4
  MaxFrames = 2
SYMMETRY HandleSymmetry
SPECIFICATION Spec
INVARIANTS TypeOK OneOwner StacksBalanced NothingLost
PROPERTY RunsConcretely
CHECK_DEADLOCK FALSE
