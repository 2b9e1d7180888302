\* Two sizes, one the table of stacks must grow for.
CONSTANTS
  Sizes = {1, 3}
  NUM_VECS_TO_CREATE = 2
  REALLOC_DELTA = 2
  InitialStacks = 2
  MaxVectors = 6
SPECIFICATION Spec
INVARIANTS TypeOK EachVectorOnce LeakReportIsExact
CHECK_DEADLOCK FALSE
