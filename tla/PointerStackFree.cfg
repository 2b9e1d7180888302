\* What stack_free says of an empty stack.
CONSTANTS
  Value = {a, b}
  Nil = Nil
  Wild = Wild
  STACK_INCREASE_SIZE = 2
  MaxCells = 7
SPECIFICATION Spec
INVARIANT WarningIsTrue
CHECK_DEADLOCK FALSE
