\* Three increments of growth, with garbage in every slot malloc returns.
CONSTANTS
  Value = {a, b}
  Nil = Nil
  STACK_INCREASE_SIZE = 2
  MaxSize = 8
SPECIFICATION Spec
INVARIANTS TypeOK InBounds
PROPERTY IsLifo
CHECK_DEADLOCK FALSE
