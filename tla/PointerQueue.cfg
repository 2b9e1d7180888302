\* The ring wraps and grows twice; growth is possible at every position.
CONSTANTS
  Value = {a, b}
  Nil = Nil
  QUEUE_INCREASE_SIZE = 2
  MaxCells = 7
SPECIFICATION Spec
INVARIANT OneRing
PROPERTY IsFifo
CHECK_DEADLOCK FALSE
