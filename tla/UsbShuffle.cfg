CONSTANTS
  Byte = {0, 1, 2}
  Length = 4
SPECIFICATION LoopSpec
INVARIANTS
  InBounds
  LoopMoves
CHECK_DEADLOCK FALSE
