CONSTANTS
  None = None
  Val = {1}
  MaxDepth = 4
  MaxTurns = 1
  Depths <- LoopReturns
SPECIFICATION Spec
CHECK_DEADLOCK FALSE
PROPERTY AgreeAlways
