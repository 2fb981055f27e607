CONSTANTS
  a1 = a1
  a2 = a2
  c1 = c1
  x = x
  y = y
  Null = Null
  Addr <- WithConstant
  Const <- MCConst
  Var = {x, y}
  Width = 1
  HazardSets = {{}}
  MaxDepth = 1
  MaxBlocks = 2
  MaxNames = 2
  MaxVals = 2
  MaxCount = 4
  MaxLost = 1
SPECIFICATION Spec
SYMMETRY Symmetry
CHECK_DEADLOCK FALSE
INVARIANTS
  Usable
PROPERTY HeapSpec
