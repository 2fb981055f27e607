CONSTANTS
  a1 = a1
  a2 = a2
  c1 = c1
  x = x
  y = y
  Null = Null
  Addr <- HeapValues
  Const = {}
  Var = {x}
  Width = 1
  HazardSets = {{"break"}}
  MaxDepth = 1
  MaxBlocks = 3
  MaxNames = 3
  MaxVals = 2
  MaxCount = 4
  MaxLost = 1
SPECIFICATION Spec
SYMMETRY Symmetry
CHECK_DEADLOCK FALSE
INVARIANTS
  NothingUnowned
