CONSTANTS
  None = None
  Val = {1}
  MaxDepth = 4
  MaxTurns = 1
  Depths <- BothKinds
SPECIFICATION Spec
CHECK_DEADLOCK FALSE
INVARIANTS
  TypeOK
  ScopesBalanced
  JumpsFirst
PROPERTY Agree
