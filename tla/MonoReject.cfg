CONSTANTS
  a = a
  b = b
  c = c
  Generics <- MCGenerics
  ROUNDS = 5
  MaxCalls = 1
  MaxMain = 2
  Horizon = 8
SYMMETRY MCSymmetry
SPECIFICATION Spec
CHECK_DEADLOCK FALSE
INVARIANT
  RejectsOnlyGrowing
