CONSTANTS
  Bits = 4
  MaxInt = 7
  Fragments <- MCFragments
SPECIFICATION Spec
CHECK_DEADLOCK FALSE
INVARIANTS
  TypeOK
  MatchTakesEveryValue
  RefusedForCause
  OrderOfDeclarations
  ArmsAgree
  NumbersAgree
  TextAgrees
  MacrosAgree
  LiteralReadsBack
  ExpressionReadsBack
