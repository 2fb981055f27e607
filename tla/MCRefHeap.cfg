CONSTANTS
  a1 = a1
  a2 = a2
  a3 = a3
  c1 = c1
  Null = Null
  Addr <- MCAddr
  Const <- MCConst
  Width = 2
  MaxExt = 2
SPECIFICATION FairSpec
INVARIANTS
  TypeOK
  CountExact
  NoDangling
  ConstantsStay
  NothingLeftBehind
PROPERTIES
  FreedUnowned
  ReleaseEnds
