CONSTANTS
  Projects <- MCProjects
  Spellings <- MCSpellings
  Root <- MCRoot
SPECIFICATION Spec
CHECK_DEADLOCK FALSE
INVARIANTS
  TypeOK
  DepthBounded
  NothingTwice
  NothingMissed
  ImportsComeFirst
  OnlyChecked
PROPERTY Ends
