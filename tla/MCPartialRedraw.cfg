CONSTANT
  MaxWidth = 3
SPECIFICATION FairSpec
INVARIANTS
  DamageIsWhole
  ScreenCurrent
PROPERTIES
  PresentShowsAll
  OutdatedIsRedrawn
