SPECIFICATION FairSpec
CONSTANTS
  c1 = c1
  c2 = c2
  c3 = c3
  None = None
  Conns <- MCThree
  Attentive <- MCOne
  RecvMax = 1
  Window = 1
  Backlog = 1
  Limits <- MCLimits
  MaxSay = 2
CHECK_DEADLOCK FALSE
INVARIANTS
  OnlyLastIsHeld
  DiesOnlyWhenFull
PROPERTIES
  SlowHarmsNobody
