SPECIFICATION FairSpec
CONSTANTS
  c1 = c1
  c2 = c2
  c3 = c3
  server = server
  Conns <- MCThree
  RecvMax = 1
  Window = 1
  Backlog = 1
  Limits <- MCLimits
  MaxSay = 1
CHECK_DEADLOCK FALSE
INVARIANTS
  ListIsOpen
  OneMissPerRemoval
  EndsOnlyIf
PROPERTIES
  SaidIsReceived
