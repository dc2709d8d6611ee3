SPECIFICATION FairSpec
CONSTANTS
  s1 = s1
  s2 = s2
  s3 = s3
  Sessions <- MCThree
  Block = 1
  MaxMove = 1
  MaxLog = 2
CHECK_DEADLOCK FALSE
INVARIANTS
  EchoesMultiply
PROPERTIES
  EndsOnTime
