SPECIFICATION FairSpec
CONSTANTS
  Junk = Junk
  ReadMax = 1
  MsgMax = 2
  CmdMax = 1
  MaxArrive = 4
  MaxType = 2
CHECK_DEADLOCK FALSE
INVARIANTS
  PrintsHeads
  EndsHavingReadAll
PROPERTIES
  AllIsRead
  EndsWithServer
