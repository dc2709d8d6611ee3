SPECIFICATION FairSpec
CONSTANTS
  c1 = c1
  c2 = c2
  c3 = c3
  None = None
  Conns <- MCTwo
  Fds = {5, 6}
  ReadMax = 1
  WriteMax = 1
  SndBuf = 1
  Backlog = 2
  PollMax = 3
  MaxSend = 3
  MemoryMayFail = FALSE
  Attentive <- MCOne
CHECK_DEADLOCK FALSE
PROPERTIES
  SentIsRead
  GoneIsFreed
  QueuedIsAccepted
  AttentiveHear
