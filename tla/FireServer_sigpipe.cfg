SPECIFICATION Spec
CONSTANTS
  c1 = c1
  c2 = c2
  c3 = c3
  None = None
  Conns <- MCTwo
  Fds = {5, 6}
  ReadMax = 1
  WriteMax = 1
  SndBuf = 1
  Backlog = 1
  PollMax = 3
  MaxSend = 2
  MemoryMayFail = FALSE
  Attentive <- MCOne
CHECK_DEADLOCK FALSE
INVARIANTS
  ErrorOnlyDisconnects
