SPECIFICATION SendFairSpec
CONSTANTS
  c1 = c1
  c2 = c2
  None = None
  Conns <- MCPair
  Senders <- MCSender
  Fds = {5, 6}
  ReadMax = 2
  WriteMax = 2
  SndBuf = 2
  Backlog = 2
  PollMax = 3
  MaxSend = 5
  MemoryMayFail = FALSE
  Attentive <- MCNobody
CHECK_DEADLOCK FALSE
INVARIANTS
  LostOnlyToReset
PROPERTIES
  QuietSenderIsHeard
