SPECIFICATION Spec
CONSTANTS
  c1 = c1
  c2 = c2
  c3 = c3
  None = None
  Conns <- MCThree
  Fds = {5, 6, 7}
  ReadMax = 2
  WriteMax = 2
  SndBuf = 1
  Backlog = 1
  PollMax = 4
  MaxSend = 2
  MemoryMayFail = FALSE
  Attentive <- MCOne
SYMMETRY MCSymmetry
CHECK_DEADLOCK FALSE
INVARIANTS
  Complete
  NoneDeaf
PROPERTIES
  IsBroadcast
  LastWordsHeard
