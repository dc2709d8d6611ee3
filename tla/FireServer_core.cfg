SPECIFICATION Spec
CONSTANTS
  c1 = c1
  c2 = c2
  c3 = c3
  None = None
  Conns <- MCThree
  Fds = {5, 6}
  ReadMax = 1
  WriteMax = 2
  SndBuf = 1
  Backlog = 2
  PollMax = 2
  MaxSend = 2
  MemoryMayFail = TRUE
  Attentive <- MCOne
SYMMETRY MCSymmetry
CHECK_DEADLOCK FALSE
INVARIANTS
  FdOwnership
  ListIsLive
  EventsOfClients
  KernelAgrees
  EventsArmed
  CallbacksHaveWork
  InOrder
