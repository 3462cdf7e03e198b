CONSTANTS
  Listener = L
  Clients = {c1, c2}
  Null = Null
  SndBuf = 1
  RecvMax = 1
  MaxFds = 2
  MaxAnswer = 2
  MaxRequests = 2
  Overlap = FALSE
SPECIFICATION Spec
INVARIANTS
  OwnAnswersOnly
CHECK_DEADLOCK FALSE
