CONSTANTS
  Listener = L
  Clients = {c1, c2}
  Null = Null
  SndBuf = 1
  RecvMax = 1
  MaxFds = 2
  MaxAnswer = 2
  MaxRequests = 2
  Overlap = TRUE
SPECIFICATION FairSpec
INVARIANTS
  TypeOK
  AssertsHold
  NeverStranded
  LeftoversInFront
PROPERTIES
  DoublesOnce
  RefinesAnswerQueue
  RequestsAnswered
  DeparturesNoticed
CHECK_DEADLOCK FALSE
