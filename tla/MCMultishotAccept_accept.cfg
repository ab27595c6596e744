CONSTANTS
  c1 = c1
  c2 = c2
  c3 = c3
  NoConn = NoConn
  Conn <- ThreeConns
  Listener = {l1, l2}
  l1 = l1
  l2 = l2
  Dials <- DialsTwo
  Ending = {c1}
  NoListener = NoListener
  SqEntries = 6
  NWorkers = 2
  MainSlots = 2
  WorkerSlots = 1
SPECIFICATION Spec
INVARIANT TypeOK
INVARIANT NoAcceptForgotten
INVARIANT SentOnce
INVARIANT TaskFindsFd
PROPERTY SendsInTurn
PROPERTY AcceptsAreSent
CHECK_DEADLOCK FALSE
