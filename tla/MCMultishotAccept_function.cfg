CONSTANTS
  c1 = c1
  c2 = c2
  c3 = c3
  NoConn = NoConn
  Conn <- TwoConns
  Listener = {l1}
  l1 = l1
  l2 = l2
  Dials <- DialsOne
  Ending = {c1}
  NoListener = NoListener
  SqEntries = 128
  NWorkers = 2
  MainSlots = 2
  WorkerSlots = 2
SPECIFICATION SafeSpec
INVARIANT EveryConnectionGetsTask
CHECK_DEADLOCK FALSE
