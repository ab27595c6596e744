CONSTANTS
  c1 = c1
  c2 = c2
  c3 = c3
  NoConn = NoConn
  Conn <- TwoConns
  NWorkers = 2
  MainSlots = 2
  WorkerSlots = 1
SPECIFICATION Spec
PROPERTY HandsOver
PROPERTY MainSlotReleased
CHECK_DEADLOCK FALSE
