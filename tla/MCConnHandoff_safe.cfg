CONSTANTS
  c1 = c1
  c2 = c2
  c3 = c3
  NoConn = NoConn
  Conn <- ThreeConns
  NWorkers = 1
  MainSlots = 2
  WorkerSlots = 2
SPECIFICATION SafeSpec
INVARIANT TypeOK
INVARIANT ServedOwnConnection
INVARIANT OwnedIsOpen
INVARIANT ClosesOwnSlot
INVARIANT DirectMapMatches
INVARIANT NoSlotLeaks
SYMMETRY Symmetry
CHECK_DEADLOCK FALSE
