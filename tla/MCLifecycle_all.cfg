CONSTANTS
  Worker = {w1, w2}
  Main = Main
  MaxOps = 2
SPECIFICATION Spec
INVARIANT TypeOK
INVARIANT AllRegistered
INVARIANT QuitFindsStop
INVARIANT MainRingOutlivesWorkers
INVARIANT BatchReadsPosted
PROPERTY ShutdownEnds
CHECK_DEADLOCK FALSE
