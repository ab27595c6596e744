CONSTANTS
  Worker = {w1, w2}
  Main = Main
  MaxOps = 0
SPECIFICATION Spec
PROPERTY StartUpEnds
CHECK_DEADLOCK FALSE
