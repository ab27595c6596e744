CONSTANTS
  Reader = {r1, r2, r3, r4}
  NoReader = NoReader
  NBuffers = 2
  MaxRing = 2
  MaxEofs = 2
  MaxCount = 5
SPECIFICATION SafeSpec
INVARIANT TypeOK
INVARIANT BuffersInOnePlace
INVARIANT ReceivesOwnData
INVARIANT CopyInBounds
SYMMETRY Symmetry
CHECK_DEADLOCK FALSE
