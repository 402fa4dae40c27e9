CONSTANTS
  HeaderSize = 2
  Bytes = {0, 1}
  Batch = 2
  MaxSends = 4
  MaxBytes = 4
SPECIFICATION Spec
INVARIANTS
  FramesAreTheStream
  WireInOrder
PROPERTIES
  NothingLostOnClose
  SessionEnds
CHECK_DEADLOCK FALSE
