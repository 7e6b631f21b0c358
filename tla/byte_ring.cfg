SPECIFICATION RingFairSpec
CONSTANTS
  Cap = 4
  Wrap = 8
  Chunk = 3
  Byte = {0, 1}
  Zero = 0
  Messages <- SmallMessages
INVARIANT RingTypeOK
INVARIANT NoOverlap
PROPERTY FifoImplemented
PROPERTY RingDrains
