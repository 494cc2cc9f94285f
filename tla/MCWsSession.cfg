SPECIFICATION FairSpec
CONSTANTS
  BUF_SIZE = 6
  GROW_MARGIN = 2
  SHRINK_THRESHOLD = 3
  ABSOLUTE_MAX = 12
  EXT16 = 1
  EXT64 = 2
  BYTE = 4
  Frames <- MCFrames
  MaxWire = 2
INVARIANTS BufferHolds PayloadReceived NoByteLost NeverIdle
PROPERTY FramesHandled
