CONSTANTS
  MAX_FRAME = 2
  FRAME_POOL_SZ = 2
  MaxStarts = 2
SPECIFICATION Spec
INVARIANT TypeOK
INVARIANT FramesAreKept
INVARIANT StopWakes
INVARIANT StopJoins
CHECK_DEADLOCK FALSE
