CONSTANTS
  NumTransfers = 2
  MaxFrames = 2
SPECIFICATION Spec
INVARIANT EndsThreads
CHECK_DEADLOCK FALSE
