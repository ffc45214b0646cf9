CONSTANTS
  NumTransfers = 2
  MaxFrames = 3
SPECIFICATION Spec
INVARIANT TypeOK
INVARIANT FreedIsIdle
INVARIANT OnlyGoodFrames
INVARIANT CloseIsFinal
PROPERTY KeepsContract
CHECK_DEADLOCK FALSE
