CONSTANTS
  t1 = t1
  t2 = t2
  Threads <- TwoThreads
  Kind = "Blob"
  MaxQueue = 1
  TryLimit = 1
  MaxItems = 2
  MaxRestarts = 1
  MaxCommands = 1
SPECIFICATION Spec
SYMMETRY ThreadSymmetry
INVARIANT TypeOK
INVARIANT FlagHasOwner
INVARIANT RetryBudget
INVARIANT QueueIsNewest
INVARIANT SavedIsRun
