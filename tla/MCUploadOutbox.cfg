CONSTANTS
  t1 = t1
  t2 = t2
  Threads <- OneThread
  Kind = "JourneyLog"
  MaxQueue = 2
  TryLimit = 3
  MaxItems = 4
  MaxRestarts = 1
  MaxCommands = 1
SPECIFICATION Spec
PROPERTY AtLeastOnce
