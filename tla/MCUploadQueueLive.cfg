CONSTANTS
  t1 = t1
  t2 = t2
  Threads <- TwoThreads
  Kind = "Status"
  MaxQueue = 1
  TryLimit = 1
  MaxItems = 1
  MaxRestarts = 1
  MaxCommands = 1
SPECIFICATION OnlineSpec
PROPERTY Drains
PROPERTY FlagIsReleased
