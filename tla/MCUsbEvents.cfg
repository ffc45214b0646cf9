CONSTANTS
  Callers = {"caller1", "caller2"}
  MaxRequests = 4
SPECIFICATION Spec
INVARIANT TypeOK
INVARIANT ActiveIsLocked
INVARIANT NoSleepAlone
INVARIANT NoSleepWhenCompleted
PROPERTY SyncReturns
PROPERTY CloseReturns
CHECK_DEADLOCK FALSE
