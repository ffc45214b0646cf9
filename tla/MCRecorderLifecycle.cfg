SPECIFICATION Spec
CONSTANTS
  WakeTicks = {2, 6}
  OpenTicks = 4
  CloseTicks = 2
  MaxChanges = 1000
VIEW View
INVARIANTS TypeOK OneRecorder StartHasHandlers RecordsSoon StopsSoon
PROPERTY FailureHasFault
CONSTRAINT FewRetries
