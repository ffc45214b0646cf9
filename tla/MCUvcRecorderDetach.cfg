CONSTANTS
  Files = {f1}
  Encoders = {e1, e2}
  None = None
  MaxInbox = 3
  MaxDetach = 2
SPECIFICATION Spec
INVARIANTS
  TypeOK
  MuxerHasCamera
  NoOrphan
  FramesGoToRecorder
  UiIsWoken
SYMMETRY Symmetry
VIEW View
CHECK_DEADLOCK FALSE
