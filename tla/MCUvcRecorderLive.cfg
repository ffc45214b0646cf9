CONSTANTS
  Files = {f1, f2}
  Encoders = {e1, e2}
  None = None
  MaxInbox = 3
  MaxDetach = 0
SPECIFICATION FairSpec
 
PROPERTY NoOverwrite
CHECK_DEADLOCK FALSE
