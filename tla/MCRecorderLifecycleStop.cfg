SPECIFICATION Spec
CONSTANTS
  WakeTicks = {2, 6}
  OpenTicks = 4
  CloseTicks = 2
  MaxChanges = 1
PROPERTY SafeStop
