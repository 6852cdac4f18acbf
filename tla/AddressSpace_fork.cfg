SPECIFICATION Spec
CONSTANTS
  Frames = {f1, f2, f3, f4, f5}
  MaxPid = 3
INVARIANT WritableIsPrivate
CHECK_DEADLOCK FALSE
