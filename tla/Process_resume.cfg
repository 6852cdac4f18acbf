CONSTANTS
  MaxPid = 2
  MaxSignal = 1
SPECIFICATION Spec
INVARIANTS
  ResumesAsLeft
CHECK_DEADLOCK FALSE
