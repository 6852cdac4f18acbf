SPECIFICATION Spec
CONSTANTS
  Reader = shell
  Beats = {http}
  Sleeps = {nap}
  Capacity = 3
  KeyRoom = 2
  MaxDelay = 2
  MaxKeys = 3
INVARIANTS TypeOK QueueIsExact NoLostWakeup
PROPERTIES SleepersWake KeysAreRead InterruptsReturn
CHECK_DEADLOCK FALSE
