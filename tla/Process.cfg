CONSTANTS
  MaxPid = 3
  MaxSignal = 1
SPECIFICATION Spec
INVARIANTS
  RunnableIsQueued
  NoLostWakeup
  ReportsAreExact
PROPERTIES
  ZombiesStayDead
  RunnableRuns
CHECK_DEADLOCK FALSE
