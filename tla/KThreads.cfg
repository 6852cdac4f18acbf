CONSTANTS
  MaxThread = 5
SPECIFICATION ThreadsSpec
INVARIANTS
  ThreadsTypeOK
  TableMatchesCpu
  NoPanic
PROPERTIES
  RunnableRuns
