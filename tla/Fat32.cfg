SPECIFICATION Spec
CONSTANTS
  n1 = n1
  n2 = n2
  n3 = n3
  Names <- MCNames
  Shipped <- MCShipped
  Last = 5
  Slots = 2
  MaxClusters = 2
  MaxCreates = 4
INVARIANTS TypeOK NoCrossLinks ReadBack SpaceIsAccounted
CHECK_DEADLOCK FALSE
