CONSTANTS
  Orders = {"o1"}
  MaxIdentity = 2
  MaxIndex = 2
  MaxFaults = 1
SPECIFICATION Spec
CHECK_DEADLOCK FALSE
INVARIANT NewCountsFromZero
