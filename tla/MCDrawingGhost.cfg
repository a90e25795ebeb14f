CONSTANTS
  Wide <- None
  Right = "right"
  Blank = " "
  Standout = {"A", "B", "=", "M"}
  Setups <- GhostSetups
  Starts0 <- MCStarts
  Operations <- GhostOperations
  MaxEvents = 2
SPECIFICATION Spec
INVARIANT Shown
CHECK_DEADLOCK FALSE
