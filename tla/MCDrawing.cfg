CONSTANTS
  Wide <- None
  Right = "right"
  Blank = " "
  Standout = {"A", "B", "=", "M"}
  Setups <- MCSetups
  Starts0 <- MCStarts
  Operations <- MCOperations
  MaxEvents = 2
SPECIFICATION Spec
INVARIANTS Shown Believed
PROPERTIES CursorShown
CHECK_DEADLOCK FALSE
