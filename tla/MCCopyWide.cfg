SPECIFICATION Spec
CONSTANTS
  Wide = {"w"}
  Right = "right"
  Blank = " "
  Letters = {"a", "b"}
  Width = 4
  Height = 2
  Hist = 2
  Texts <- WithWide
  Cursors <- MCCursors
  Started <- MCStarted
  Chunks <- MCChunks
  Digits <- MCDigits
  MaxChunks = 2
CHECK_DEADLOCK FALSE
INVARIANTS Highlighted
