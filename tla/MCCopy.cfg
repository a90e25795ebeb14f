SPECIFICATION Spec
CONSTANTS
  Wide <- NoWide
  Right = "right"
  Blank = " "
  Letters = {"a", "b"}
  Width = 4
  Height = 2
  Hist = 2
  Texts <- Narrow
  Cursors <- MCCursors
  Started <- MCStarted
  Chunks <- MCChunks
  Digits <- MCDigits
  MaxChunks = 2
CHECK_DEADLOCK FALSE
INVARIANTS ScreenExact FindsNearest
PROPERTIES CopiedIsHighlighted MotionsByWord
