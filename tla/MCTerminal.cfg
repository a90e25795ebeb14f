SPECIFICATION Spec
CONSTANTS
  Wide = {"w"}
  Right = "right"
  Blank = " "
  Unknown = "?"
  Marks = {"m", "n"}
  Singles <- MCSingles
  Doubles <- MCDoubles
  Chunks <- Seqs
  Start <- First
  Widths = {2, 3}
  Heights = {2, 4}
  Histories = {2, 3}
  MaxArgs = 2
  MaxStr = 3
  MaxEvents = 3
CHECK_DEADLOCK FALSE
INVARIANTS CursorInside TableSound
PROPERTIES HalvesTogether ResizeKeepsText
