SPECIFICATION Spec
CONSTANTS
  Wide = {"w"}
  Right = "right"
  Blank = " "
  Unknown = "?"
  Marks = {"m", "n"}
  Singles <- MCSingles
  Doubles <- MCDoubles
  Chunks <- Seqs
  Start <- First
  Widths = {3}
  Heights = {3, 4}
  Histories = {2, 3}
  MaxArgs = 2
  MaxStr = 3
  MaxEvents = 2
CHECK_DEADLOCK FALSE
PROPERTIES CursorInSight
