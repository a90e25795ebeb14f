SPECIFICATION Spec
CONSTANTS
  Wide = {"w"}
  Right = "right"
  Blank = " "
  Unknown = "?"
  Marks = {"m", "n"}
  Singles <- MCSingles
  Doubles <- OneDouble
  Chunks <- Seqs
  Start <- First
  Widths = {2}
  Heights = {2}
  Histories = {2}
  MaxArgs = 2
  MaxStr = 3
  MaxEvents = 3
CHECK_DEADLOCK FALSE
INVARIANTS HeadsKept
