SPECIFICATION OutputSpec
CONSTANTS
  d1 = d1
  d2 = d2
  w1 = w1
  w2 = w2
  r1 = r1
  r2 = r2
  NoDisplay = NoDisplay
  Displays = {d1, d2}
  Windows = {w1}
  Readers = {r1, r2}
  Win <- OneWindow
  Pseudos = {r2}
  AutoNuke = {d2}
  Bells = {d1}
  Messages = {d2}
  Commands = {}
  GRAIN = 4
  OUTPUT_BLOCK_SIZE = 2
  Chunk = {2}
  RedrawLen = 2
  MsgLen = 1
  EraseLen = 2
  CursorLen = 0
  Limits <- OneLimit
  DefNonblock = "timeout"
  MaxUsed = 2
INVARIANTS BufferExact BufferSafe ConditionsSound BlockedComesBack
