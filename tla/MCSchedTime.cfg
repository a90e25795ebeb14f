SPECIFICATION FairSpec
CONSTANTS
  select = select
  winread = winread
  dispwrite = dispwrite
  conn = conn
  status = status
  NullEv = NullEv
  Events <- TimeEvents
  Fd <- MCFd
  Pri <- MCPri
  InitType <- MCInitType
  Conditional <- Never
  Switchers <- MCSwitchers
  Usec = 3
  Delays = {1, 2}
  MaxNow = 4
  MaxOps = 2
INVARIANTS TimeoutsSound
PROPERTIES NeverEarly PassTerminates
