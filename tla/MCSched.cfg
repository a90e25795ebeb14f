SPECIFICATION Spec
CONSTANTS
  select = select
  winread = winread
  dispwrite = dispwrite
  conn = conn
  status = status
  NullEv = NullEv
  Events <- MCEvents
  Fd <- MCFd
  Pri <- MCPri
  InitType <- MCInitType
  Conditional <- MCConditional
  Switchers <- MCSwitchers
  Usec = 1
  Delays = {1}
  MaxNow = 1
  MaxOps = 2
INVARIANTS ListsOrdered WalkOnQueued NoMissedEvent
PROPERTIES OnlyReadyDispatched
