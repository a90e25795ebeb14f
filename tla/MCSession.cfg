SPECIFICATION Spec
CONSTANTS
  a1 = a1
  a2 = a2
  Attachers = {a1, a2}
  Kinds <- MixedKinds
  Ttys <- OwnOrSharedTty
  Passwords = {}
  AutoDetach = TRUE
  Guests = {a1}
  MaxReturns = 1
INVARIANTS SocketModeHonest DisplaysSound NoOrphanAttacher
PROPERTIES DetachFirstAlone
CHECK_DEADLOCK FALSE
