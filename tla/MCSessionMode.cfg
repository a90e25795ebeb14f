SPECIFICATION Spec
CONSTANTS
  a1 = a1
  a2 = a2
  Attachers = {a1, a2}
  Kinds <- ResumeKinds
  Ttys <- OwnTty
  Passwords = {a1, a2}
  AutoDetach = TRUE
  Guests = {}
  MaxReturns = 1
INVARIANTS SocketModeHonest
CHECK_DEADLOCK FALSE
