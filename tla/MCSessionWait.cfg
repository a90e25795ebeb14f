SPECIFICATION FairSpec
CONSTANTS
  a1 = a1
  a2 = a2
  Attachers = {a1, a2}
  Kinds <- DetachKinds
  Ttys <- OwnTty
  Passwords = {}
  AutoDetach = TRUE
  Guests = {}
  MaxReturns = 0
PROPERTIES DetachReturns
CHECK_DEADLOCK FALSE
