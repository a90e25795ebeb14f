SPECIFICATION Spec
CONSTANTS
  a1 = a1
  a2 = a2
  Attachers = {a1, a2}
  Kinds <- ResumeKinds
  Ttys <- OwnTty
  Passwords = {}
  AutoDetach = TRUE
  Guests = {}
  MaxReturns = 1
PROPERTIES ResumeOnlyDetached
CHECK_DEADLOCK FALSE
