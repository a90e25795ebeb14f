SPECIFICATION FairSpec
CONSTANTS
  a1 = a1
  a2 = a2
  Attachers = {a1, a2}
  Kinds <- LiveKinds
  Ttys <- OwnOrSharedTty
  Passwords = {a2}
  AutoDetach = FALSE
  Guests = {}
  MaxReturns = 0
PROPERTIES FlagsHonoured ServerReturns AttachAnswered
CHECK_DEADLOCK FALSE
