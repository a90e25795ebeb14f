SPECIFICATION Spec
CONSTANTS
  owner = owner
  ann = ann
  bob = bob
  Names = {owner, ann, bob}
  Owner = owner
  Screenrc <- MCScreenrc
  Nobody = Nobody
  NobodyCmds = {}
  NoUser = NoUser
  NoWin = NoWin
  Freed = Freed
  Unknown = Unknown
  Windows = {w1}
  w1 = w1
  Displays = {d1, d2}
  d2 = d2
  d1 = d1
  Cmds = {"aclchg"}
  Bits = {"exec", "write"}
  Maskers = {owner}
  Masked = {ann, Unknown}
  Links <- MCLinks
  DefLocks = {"auto"}
  Remotes = {bob}
  USER_CHUNK = 3
  MaxIds = 6
  MaxCommands = 2
INVARIANTS UsersSound
PROPERTIES LockToWriters OwnRights
SYMMETRY Interchangeable
CHECK_DEADLOCK FALSE
