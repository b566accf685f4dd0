CONSTANTS
  u1 = u1
  noUser = noUser
  mine = mine
  other = other
  Ids = {1}
  Links = {1, 2}
  Users <- MCUsers
  NoUser = noUser
  Labels <- MCLabels
  Requests <- MCOneChat
  Removals = {1, 2}
  MyLabel = mine
  ListLimit = 2
  Taggable = {1}
  Contents = {"text", "nobot", "nodata"}
  Faults = {"lookup", "join", "list", "giveup", "cursor", "store", "publish", "expel", "crash"}
  MaxClock = 3
  MaxQueue = 2
  MaxCreating = 1
  MaxCrashes = 1
SPECIFICATION Spec
INVARIANTS
  LockProtocol
PROPERTIES
  NoResurrection
  MemoryKept
  ImplementsFollowing
CHECK_DEADLOCK FALSE
