CONSTANTS
  u1 = u1
  noUser = noUser
  mine = mine
  other = other
  Ids = {1}
  Links = {1, 2}
  Users <- MCUsers
  NoUser = noUser
  Labels <- MCLabels
  Requests <- MCOneChannel
  Removals = {1}
  MyLabel = mine
  ListLimit = 2
  Taggable = {1}
  Contents = {"text", "nodata"}
  Faults = {"join", "list", "giveup", "lookup", "store", "publish"}
  MaxClock = 3
  MaxQueue = 2
  MaxCreating = 1
  MaxCrashes = 0
SPECIFICATION FairSpec
PROPERTIES
  KnownTextHandedOn
  LastReachesStore
  TaggedRemoved
CHECK_DEADLOCK FALSE
