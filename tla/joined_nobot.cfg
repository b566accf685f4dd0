CONSTANTS
  u1 = u1
  noUser = noUser
  mine = mine
  other = other
  Ids = {1}
  Links = {1, 2}
  Users <- MCUsers
  NoUser = noUser
  Labels <- MCLabels
  Requests <- MCOneChannel
  Removals = {}
  MyLabel = mine
  ListLimit = 2
  Taggable = {1}
  Contents = {"text"}
  Faults = {}
  MaxClock = 3
  MaxQueue = 2
  MaxCreating = 1
  MaxCrashes = 0
SPECIFICATION Spec
PROPERTIES
  TaggedSilenced
CHECK_DEADLOCK FALSE
