CONSTANTS
  u1 = u1
  noUser = noUser
  mine = mine
  other = other
  Ids = {1, 2}
  Links = {1, 2}
  Users <- MCUsers
  NoUser = noUser
  Labels <- MCLabels
  Requests <- MCReuse
  Removals = {1, 2}
  MyLabel = mine
  ListLimit = 2
  Taggable = {}
  Contents = {"text"}
  Faults = {"store", "publish"}
  MaxClock = 3
  MaxQueue = 2
  MaxCreating = 2
  MaxCrashes = 0
SPECIFICATION Spec
INVARIANTS
  TypeOK
  OneRecordPerKey
  EventsOfOneRegistration
  LastAccounted
PROPERTIES
  DatesAdvance
CHECK_DEADLOCK FALSE
