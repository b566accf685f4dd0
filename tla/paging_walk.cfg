SPECIFICATION Spec
CONSTANTS
  u1 = u1
  noUser = noUser
  mine = mine
  s1 = s1
  noSub = noSub
  all = all
  some = some
  n1 = n1
  n2 = n2
  anyLabel = anyLabel
  Ids = {1, 2, 3, 4}
  Links = {1, 2, 3, 4}
  Users <- MCUsers
  NoUser = noUser
  Labels <- MCLabels
  Requests <- MCRequests
  Filters <- MCFilters
  Limits = {0, 1, 2}
  Starts = {0, 4}
  Profile <- MCProfile
  Matches <- MCMatches
  NoSub = noSub
  AnyLabel = anyLabel
CHECK_DEADLOCK FALSE
INVARIANTS
  TypeOK
  NoSkip
  WalkComplete
PROPERTIES
  InOrder
  WalkEnds
