SPECIFICATION Spec
CONSTANTS
  u1 = u1
  noUser = noUser
  noLabel = noLabel
  c1 = c1
  s1 = s1
  NoReg = NoReg
  Ids = {1, 2, 3, 4, 5}
  Links = {1, 2}
  Users <- MCUsers
  NoUser = noUser
  Labels <- MCLabels
  Callers <- MCCallers
  Searcher = s1
  Requests <- MCRequests
  Found <- MCFound
  Limits = {1, 5}
  MaxCalls = 4
CHECK_DEADLOCK FALSE
INVARIANTS
  TypeOK
  SuccessStoresAll
PROPERTIES
  ReadsFresh
