CONSTANTS
  created = created
  updated = updated
  e1 = e1
  e2 = e2
  e3 = e3
  e4 = e4
  e5 = e5
  i1 = i1
  i2 = i2
  i3 = i3
  n1 = n1
  n2 = n2
  Consumers <- MCConsumers
  Events = {e1, e2, e3, e4, e5}
  Backlog <- MCBacklog
  Interests = {i1, i2, i3}
  InterestOf <- MCInterestOf
  Public = {e1, e2, e3, e4}
  Names = {n1, n2}
  NameOf <- MCNameOf
  BatchSize = 2
  Faults = {}
  MaxChats = 7
  MaxCrashes = 1
SPECIFICATION FairSpec
INVARIANTS
  TypeOK
  FewOrphans
PROPERTIES
  PublicServed
CHECK_DEADLOCK FALSE
