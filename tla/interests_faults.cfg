CONSTANTS
  created = created
  updated = updated
  e1 = e1
  e2 = e2
  e3 = e3
  e4 = e4
  e5 = e5
  i1 = i1
  i2 = i2
  i3 = i3
  n1 = n1
  n2 = n2
  Consumers <- MCConsumers
  Events = {e1, e2, e3, e4, e5}
  Backlog <- MCShortBacklog
  Interests = {i1, i2, i3}
  InterestOf <- MCInterestOf
  Public = {e1, e2, e3}
  Names = {n1, n2}
  NameOf <- MCNameOf
  BatchSize = 2
  Faults = {"search", "create", "username", "logo", "admin", "start", "ack"}
  MaxChats = 3
  MaxCrashes = 1
SPECIFICATION FairSpec
INVARIANTS
  AckedHandled
PROPERTIES
  ImplementsRegistry
  QueuesDrain
CHECK_DEADLOCK FALSE
