SPECIFICATION Spec
CONSTANTS
  LastMsg = 3
  Blank = {3}
  MaxAttempts = 3
  MaxCopies = 3
  MaxCrashes = 1
CHECK_DEADLOCK FALSE
INVARIANTS
  TypeOK
  InboxOrder
  StoredFinished
  RepeatsHaveOneId
PROPERTIES
  DeliversEvents
  HandlerReturns
