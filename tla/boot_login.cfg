SPECIFICATION Spec
CONSTANTS
  Operators = {o1, o2}
  Clients = {c1}
  Consuming = TRUE
  MaxFaults = 3
INVARIANTS
  TypeOK
  AcceptedWasAsked
  ServedWhenReady
PROPERTIES
  CallsEnd
  ComesUp
