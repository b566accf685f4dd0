SPECIFICATION Spec
CONSTANTS
  Retention = 19
  Interval = 2
  Gap = 2
  GiveUpAge = 3
  MaxFaults = 2
  MaxTime = 40
CHECK_DEADLOCK FALSE
INVARIANTS
  TypeOK
  LagBounded
  ActiveKept
