\* One step, of which the owner is stopped or killed.
SPECIFICATION DemoFairSpec
CONSTANTS
  a = a
  b = b
  Coord = k
  Probe = p
  Step = 1
  Null = Null
  Workers = {a, b}
  Steps = {1}
  Sessions <- AllSessions
  MaxAttempts <- ThreeAttempts
  Priority <- Zero
  InitAvailable <- Zero
  LeaseDuration = 2
  BackoffUnit = 1
  BatchLimit = 1
  MaxNow = 4
CHECK_DEADLOCK FALSE
INVARIANTS
  AssertionsHold
PROPERTIES
  StoppedOwnerIsSilent
  DemoEnds
