\* Liveness: one step, one worker id restarted at will.
SPECIFICATION FairSpec
CONSTANTS
  Steps = {s1}
  Workers = {w1}
  Null = Null
  Attempts = 2
  MaxAttempts <- EqualAttempts
  InitWait <- NoWait
  LeaseDuration = 2
  BackoffUnit = 1
  BatchLimit = 1
  MaxOrphans = 1
PROPERTIES
  EveryStepResolves
