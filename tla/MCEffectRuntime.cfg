\* Two workers and the restarted processes of each compete for one step, of
\* any task, and leave a request behind.
SPECIFICATION EffectSpec
CONSTANTS
  Steps = {s1}
  Workers = {w1, w2}
  Null = Null
  Attempts = 2
  MaxAttempts <- EqualAttempts
  InitWait <- NoWait
  LeaseDuration = 1
  BackoffUnit = 1
  BatchLimit = 1
  MaxOrphans = 1
  Tasks <- SomeTasks
SYMMETRY Symmetry
INVARIANTS
  EffectIInv
  EachGenerationRunsOnce
  ExecutionsAgree
  SuccessIsEarned
  GivenUpForAReason
PROPERTIES
  ExecutorsUseARegister
  LeaseGrowsByItsGeneration
