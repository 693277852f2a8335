\* Two steps of different priority and budget, two connections, four
\* transactions and three events: scans that order, skip and batch.
SPECIFICATION EventsSpec
CONSTANTS
  Steps <- TwoSteps
  Workers = {w1}
  Sessions = {c1, c2}
  Null = Null
  MaxAttempts <- OneThenTwo
  Priority <- LowFirst
  InitAvailable <- AllAvailable
  LeaseDuration = 1
  BackoffUnit = 1
  BatchLimit = 2
  MaxNow = 1
  MaxXid = 4
  MaxId = 3
SYMMETRY Symmetry
INVARIANT
  ClaimUpdateFindsItsRow
  IdsFollowTransitions
  WaitersHoldNothing
PROPERTIES
  FeedsTheStream
  ImplementsQueue
