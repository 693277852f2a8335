\* Two connections and four transactions: one that starts first and ends last.
SPECIFICATION EventsSpec
CONSTANTS
  Steps <- TwoSteps
  Workers = {w1}
  Sessions = {c1, c2}
  Null = Null
  MaxAttempts <- OneThenTwo
  Priority <- LowFirst
  InitAvailable <- AllAvailable
  LeaseDuration = 1
  BackoffUnit = 1
  BatchLimit = 2
  MaxNow = 1
  MaxXid = 4
  MaxId = 4
SYMMETRY Symmetry
INVARIANT
  StepOrdersAgree
