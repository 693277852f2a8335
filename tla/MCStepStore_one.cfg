\* One step, two workers and two connections: every interleaving of two
\* transactions on the same row, over two attempts and two lease lengths.
SPECIFICATION Spec
CONSTANTS
  Steps <- OneStep
  Workers = {w1, w2}
  Sessions = {c1, c2}
  Null = Null
  Attempts = 2
  MaxAttempts <- EqualAttempts
  Priority <- RisingPriority
  InitAvailable <- AllAvailable
  LeaseDuration = 2
  BackoffUnit = 1
  BatchLimit = 2
  MaxNow = 4
SYMMETRY Symmetry
INVARIANTS
  StoreInv
  HistoryExplainsRow
  BudgetNeverStrands
PROPERTIES
  LeaseBoundary
  ExpiryIsFinal
  GenerationsOnlyAdvance
