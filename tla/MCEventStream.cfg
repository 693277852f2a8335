\* Two concurrent writers, four write transactions and three events of two
\* steps.  A client that pages, streams and reconnects; clients do not affect
\* each other, so one is enough.
SPECIFICATION FairSpec
CONSTANTS
  Writers = {t1, t2}
  Clients = {c1}
  Steps = {s1, s2}
  PageSize = 2
  MaxXid = 4
  MaxId = 3
INVARIANTS
  IInv
  NothingSkipped
PROPERTIES
  OneAscendingHistory
  EveryEventArrives
