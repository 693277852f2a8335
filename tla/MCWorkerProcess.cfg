\* A pool smaller than its users, and up to four faults.
SPECIFICATION FairSpec
CONSTANTS
  MaxConns = 2
  MaxFaults = 4
INVARIANTS
  IInv
  HeartbeatOutlivesWork
  PoolEndsLast
  RejectionIsReported
PROPERTIES
  StopIsHeeded
  EvidenceStaysFresh
