\* Three executions share a key with a call for another request.
SPECIFICATION FairSpec
CONSTANTS
  c1 = c1  c2 = c2  c3 = c3  c4 = c4  k1 = k1  r1 = r1  r2 = r2
  Calls = {c1, c2, c3, c4}
  Keys = {k1}
  Requests = {r1, r2}
  None = None
  KeyOf <- OneKey
  RequestOf <- Misused
CHECK_DEADLOCK FALSE
INVARIANTS
  IInv
  CallersAgree
  ConflictIsReal
PROPERTIES
  ImplementsRegister
  CallsReturn
