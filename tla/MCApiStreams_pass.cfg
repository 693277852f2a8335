\* Three streams, opening, failing, disconnecting and being shut down.
SPECIFICATION FairSpec
CONSTANT Clients = {c1, c2, c3}
CHECK_DEADLOCK FALSE
INVARIANT
  RegisteredStreamsArePolling
PROPERTY
  ShutdownCompletesOnceAborted
