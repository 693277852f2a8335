\* One stream is enough to hold up the shutdown.
SPECIFICATION FairSpec
CONSTANT Clients = {c1}
CHECK_DEADLOCK FALSE
PROPERTY
  ShutdownCompletes
