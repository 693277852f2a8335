\* One stream is enough for a disconnect nobody hears.
SPECIFICATION FairSpec
CONSTANT Clients = {c1}
CHECK_DEADLOCK FALSE
PROPERTY
  DisconnectStopsTheLoop
