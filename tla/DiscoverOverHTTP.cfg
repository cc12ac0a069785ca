SPECIFICATION FairSpec
CONSTANTS
  None         = None
  Hosts        = {"a", "b"}
  OtherPaths   = {"/x", "/y"}
  MaxRedirects = 2
  MaxBody      = 1
  Starts       = {}
  Sites        = {}
  Inputs      <- MCInputs
  Networks    <- MCNetworks
INVARIANTS
  TypeOK
  FoundIsServed
PROPERTIES
  ImplementsDiscovery
CHECK_DEADLOCK FALSE
