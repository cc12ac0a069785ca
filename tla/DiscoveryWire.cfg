SPECIFICATION Spec
CONSTANTS
  None       = None
  Hosts      = {"a", "b"}
  OtherPaths = {"/x", "/y"}
  Webs      <- MCWebs
  Inputs    <- MCInputs
INVARIANT WireRequestedOnce
CHECK_DEADLOCK FALSE
