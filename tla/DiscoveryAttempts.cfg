SPECIFICATION Spec
CONSTANTS
  None       = None
  Hosts      = {"a", "b"}
  OtherPaths = {"/x", "/y"}
  Webs      <- MCWebs
  Inputs    <- MCInputs
INVARIANT AttemptsNameEveryRequest
CHECK_DEADLOCK FALSE
