SPECIFICATION FairSpec
CONSTANTS
  None       = None
  Hosts      = {"a", "b"}
  OtherPaths = {"/x", "/y"}
  Webs      <- MCWebs
  Inputs    <- MCInputs
INVARIANTS
  TypeOK
  OnlyHTTPSRequested
  RequestedOnce
  CancelStopsRequests
  NotFoundIsThorough
  AttemptsAccountForRequests
PROPERTIES
  Terminates
  ImplementsProcedure
CHECK_DEADLOCK FALSE
