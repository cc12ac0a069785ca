SPECIFICATION FairSpec
CONSTANTS
  Hosts        = {"a"}
  OtherPaths   = {"/x", "/y"}
  MaxRedirects = 2
  MaxBody      = 2
  Starts      <- MCStarts
  Sites       <- MCSites
INVARIANTS
  TypeOK
  RequestsAreBounded
  ResponseIsWhole
PROPERTIES
  ImplementsPromise
CHECK_DEADLOCK FALSE
