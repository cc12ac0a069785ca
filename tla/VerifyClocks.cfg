SPECIFICATION Spec
CONSTANTS
  A = A  B = B  X = X
  k1 = k1  k2 = k2
  d1 = d1  d2 = d2
  DIDs      = {A, B}
  URIs      = {X}
  Fragments = {"key", "old"}
  Keys      = {k1, k2}
  Digests   = {d1, d2}
  Absent    = Absent
  Bad       = Bad
  Horizon   = 2
  Operators = {A}
  Documents    <- MCDocuments
  DIDDocuments <- MCDIDDocuments
INVARIANT NotYetValidNotAccepted
CHECK_DEADLOCK FALSE
