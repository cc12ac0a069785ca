SPECIFICATION Spec
CONSTANTS
  a = a  b = b
  v1 = v1  w1 = w1  v2 = v2  draft = draft
  Identifiers = {a, b}
  NotURIs     = {b}
  Versions    = {v1, w1, v2, draft}
  Precedence <- MCPrecedence
  None        = None
  Bad         = Bad
  Documents  <- MCDocuments
  Limits      = {0, 1, 2}
INVARIANT SpecVersionIsNonNegative
CHECK_DEADLOCK FALSE
