SPECIFICATION Spec
CONSTANTS
  c1 = c1  c2 = c2
  Callers     = {c1, c2}
  Bounds     <- MCBounds
  Bodies      = {"x", "y"}
  Others      = {"m", "j"}
  Absent      = Absent
  Null        = Null
  Garbage     = Garbage
  Changed     = Changed
  Failed      = Failed
  MaxResponse = 2
  Servings   <- MCServings
  Additions  <- MCAdditions
INVARIANTS
  TypeOK
  SourceIsAsServed
  RawIsTheSource
  PayloadIsCurrent
  PayloadIsPublished
  SignatureSurvives
PROPERTIES
  CallersAreApart
CHECK_DEADLOCK FALSE
