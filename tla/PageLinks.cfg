SPECIFICATION FairSpec
CONSTANTS
  OtherWords = {"x", "y"}
  Absent     = Absent
  Pages     <- MCPages
INVARIANTS
  TypeOK
  LinksAsWritten
  HeadAsRead
PROPERTIES
  Terminates
CHECK_DEADLOCK FALSE
