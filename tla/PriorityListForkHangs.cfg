SPECIFICATION FairSpec
CONSTANTS
  Proc = {p1, p2}
  NULL = NULL
  MAXPRIORITY = 5
  UserinitPriority = 2
  OtherPriorities = {}
PROPERTY WalksEnd
