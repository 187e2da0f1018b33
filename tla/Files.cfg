SPECIFICATION FairSpec
CONSTANTS
  Proc = {p1, p2}
  NULL = NULL
  Name = {"a", "b"}
  NINODES = 3
  NFILE = 3
  NOFILE = 2
  Calls <- FlatCalls
  MaxCalls = 3
  Dirs = {"a"}
INVARIANTS FilesInv LinksExact
PROPERTY CallsReturn
CHECK_DEADLOCK FALSE
