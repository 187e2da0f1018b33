SPECIFICATION Spec
CONSTANTS
  Proc = {p1, p2}
  NULL = NULL
  Name = {"a", "b"}
  NINODES = 3
  NFILE = 1
  NOFILE = 2
  Calls <- FlatCalls
  MaxCalls = 3
  Dirs = {"a"}
INVARIANT UnusedIsFree
CHECK_DEADLOCK FALSE
