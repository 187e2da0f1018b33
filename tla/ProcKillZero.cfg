SPECIFICATION Spec
CONSTANTS
  Proc = {p0, p1, p2}
  initproc = p0
  NULL = NULL
  NCPU = 1
  MaxPid = 3
  KillPids = {0}
INVARIANT FreeSlotClean
