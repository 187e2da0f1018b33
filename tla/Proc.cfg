SPECIFICATION FairSpec
CONSTANTS
  Proc = {p0, p1, p2}
  initproc = p0
  NULL = NULL
  NCPU = 2
  MaxPid = 3
  KillPids = {1, 2}
INVARIANTS ProcInv SlotsSound
PROPERTIES StackNotReused OrphansReaped
