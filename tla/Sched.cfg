SPECIFICATION FairSpec
CONSTANTS
  Proc = {p1, p2}
  CPU = {c1, c2}
  NULL = NULL
INVARIANTS ThreadsSafe NoMissedWakeup
PROPERTY SleepersWake
