SPECIFICATION FairSpec
CONSTANTS
  Op = {o1, o2}
  Block = {b1, b2, b3}
  Val = {0, 1}
  Zero = 0
  NULL = NULL
  LOGSIZE = 4
  MAXOPBLOCKS = 2
  nlog = 4
  OpWrites = 1
INVARIANTS LogInv NoLogPanic
PROPERTIES AtomicCommit SleepersWoken
