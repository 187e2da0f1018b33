SPECIFICATION PartsSpec
CONSTANTS
  CPU = {c1, c2}
  Lock = {1, 2}
  NULL = NULL
  PhysPages = {13, 17, 22}
  FANOUT = 2
  PGSIZE = 2
  USERSTACK = 1
  Slots = {1, 2}
  Programs <- MCPrograms
  Grow <- MCGrow
  MaxPages = 5
  MaxArgs = 1
  NBLOCKS = 6
  BSIZE = 2
  NDIRECT = 2
  MAXOPBLOCKS = 6
  File = {f, g}
  Fd = {1, 2}
  Lengths = {3, 7}
  BadAt = {1, 3}
  ImageSizes = {0, 3, 8}
  MaxCalls = 3
  Header = 2
  MinCore = 3
  HeapLimit = 8
  Requests = {0, 1, 4}
  Lines <- MCLines
  MAXARGS = 3
  NPROC = 5
  Jobs <- MCJobs
  BufSize = 4
  MAX_ARG_LEN = 3
  Modulus = 256
  Sleeper = {p, q}
  Periods <- MCPeriods
  TickWidth = 5
  MaxLate = 2
INVARIANTS
  LocksSafe
  NoSelfDeadlock
  PushPopMatched
  MemoryInv
  BlocksInv
  ReadsBack
  HeapInv
  ParsesAsGrammar
  FunctionsAgree
  StreamsAgree
  SleepsInTime
PROPERTY ShellReturns
CHECK_DEADLOCK FALSE
