SPECIFICATION FairSpec
CONSTANTS
  Writer = {w1, w2}
  Reader = {r1}
  Killable = {w1, r1}
  NULL = NULL
  Byte = {a, b}
  PIPESIZE = 2
  Modulus = 4
  MaxCount = 2
INVARIANTS PipeInv SleepsForAReason
PROPERTIES IsByteStream CallsReturn
CHECK_DEADLOCK FALSE
