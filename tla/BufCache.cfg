SPECIFICATION FairSpec
CONSTANTS
  Proc = {p1, p2}
  Buf = {b1, b2}
  Block = {k1, k2, k3}
  NULL = NULL
  NUMs = {5, 6}
  MaxPinned = 1
  Changing = {k1}
INVARIANTS DriverInv CacheCoherent NoForgottenSleeper
PROPERTY TransfersEnd
