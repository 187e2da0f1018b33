\* With a second priority and failed forks exit() may run off a list, and
\* its CPU stays in panic(): the system may stop.
SPECIFICATION FairSpec
CONSTANTS
  Proc = {p1, p2, p3}
  NULL = NULL
  MAXPRIORITY = 5
  UserinitPriority = 2
  OtherPriorities = {0}
CHECK_DEADLOCK FALSE
INVARIANT ListsExact
PROPERTIES ExitFindsItself WalksEndUntilFailure
