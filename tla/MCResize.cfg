CHECK_DEADLOCK FALSE
SPECIFICATION Spec
CONSTANTS
  Threads = {t1, t2, t3}
  Blocks = 2
  MaxGeneration = 3
  MaxCalls = 3
  CanFail = TRUE
  NULL = NULL
SYMMETRY Symmetry
CONSTRAINT LastCallSeesOneResize
INVARIANTS WritersAreLockedOut NoNodeIsLost AssertionsHold NoMutexIsLeaked NoDeadlock
PROPERTIES BlocksMigrateOnce
