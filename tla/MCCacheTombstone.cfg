CHECK_DEADLOCK FALSE
SPECIFICATION Spec
CONSTANTS
  Threads = {t1, t2, t3}
  HasTtl = TRUE
  CanAbort = FALSE
  MaxCalls = 4
  NOT_FOUND = NOT_FOUND
  TOMBSTONE = TOMBSTONE
  NULL = NULL
INVARIANTS ReturnsCachedValue
