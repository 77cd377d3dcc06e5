CHECK_DEADLOCK FALSE
SPECIFICATION FairSpec
CONSTANTS
  Threads = {t1, t2, t3}
  HasTtl = TRUE
  CanAbort = TRUE
  MaxCalls = 3
  NOT_FOUND = NOT_FOUND
  TOMBSTONE = TOMBSTONE
  NULL = NULL
INVARIANTS PublishSucceeds ReturnsFreshValue
PROPERTIES CallsReturn
