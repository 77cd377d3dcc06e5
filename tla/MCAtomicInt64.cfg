CHECK_DEADLOCK FALSE
SPECIFICATION FairSpec
CONSTANTS
  Threads = {t1, t2}
  Width = 4
  Initial <- MCInitial
  Requests <- MCRequests
  MaxCalls = 3
  OVERFLOW = OVERFLOW
  ZERO_DIV = ZERO_DIV
  RAISED = RAISED
  CRASH = CRASH
  NULL = NULL
INVARIANTS BehavesLikeInt
PROPERTIES CallsReturn
