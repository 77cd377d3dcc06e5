CHECK_DEADLOCK FALSE
SPECIFICATION FairSpec
CONSTANTS
  Threads = {t1, t2}
  Blocks = 2
  MaxGeneration = 2
  MaxCalls = 2
  CanFail = TRUE
  NULL = NULL
PROPERTIES CallsReturn
