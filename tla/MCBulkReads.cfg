CHECK_DEADLOCK FALSE
SPECIFICATION BulkSpec
CONSTANTS
  Threads = {t1, t2}
  Readers = {r1, r2}
  NoReader = NoReader
  k1 = k1
  k2 = k2
  Keys = {k1, k2}
  Values = {v1}
  Size = 3
  EntriesInPage = 2
  Partitions = {1, 2}
  Distance0 <- MCDistance0
  Tag <- MCTag
  Hash <- MCHash
  EqCanRaise = TRUE
  MaxCalls = 2
  MaxReads = 2
  NULL = NULL
  NOT_FOUND = NOT_FOUND
  ANY = ANY
  EXPECTATION_FAILED = EXPECTATION_FAILED
  ERROR = ERROR
  MUST_GROW = MUST_GROW
SYMMETRY Symmetry
INVARIANTS LenIsCurrent ApproxLenIsClose IterationIsComplete BatchReadsAreCurrent
