CHECK_DEADLOCK FALSE
SPECIFICATION Spec
CONSTANTS
  Threads = {t1}
  EntriesInPage = 4
  BufferSize = 2
  InitialLens = {1}
  MaxPages = 2
INVARIANTS EmptyEntryIsBlank
