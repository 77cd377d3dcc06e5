CHECK_DEADLOCK FALSE
SPECIFICATION Spec
CONSTANTS
  Threads = {t1, t2}
  EntriesInPage = 4
  BufferSize = 2
  InitialLens = {0, 2}
  MaxPages = 4
INVARIANTS EmptyEntryIsBlank ReservedOnce PagesAreAllocated
PROPERTIES ReservationEnds
