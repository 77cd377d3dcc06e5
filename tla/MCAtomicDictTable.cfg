CHECK_DEADLOCK FALSE
SPECIFICATION Spec
CONSTANTS
  Threads = {t1, t2, t3}
  k1 = k1
  k2 = k2
  Keys = {k1, k2}
  Values = {v1}
  Size = 3
  Distance0 <- MCDistance0
  Tag <- MCTag
  Hash <- MCHash
  EqCanRaise = TRUE
  MaxCalls = 4
  NULL = NULL
  NOT_FOUND = NOT_FOUND
  ANY = ANY
  EXPECTATION_FAILED = EXPECTATION_FAILED
  ERROR = ERROR
  MUST_GROW = MUST_GROW
SYMMETRY Symmetry
INVARIANTS TypeOK ProbeInvariant OneLiveEntryPerKey TombstoneIsWritten SomeSlotIsEmpty
PROPERTIES PublishedEntriesAreStable Linearizable
