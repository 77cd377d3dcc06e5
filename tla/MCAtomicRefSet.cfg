CHECK_DEADLOCK FALSE
SPECIFICATION Spec
CONSTANTS
  Threads = {t1, t2}
  Objects = {a, b}
  Ops = {"get", "set", "cas", "swap"}
  MaxCalls = 4
  NULL = NULL
SYMMETRY Symmetry
INVARIANTS QuiescentRefcounts
