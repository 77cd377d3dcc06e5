CHECK_DEADLOCK FALSE
SPECIFICATION FairSpec
CONSTANTS
  t1 = t1
  t2 = t2
  a = a
  b = b
  Threads = {t1, t2, t3}
  Keys = {a, b}
  Aggregates = {"sum", "count", "and", "or", "max", "min", "list"}
  Iterable <- MCIterable
  CanRaise = TRUE
  MaxDeletes = 2
  NOT_FOUND = NOT_FOUND
INVARIANTS MatchesBuiltin
PROPERTIES ReduceReturns
