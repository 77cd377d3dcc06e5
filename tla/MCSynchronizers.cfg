CHECK_DEADLOCK FALSE
SPECIFICATION FairSpec
CONSTANTS
  Threads = {t1, t2, t3}
  NoThread = NoThread
  NotSet = NotSet
  Counts = {0, 1, 2}
  Outcomes = {result, exception}
  MaxSpurious = 1
  MaxCalls = 1
INVARIANTS EventFollowsCount SameOutcomeForAll InitialisedOnce
PROPERTIES ImplementsEvent CallsReturn
