SPECIFICATION FairSpec
CONSTANTS
  Threads = {t1, t2, t3, t4}
  NoThread = NoThread
  MaxHolds = 2
INVARIANTS WriterIsAlone SleepersAreBlocked
PROPERTIES AcquireReturns
