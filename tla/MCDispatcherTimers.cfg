SPECIFICATION FairSpec
CONSTANTS
  NumThreads = 2
  DThread = 1
  PoolThreads <- MCPool
  MaxEvents = 1
  MaxTimers = 2
  Perpetual = 1
  Delays <- MCDelay
  ExpiresAfter = 1
  MaxAdvance = 2
  MaxLag = 1
INVARIANTS RefsExact
PROPERTIES StoppedNeverRuns EventuallyHandled TimersTakenUp
