SPECIFICATION Spec
CONSTANTS
  NumThreads = 2
  DThread = 1
  PoolThreads <- MCPool
  MaxEvents = 3
  MaxTimers = 0
  Perpetual = 0
  Delays <- MCDelay
  ExpiresAfter = 1
  MaxAdvance = 2
  MaxLag = 1
INVARIANTS TypeOK OneHome BatchOrder
