CONSTANTS
  p1 = p1
  p2 = p2
  o1 = o1
  o2 = o2
  o3 = o3
  Players = {p1}
  Objects <- TwoSessions
  Owner <- OwnedByOne
  Pool = {t1}
  Async = TRUE
  DbFails = TRUE
  MaxVersion = 1
  MaxSchedules = 2
SPECIFICATION FairSpec
INVARIANTS NoUseAfterFree NoSaveLost
PROPERTY EventuallySaved
CHECK_DEADLOCK FALSE
