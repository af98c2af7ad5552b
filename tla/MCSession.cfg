CONSTANTS
  p1 = p1
  p2 = p2
  o1 = o1
  o2 = o2
  o3 = o3
  Players = {p1, p2}
  Objects = {o1, o2, o3}
  Owner <- OwnedByTwo
  Clients = {c1, c2}
  Premium = {p1}
  Privileged = {}
  MaxPlayers = 1
  MaxDrift = 1
  MayIdle = {p1}
  IdleLimit = 1
SPECIFICATION FairSpec
INVARIANTS ClientHoldsPlayer PlacesDiffer
PROPERTIES RoomForThoseAhead LoginAnswered NobodyLingers
CHECK_DEADLOCK FALSE
