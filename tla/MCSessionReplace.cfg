CONSTANTS
  p1 = p1
  p2 = p2
  o1 = o1
  o2 = o2
  o3 = o3
  Players = {p1}
  Objects = {o1, o2}
  Owner <- OwnedByOne
  Clients = {c1, c2, c3}
  Premium = {}
  Privileged = {}
  MaxPlayers = 1
  MaxDrift = 0
  MayIdle = {}
  IdleLimit = 0
SPECIFICATION Spec
INVARIANT OneClient
SYMMETRY Symmetry
CHECK_DEADLOCK FALSE
