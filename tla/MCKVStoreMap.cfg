CONSTANTS
  Keys = {k1, k2, k3}
  Values = {v1, v2}
  MaxSize = 2
  Async = FALSE
  DbFails = TRUE
  Deleted = Deleted
  NoValue = NoValue
  NoReply = NoReply
SPECIFICATION Spec
SYMMETRY Symmetry
INVARIANTS LruExact CacheBounded
PROPERTY ImplementsMap
