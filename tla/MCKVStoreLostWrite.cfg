CONSTANTS
  Keys = {k1, k2}
  Values = {v1, v2}
  MaxSize = 1
  Async = TRUE
  DbFails = FALSE
  Deleted = Deleted
  NoValue = NoValue
  NoReply = NoReply
SPECIFICATION Spec
SYMMETRY Symmetry
PROPERTY OnlyWritesChangeValues
