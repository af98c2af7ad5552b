SPECIFICATION FairSpec
CONSTANTS
  Lags = TRUE
  MaxMessages = 3
  MaxPackets = 3
INVARIANTS
  SingleWriter
  EncodedOnceInOrder
  BufferOwned
  NeverDeaf
  FlushedBeforeClose
PROPERTY CloseEnds
CHECK_DEADLOCK FALSE
