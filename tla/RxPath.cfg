CONSTANTS
  Num = 2
  IdxMod = 4
  FifoDepth = 1
  HeapBlocks = 1
  Timeouts = TRUE
  Senders = {s1}
  NoOne = NoOne
  NoToken = NoToken
SPECIFICATION RxSpec
INVARIANTS BuffersAreOwned
PROPERTIES
  ImplementsVring
  BuffersKeepMoving
CHECK_DEADLOCK FALSE
