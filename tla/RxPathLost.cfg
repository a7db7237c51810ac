CONSTANTS
  Num = 2
  IdxMod = 4
  FifoDepth = 2
  HeapBlocks = 1
  Timeouts = FALSE
  Senders = {s1}
  NoOne = NoOne
  NoToken = NoToken
SPECIFICATION RxSpec
PROPERTIES OfferReachesReader
CHECK_DEADLOCK FALSE
