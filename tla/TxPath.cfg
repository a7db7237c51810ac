CONSTANTS
  Num = 2
  IdxMod = 4
  FifoDepth = 1
  HeapBlocks = 1
  Timeouts = TRUE
  Senders = {s1, s2}
  NoOne = NoOne
  NoToken = NoToken
SPECIFICATION TxSpec
INVARIANTS SendersKeepApart
PROPERTIES
  BlockedSenderIsReleased
CHECK_DEADLOCK FALSE
