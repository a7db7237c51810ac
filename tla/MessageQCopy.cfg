CONSTANTS
  Readers = {r1, r2}
  Senders = {s1}
  Swi = swi
  Objects = {o1, o2}
  Blocks = {b1, b2}
  Data = {d1}
  NULL = NULL
  MaxObjects = 2
  MaxReserved = 0
  RxBuffers = 1
  MaxPosts = 1
  SMP = TRUE
  QuiescentDelete = TRUE
SPECIFICATION Spec
SYMMETRY Symmetry
INVARIANTS TypeOK EveryBlockHasOnePlace NoNullPayload SlotsAreObjects HostIsTold
  NoUseAfterDelete
