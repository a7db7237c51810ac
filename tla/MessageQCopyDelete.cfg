CONSTANTS
  Readers = {r1}
  Senders = {s1}
  Swi = swi
  Objects = {o1}
  Blocks = {b1, b2}
  Data = {d1}
  NULL = NULL
  MaxObjects = 2
  MaxReserved = 0
  RxBuffers = 1
  MaxPosts = 1
  SMP = FALSE
  QuiescentDelete = FALSE
SPECIFICATION Spec
INVARIANTS NoUseAfterDelete
