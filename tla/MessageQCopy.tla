--------------------------- MODULE MessageQCopy ---------------------------
(***************************************************************************)
(* Local delivery in MessageQCopy (ipc/rpmsg/MessageQCopy.c): the table of *)
(* endpoints, the life of a MessageQCopy_Object, the fixed heap of message *)
(* blocks, the Swi that drains the vring the host fills, and any number of *)
(* tasks that send to, receive from, unblock and delete endpoints.         *)
(*                                                                         *)
(* A call is split where another context can get in between: a section     *)
(* under module.gateSwi is one step, and so is each of List_put, List_get, *)
(* HeapBuf_alloc, HeapBuf_free and Semaphore_post, which SYS/BIOS makes    *)
(* atomic.  The vring is the abstract one of Vring.tla (a FIFO of offered  *)
(* messages and a count of returned buffers), which VirtQueue.tla shows    *)
(* the code to implement.                                                  *)
(***************************************************************************)
EXTENDS Naturals, Sequences, FiniteSets, TLC

CONSTANTS
  Readers,          \* tasks that create an endpoint, receive on it, delete it
  Senders,          \* tasks that send to local endpoints
  Swi,              \* the Swi of transport.swiHandle
  Objects,          \* memory blocks for MessageQCopy_Objects
  Blocks,           \* the blocks of module.heap
  Data,             \* message payloads
  NULL,
  MaxObjects,       \* MAXMESSAGEQOBJECTS
  MaxReserved,      \* MessageQCopy_MAX_RESERVED_ENDPOINT
  RxBuffers,        \* buffers of the vring from the host
  MaxPosts,         \* bound: unblock is not called beyond this semaphore count
  SMP,              \* the SMP build: tasks run while the Swi runs
  QuiescentDelete   \* clients delete an endpoint only when nobody sends to it

Writers == Senders \cup {Swi}
Endpoints == 0 .. MaxObjects - 1

ASSUME MessageQCopyAssumption ==
  /\ Swi \notin Senders
  /\ IsFiniteSet(Senders)
  /\ NULL \notin Objects \cup Blocks /\ NULL \notin Seq(Data)
  /\ MaxObjects \in Nat \ {0}
  /\ MaxReserved \in Nat
  /\ MaxReserved < MaxObjects
  /\ RxBuffers \in Nat \ {0}
  /\ MaxPosts \in Nat
  /\ SMP \in BOOLEAN
  /\ QuiescentDelete \in BOOLEAN

VARIABLES
  msgqObjects,      \* module.msgqObjects: the object of each endpoint, or NULL
  phase,            \* of an object's memory: "free", "live", or "dying"
  queueId,          \* obj->queueId
  semCount,         \* the count of obj->semHandle
  queue,            \* obj->queue: messages [blk, data], oldest first
  unblocked,        \* obj->unblocked
  heap,             \* free blocks of module.heap
  rpc, handle,      \* where each reader is, and its MessageQCopy_Handle
  payload,          \* the block a reader has taken off its queue
  wpc, wobj, wmsg,  \* where each writer is in _send; its obj and payload
  unblocking,       \* objects whose unblock has set the flag and not posted
  swiPosted,        \* the Swi is posted and has not begun
  usedBufAdded,     \* local of swiFxn
  rxAvail,          \* messages the host has offered: [ep, data]
  rxUsed,           \* buffers returned and not collected by the host
  hostIrq           \* the kick of fromHost has reached the host

objVars == <<msgqObjects, phase, queueId, semCount, queue, unblocked>>
readerVars == <<rpc, handle, payload>>
writerVars == <<wpc, wobj, wmsg>>
rxVars == <<swiPosted, usedBufAdded, rxAvail, rxUsed, hostIrq>>
vars == <<objVars, heap, readerVars, writerVars, unblocking, rxVars>>

NoMsg == [blk |-> NULL, data |-> NULL]

Init ==
  /\ msgqObjects = [e \in Endpoints |-> NULL]
  /\ phase = [o \in Objects |-> "free"]
  /\ queueId = [o \in Objects |-> 0]
  /\ semCount = [o \in Objects |-> 0]
  /\ queue = [o \in Objects |-> <<>>]
  /\ unblocked = [o \in Objects |-> FALSE]
  /\ heap = Blocks
  /\ rpc = [r \in Readers |-> "closed"]
  /\ handle = [r \in Readers |-> NULL]
  /\ payload = [r \in Readers |-> NULL]
  /\ wpc = [w \in Writers |-> "idle"]
  /\ wobj = [w \in Writers |-> NULL]
  /\ wmsg = [w \in Writers |-> NoMsg]
  /\ unblocking = {}
  /\ swiPosted = FALSE
  /\ usedBufAdded = FALSE
  /\ rxAvail = <<>>
  /\ rxUsed = 0
  /\ hostIrq = FALSE

(* A Swi that is posted or running keeps every task off a single core.     *)
TasksRun == SMP \/ (wpc[Swi] = "idle" /\ ~swiPosted)

Dying(e) == msgqObjects[e] # NULL /\ phase[msgqObjects[e]] = "dying"

-----------------------------------------------------------------------------
(* MessageQCopy_create: the whole search and insertion is under the gate.  *)
FreeAbove(e0) == {e \in Endpoints : e > e0 /\ msgqObjects[e] = NULL}

\* (mutant) a reserved endpoint is handed out without a look at its slot.
AssignableUnseen(e) ==
  \/ e <= MaxReserved
  \/ e \in FreeAbove(MaxReserved) /\ \A x \in FreeAbove(MaxReserved) : e <= x

\* The endpoint asked for, or the first free one above the reserved range.
Assignable(e) ==
  \/ e <= MaxReserved /\ msgqObjects[e] = NULL
  \/ e \in FreeAbove(MaxReserved) /\ \A x \in FreeAbove(MaxReserved) : e <= x

Create(r, e, o) ==
  /\ TasksRun
  /\ rpc[r] = "closed"
  /\ Assignable(e)
  /\ phase[o] = "free"
  /\ phase' = [phase EXCEPT ![o] = "live"]
  /\ semCount' = [semCount EXCEPT ![o] = 0]
  /\ queue' = [queue EXCEPT ![o] = <<>>]
  /\ queueId' = [queueId EXCEPT ![o] = e]
  /\ msgqObjects' = [msgqObjects EXCEPT ![e] = o]
  /\ unblocked' = [unblocked EXCEPT ![o] = FALSE]
  /\ handle' = [handle EXCEPT ![r] = o]
  /\ rpc' = [rpc EXCEPT ![r] = "open"]
  /\ UNCHANGED <<heap, payload, writerVars, unblocking, rxVars>>

-----------------------------------------------------------------------------
(* MessageQCopy_recv *)

\* Swi_post, to look at the vring before blocking.
RecvCall(r) ==
  /\ TasksRun
  /\ rpc[r] = "open"
  /\ swiPosted' = TRUE
  /\ rpc' = [rpc EXCEPT ![r] = "pend"]
  /\ UNCHANGED <<objVars, heap, handle, payload, writerVars, unblocking,
                 usedBufAdded, rxAvail, rxUsed, hostIrq>>

PendWhen(r, ready) ==
  /\ TasksRun
  /\ rpc[r] = "pend"
  /\ ready
  /\ semCount' = [semCount EXCEPT ![handle[r]] = @ - 1]
  /\ rpc' = [rpc EXCEPT ![r] = "check"]
  /\ UNCHANGED <<msgqObjects, phase, queueId, queue, unblocked, heap, handle,
                 payload, writerVars, unblocking, rxVars>>

\* (mutant) the result of a pend that timed out is ignored.
RecvPendUnchecked(r) == PendWhen(r, TRUE)

\* Semaphore_pend returns TRUE ...
RecvPend(r) == PendWhen(r, semCount[handle[r]] > 0)

\* ... or FALSE, after the timeout: MessageQCopy_E_TIMEOUT.
RecvTimeout(r) ==
  /\ TasksRun
  /\ rpc[r] = "pend"
  /\ semCount[handle[r]] = 0
  /\ rpc' = [rpc EXCEPT ![r] = "open"]
  /\ UNCHANGED <<objVars, heap, handle, payload, writerVars, unblocking, rxVars>>

\* MessageQCopy_E_UNBLOCKED; "a queue may not be used after" that.
RecvUnblocked(r) ==
  /\ TasksRun
  /\ rpc[r] = "check"
  /\ unblocked[handle[r]]
  /\ rpc' = [rpc EXCEPT ![r] = "unblocked"]
  /\ UNCHANGED <<objVars, heap, handle, payload, writerVars, unblocking, rxVars>>

RecvNotUnblocked(r) ==
  /\ TasksRun
  /\ rpc[r] = "check"
  /\ ~unblocked[handle[r]]
  /\ rpc' = [rpc EXCEPT ![r] = "get"]
  /\ UNCHANGED <<objVars, heap, handle, payload, writerVars, unblocking, rxVars>>

GetLeaving(r, rest) ==
  /\ TasksRun
  /\ rpc[r] = "get"
  /\ queue[handle[r]] # <<>>
  /\ payload' = [payload EXCEPT ![r] = Head(queue[handle[r]]).blk]
  /\ queue' = [queue EXCEPT ![handle[r]] = rest]
  /\ rpc' = [rpc EXCEPT ![r] = "copy"]
  /\ UNCHANGED <<msgqObjects, phase, queueId, semCount, unblocked, heap, handle,
                 writerVars, unblocking, rxVars>>

\* (mutant) the message is read but stays on the list.
RecvPeek(r) == GetLeaving(r, queue[handle[r]])

\* List_get.  On an empty list System_abort ends the program: NoNullPayload.
RecvGet(r) == GetLeaving(r, Tail(queue[handle[r]]))

\* The payload is copied to the client and the block freed: S_SUCCESS.
RecvFree(r) ==
  /\ TasksRun
  /\ rpc[r] = "copy"
  /\ heap' = heap \cup {payload[r]}
  /\ payload' = [payload EXCEPT ![r] = NULL]
  /\ rpc' = [rpc EXCEPT ![r] = "open"]
  /\ UNCHANGED <<objVars, handle, writerVars, unblocking, rxVars>>

-----------------------------------------------------------------------------
(* MessageQCopy_delete *)

InFlight(o) ==
  \/ \E w \in Writers : wobj[w] = o
  \/ \E i \in DOMAIN rxAvail : msgqObjects[rxAvail[i].ep] = o

\* Semaphore_delete: from here on obj is not fit for use, but is in its slot.
DeleteSem(r) ==
  /\ TasksRun
  /\ rpc[r] \in {"open", "unblocked"}
  /\ handle[r] \notin unblocking
  /\ QuiescentDelete => ~InFlight(handle[r])
  /\ phase' = [phase EXCEPT ![handle[r]] = "dying"]
  /\ rpc' = [rpc EXCEPT ![r] = "drain"]
  /\ UNCHANGED <<msgqObjects, queueId, semCount, queue, unblocked, heap, handle,
                 payload, writerVars, unblocking, rxVars>>

\* "Free/discard all queued message buffers", one at a time ...
DeleteDrain(r) ==
  /\ TasksRun
  /\ rpc[r] = "drain"
  /\ queue[handle[r]] # <<>>
  /\ heap' = heap \cup {Head(queue[handle[r]]).blk}
  /\ queue' = [queue EXCEPT ![handle[r]] = Tail(@)]
  /\ UNCHANGED <<msgqObjects, phase, queueId, semCount, unblocked, readerVars,
                 writerVars, unblocking, rxVars>>

NullSlotWhen(r, drained) ==
  /\ TasksRun
  /\ rpc[r] = "drain"
  /\ drained
  /\ msgqObjects' = [msgqObjects EXCEPT ![queueId[handle[r]]] = NULL]
  /\ rpc' = [rpc EXCEPT ![r] = "free"]
  /\ UNCHANGED <<phase, queueId, semCount, queue, unblocked, heap, handle,
                 payload, writerVars, unblocking, rxVars>>

\* (mutant) the slot keeps the pointer.
DeleteSlotKept(r) ==
  /\ TasksRun
  /\ rpc[r] = "drain"
  /\ queue[handle[r]] = <<>>
  /\ rpc' = [rpc EXCEPT ![r] = "free"]
  /\ UNCHANGED <<objVars, heap, handle, payload, writerVars, unblocking, rxVars>>

\* ... until List_get returns NULL; List_delete; null the slot under the gate.
DeleteSlot(r) == NullSlotWhen(r, queue[handle[r]] = <<>>)

\* Memory_free, *handlePtr = NULL.
DeleteFree(r) ==
  /\ TasksRun
  /\ rpc[r] = "free"
  /\ phase' = [phase EXCEPT ![handle[r]] = "free"]
  /\ handle' = [handle EXCEPT ![r] = NULL]
  /\ rpc' = [rpc EXCEPT ![r] = "closed"]
  /\ UNCHANGED <<msgqObjects, queueId, semCount, queue, unblocked, heap, payload,
                 writerVars, unblocking, rxVars>>

-----------------------------------------------------------------------------
(* MessageQCopy_send to an endpoint of this processor, by a task or the    *)
(* Swi.  When it returns the Swi goes on to give the vring buffer back.    *)
Returned(w) == IF w = Swi THEN "used" ELSE "idle"

\* The slot is read under the gate; an empty one is E_NOENDPT.
Lookup(w, e, d) ==
  /\ IF msgqObjects[e] = NULL
       THEN /\ wpc' = [wpc EXCEPT ![w] = Returned(w)]
            /\ UNCHANGED <<wobj, wmsg>>
       ELSE /\ wpc' = [wpc EXCEPT ![w] = "alloc"]
            /\ wobj' = [wobj EXCEPT ![w] = msgqObjects[e]]
            /\ wmsg' = [wmsg EXCEPT ![w] = [blk |-> NULL, data |-> d]]
  /\ UNCHANGED <<objVars, heap, readerVars, unblocking, rxVars>>

LocalSend(s, e, d) ==
  /\ TasksRun
  /\ wpc[s] = "idle"
  /\ QuiescentDelete => ~Dying(e)
  /\ Lookup(s, e, d)

MayStep(w) == w = Swi \/ TasksRun

Leave(w) ==
  /\ wpc' = [wpc EXCEPT ![w] = Returned(w)]
  /\ wobj' = [wobj EXCEPT ![w] = NULL]
  /\ wmsg' = [wmsg EXCEPT ![w] = NoMsg]

\* HeapBuf_alloc under the gate, then the copy into the block ...
SendAlloc(w, b) ==
  /\ MayStep(w)
  /\ wpc[w] = "alloc"
  /\ b \in heap
  /\ heap' = heap \ {b}
  /\ wmsg' = [wmsg EXCEPT ![w] = [blk |-> b, data |-> @.data]]
  /\ wpc' = [wpc EXCEPT ![w] = "put"]
  /\ UNCHANGED <<objVars, readerVars, wobj, unblocking, rxVars>>

\* ... or E_MEMORY: the message is dropped.
SendNoMemory(w) ==
  /\ MayStep(w)
  /\ wpc[w] = "alloc"
  /\ heap = {}
  /\ Leave(w)
  /\ UNCHANGED <<objVars, heap, readerVars, unblocking, rxVars>>

PutAs(w, list) ==
  /\ MayStep(w)
  /\ wpc[w] = "put"
  /\ queue' = [queue EXCEPT ![wobj[w]] = list]
  /\ wpc' = [wpc EXCEPT ![w] = "post"]
  /\ UNCHANGED <<msgqObjects, phase, queueId, semCount, unblocked, heap,
                 readerVars, wobj, wmsg, unblocking, rxVars>>

\* (mutant) List_putHead.
SendPutHead(w) == PutAs(w, <<wmsg[w]>> \o queue[wobj[w]])

\* List_put on obj->queue ...
SendPut(w) == PutAs(w, Append(queue[wobj[w]], wmsg[w]))

PostBy(w, n) ==
  /\ MayStep(w)
  /\ wpc[w] = "post"
  /\ semCount' = [semCount EXCEPT ![wobj[w]] = @ + n]
  /\ Leave(w)
  /\ UNCHANGED <<msgqObjects, phase, queueId, queue, unblocked, heap,
                 readerVars, unblocking, rxVars>>

\* ... and Semaphore_post.
SendPost(w) == PostBy(w, 1)

-----------------------------------------------------------------------------
(* MessageQCopy_unblock, by a task that will not delete o before it ends.  *)
SetFlag(o, value) ==
  /\ TasksRun
  /\ phase[o] = "live"
  /\ o \notin unblocking
  /\ semCount[o] < MaxPosts
  /\ unblocked' = [unblocked EXCEPT ![o] = value]
  /\ unblocking' = unblocking \cup {o}
  /\ UNCHANGED <<msgqObjects, phase, queueId, semCount, queue, heap, readerVars,
                 writerVars, rxVars>>

\* (mutant) the post goes out before the flag is set.
UnblockFlagLate(o) == SetFlag(o, unblocked[o])

UnblockFlag(o) == SetFlag(o, TRUE)

UnblockPostBy(o, n) ==
  /\ TasksRun
  /\ o \in unblocking
  /\ semCount' = [semCount EXCEPT ![o] = @ + n]
  /\ unblocking' = unblocking \ {o}
  /\ UNCHANGED <<msgqObjects, phase, queueId, queue, unblocked, heap, readerVars,
                 writerVars, rxVars>>

\* (mutant) the flag is expected to be enough.
UnblockPostNone(o) == UnblockPostBy(o, 0)

UnblockPost(o) == UnblockPostBy(o, 1)

-----------------------------------------------------------------------------
(* MessageQCopy_swiFxn *)

SwiBegin ==
  /\ wpc[Swi] = "idle"
  /\ swiPosted
  /\ swiPosted' = FALSE
  /\ usedBufAdded' = FALSE
  /\ wpc' = [wpc EXCEPT ![Swi] = "loop"]
  /\ UNCHANGED <<objVars, heap, readerVars, wobj, wmsg, unblocking, rxAvail,
                 rxUsed, hostIrq>>

\* The oldest offered message is sent to its endpoint on this processor.
SwiSend ==
  /\ wpc[Swi] = "loop"
  /\ rxAvail # <<>>
  /\ Lookup(Swi, Head(rxAvail).ep, Head(rxAvail).data)

AddUsed(added) ==
  /\ wpc[Swi] = "used"
  /\ rxAvail' = Tail(rxAvail)
  /\ rxUsed' = rxUsed + 1
  /\ usedBufAdded' = added
  /\ wpc' = [wpc EXCEPT ![Swi] = "loop"]
  /\ UNCHANGED <<objVars, heap, readerVars, wobj, wmsg, unblocking, swiPosted,
                 hostIrq>>

\* (mutant) the last buffer of a batch does not count.
SwiAddUsedButLast == AddUsed(Tail(rxAvail) # <<>>)

\* Whatever became of the message, its buffer goes back to the host.
SwiAddUsed == AddUsed(TRUE)

\* Nothing is available: one kick if any buffer was returned.
SwiEnd ==
  /\ wpc[Swi] = "loop"
  /\ rxAvail = <<>>
  /\ hostIrq' = (hostIrq \/ usedBufAdded)
  /\ wpc' = [wpc EXCEPT ![Swi] = "idle"]
  /\ UNCHANGED <<objVars, heap, readerVars, wobj, wmsg, unblocking, swiPosted,
                 usedBufAdded, rxAvail, rxUsed>>

-----------------------------------------------------------------------------
(* The host, external: it fills the buffers it owns, its kick reaches      *)
(* callback_availBufReady at some later time, and it collects on a kick.   *)
HostSend(e, d) ==
  /\ Len(rxAvail) + rxUsed < RxBuffers
  /\ QuiescentDelete => ~Dying(e)
  /\ rxAvail' = Append(rxAvail, [ep |-> e, data |-> d])
  /\ UNCHANGED <<objVars, heap, readerVars, writerVars, unblocking, swiPosted,
                 usedBufAdded, rxUsed, hostIrq>>

AvailBufReady ==
  /\ ~swiPosted
  /\ swiPosted' = TRUE
  /\ UNCHANGED <<objVars, heap, readerVars, writerVars, unblocking,
                 usedBufAdded, rxAvail, rxUsed, hostIrq>>

HostCollect ==
  /\ hostIrq
  /\ hostIrq' = FALSE
  /\ rxUsed' = 0
  /\ UNCHANGED <<objVars, heap, readerVars, writerVars, unblocking, swiPosted,
                 usedBufAdded, rxAvail>>

-----------------------------------------------------------------------------
\* What the reader does once it is in a call.
ReaderStep(r) ==
  \/ RecvPend(r) \/ RecvUnblocked(r) \/ RecvNotUnblocked(r)
  \/ RecvGet(r) \/ RecvFree(r)
  \/ DeleteDrain(r) \/ DeleteSlot(r) \/ DeleteFree(r)

SendStep(w) ==
  \/ \E b \in Blocks : SendAlloc(w, b)
  \/ SendNoMemory(w) \/ SendPut(w) \/ SendPost(w)

SwiStep == SwiBegin \/ SwiSend \/ SwiAddUsed \/ SwiEnd

Next ==
  \/ \E r \in Readers :
       \/ \E e \in Endpoints, o \in Objects : Create(r, e, o)
       \/ RecvCall(r) \/ RecvTimeout(r)
       \/ DeleteSem(r)
       \/ ReaderStep(r)
  \/ \E s \in Senders, e \in Endpoints, d \in Data : LocalSend(s, e, d)
  \/ \E w \in Writers : SendStep(w)
  \/ \E o \in Objects : UnblockFlag(o) \/ UnblockPost(o)
  \/ SwiStep
  \/ \E e \in Endpoints, d \in Data : HostSend(e, d)
  \/ AvailBufReady
  \/ HostCollect

(* A call that has begun goes on: no task is starved for ever, neither by  *)
(* the Swi nor by the others.  Nobody is made to call anything.            *)
Fairness ==
  /\ \A r \in Readers : SF_vars(ReaderStep(r))
  /\ \A w \in Writers : SF_vars(SendStep(w))
  /\ \A o \in Objects : SF_vars(UnblockPost(o))
  /\ WF_vars(SwiStep)

Spec == Init /\ [][Next]_vars
FairSpec == Spec /\ Fairness

-----------------------------------------------------------------------------
Message == [blk : Blocks, data : Data]

TypeOK ==
  /\ msgqObjects \in [Endpoints -> Objects \cup {NULL}]
  /\ phase \in [Objects -> {"free", "live", "dying"}]
  /\ queueId \in [Objects -> Endpoints]
  /\ semCount \in [Objects -> Nat]
  /\ queue \in [Objects -> Seq(Message)]
  /\ unblocked \in [Objects -> BOOLEAN]
  /\ heap \subseteq Blocks
  /\ rpc \in [Readers -> {"closed", "open", "pend", "check", "get", "copy",
                          "unblocked", "drain", "free"}]
  /\ handle \in [Readers -> Objects \cup {NULL}]
  /\ payload \in [Readers -> Blocks \cup {NULL}]
  /\ wpc \in [Writers -> {"idle", "loop", "alloc", "put", "post", "used"}]
  /\ wobj \in [Writers -> Objects \cup {NULL}]
  /\ wmsg \in [Writers -> [blk : Blocks \cup {NULL}, data : Data \cup {NULL}]]
  /\ unblocking \subseteq Objects
  /\ swiPosted \in BOOLEAN /\ usedBufAdded \in BOOLEAN /\ hostIrq \in BOOLEAN
  /\ rxAvail \in Seq([ep : Endpoints, data : Data])
  /\ rxUsed \in Nat

-----------------------------------------------------------------------------
QueuedBlocks(o) == {queue[o][i].blk : i \in DOMAIN queue[o]}
WriterBlocks == {wmsg[w].blk : w \in {v \in Writers : wpc[v] = "put"}}
ReaderBlocks == {payload[r] : r \in {q \in Readers : rpc[q] = "copy"}}

(* Every block of the heap is free, on one endpoint's queue, with the one  *)
(* writer that fills it or with the one reader that empties it: no message *)
(* of E_MEMORY, NOENDPT, UNBLOCKED or of a deleted endpoint takes a block  *)
(* with it (MessageQCopy.c:396-398, 466-468, 553-568).                     *)
BlockHasPlace ==
  Blocks = heap \cup (UNION {QueuedBlocks(o) : o \in Objects})
                \cup WriterBlocks \cup ReaderBlocks

(* ... and is in one of these places only, so no message is overwritten    *)
(* while it is queued or being copied.                                     *)
PlaceIsOwn ==
  /\ \A o \in Objects :
       /\ QueuedBlocks(o) \cap (heap \cup WriterBlocks \cup ReaderBlocks) = {}
       /\ \A p \in Objects \ {o} : QueuedBlocks(o) \cap QueuedBlocks(p) = {}
       /\ \A i, j \in DOMAIN queue[o] :
            queue[o][i].blk = queue[o][j].blk => i = j
  /\ (WriterBlocks \cup ReaderBlocks) \cap heap = {}
  /\ WriterBlocks \cap ReaderBlocks = {}
  /\ \A v, w \in Writers :
       wpc[v] = "put" /\ wpc[w] = "put" /\ wmsg[v].blk = wmsg[w].blk => v = w
  /\ \A q, r \in Readers :
       rpc[q] = "copy" /\ rpc[r] = "copy" /\ payload[q] = payload[r] => q = r

(* Every block is in exactly one place, through every failure of send,     *)
(* recv and delete.                                                        *)
EveryBlockHasOnePlace == BlockHasPlace /\ PlaceIsOwn

(* System_abort("got a NULL payload") is never reached: whoever returns    *)
(* from the semaphore without the unblocked flag finds a message, whatever *)
(* sends and unblocks went on meanwhile (MessageQCopy.c:443-458, 562-563,  *)
(* 587-588).                                                               *)
NoNullPayload ==
  \A r \in Readers : rpc[r] = "get" => queue[handle[r]] # <<>>

(* "A 32 bit endpoint ID unique to this local processor": an object and    *)
(* its slot name each other for as long as a client holds the handle, and  *)
(* no slot names freed memory (MessageQCopy.c:330-366, 403-413).           *)
SlotsAreObjects ==
  /\ \A e \in Endpoints :
       msgqObjects[e] # NULL =>
         phase[msgqObjects[e]] # "free" /\ queueId[msgqObjects[e]] = e
  /\ \A r \in Readers :
       handle[r] # NULL =>
         /\ phase[handle[r]] # "free"
         /\ rpc[r] # "free" => msgqObjects[queueId[handle[r]]] = handle[r]
  /\ \A q, r \in Readers : handle[q] = handle[r] /\ handle[q] # NULL => q = r

(* Each vring buffer the Swi has returned, delivered or dropped, is        *)
(* announced to the host before the Swi sleeps (MessageQCopy.c:168-176).   *)
HostIsTold == wpc[Swi] = "idle" /\ rxUsed > 0 => hostIrq

(* A writer touches only an object that is alive: "Protect from            *)
(* MessageQCopy_delete", says MessageQCopy.c:536.  With QuiescentDelete it *)
(* is the clients who see to it; the code alone does not.                  *)
NoUseAfterDelete ==
  \A w \in Writers : wpc[w] \in {"put", "post"} => phase[wobj[w]] = "live"

(* Local endpoints behave as independent FIFO mailboxes: each accepted     *)
(* message is queued once and in the order of List_put, nothing else is    *)
(* ever removed or reordered, and delete drops the rest.                   *)
Box == INSTANCE Mailboxes WITH
  Closed <- NULL,
  box <- [e \in Endpoints |->
            IF msgqObjects[e] = NULL \/ Dying(e) THEN NULL
            ELSE [i \in DOMAIN queue[msgqObjects[e]] |->
                    queue[msgqObjects[e]][i].data]]

ImplementsMailboxes == Box!Spec

(* A reader blocked in recv with a message on its queue is released:       *)
(* no List_put goes without its Semaphore_post (MessageQCopy.c:562-563).   *)
MessageWakesReader ==
  \A r \in Readers :
    (rpc[r] = "pend" /\ queue[handle[r]] # <<>>) ~> (rpc[r] # "pend")

(* unblock releases a reader that is blocked, and one that has yet to      *)
(* block on the same call (MessageQCopy.h:261-271).                        *)
UnblockReleases ==
  \A r \in Readers :
    (rpc[r] = "pend" /\ unblocked[handle[r]]) ~> (rpc[r] # "pend")

(* Who waits in recv is released by a message and by unblock.              *)
ReadersAreReleased == MessageWakesReader /\ UnblockReleases

-----------------------------------------------------------------------------
\* For TLC: blocks and payloads are interchangeable, and so are the readers.
Symmetry ==
  Permutations(Blocks) \cup Permutations(Data) \cup Permutations(Readers)
    \cup Permutations(Objects)
=============================================================================
