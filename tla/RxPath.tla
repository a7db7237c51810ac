------------------------------ MODULE RxPath ------------------------------
(***************************************************************************)
(* The way of a message from the host to a blocked reader: the virtqueue   *)
(* fromHost with its suppression flags (VirtQueue.tla), the mailbox Hwi    *)
(* that posts the Swi, MessageQCopy_swiFxn that drains the ring, and       *)
(* MessageQCopy_recv, which posts the Swi itself before it blocks.         *)
(* MessageQCopy.tla has the endpoints, the heap and the other senders;     *)
(* here there is one endpoint, always there, so that a message is lost     *)
(* only to a full heap, and what else can be lost is a notification.       *)
(***************************************************************************)
EXTENDS VirtQueue

CONSTANTS
  HeapBlocks,       \* MAXMESSAGEBUFFERS
  Timeouts          \* recv may be called with a timeout, not with FOREVER only

ASSUME RxPathAssumption == HeapBlocks \in Nat /\ Timeouts \in BOOLEAN

VARIABLES
  swiPosted,        \* transport.swiHandle is posted and has not begun
  swiPc,            \* where MessageQCopy_swiFxn is
  semCount,         \* messages on the endpoint's queue, and its semaphore
  waiting           \* the reader is in Semaphore_pend

rxVars == <<swiPosted, swiPc, semCount, waiting>>
rxAll == <<vars, rxVars>>

RxInit ==
  /\ swiPosted = FALSE
  /\ swiPc = "idle"
  /\ semCount = 0
  /\ waiting = FALSE

-----------------------------------------------------------------------------
(* MessageQCopy_recv *)
RecvPosting(posted) ==
  /\ which = "fromHost"
  /\ ~waiting
  /\ waiting' = TRUE
  /\ swiPosted' = posted
  /\ UNCHANGED <<vars, swiPc, semCount>>

\* (mutant) recv blocks without a look at the vring.
RecvCallOnly == RecvPosting(swiPosted)

\* "Check vring for pending messages before we block".
RecvCall == RecvPosting(TRUE)

RecvReturn ==
  /\ waiting
  /\ semCount > 0
  /\ semCount' = semCount - 1
  /\ waiting' = FALSE
  /\ UNCHANGED <<vars, swiPosted, swiPc>>

RecvTimeout ==
  /\ Timeouts
  /\ waiting
  /\ semCount = 0
  /\ waiting' = FALSE
  /\ UNCHANGED <<vars, swiPosted, swiPc, semCount>>

-----------------------------------------------------------------------------
(* MessageQCopy_swiFxn *)
SwiBegin ==
  /\ swiPc = "idle"
  /\ swiPosted
  /\ swiPosted' = FALSE
  /\ swiPc' = "loop"
  /\ UNCHANGED <<vars, semCount, waiting>>

SwiTake(h) ==
  /\ swiPc = "loop"
  /\ GetAvailBuf(h)
  /\ swiPc' = "send"
  /\ UNCHANGED <<swiPosted, semCount, waiting>>

Deliver(h, count) ==
  /\ swiPc = "send"
  /\ AddUsedBufFill(h)
  /\ semCount' = count
  /\ swiPc' = "publish"
  /\ UNCHANGED <<swiPosted, waiting>>

\* MessageQCopy_send to the endpoint, or E_MEMORY; the result is ignored, and
\* the buffer goes into VirtQueue_addUsedBuf.
SwiDeliver(h) ==
  Deliver(h, IF semCount < HeapBlocks THEN semCount + 1 ELSE semCount)

SwiPublish ==
  /\ swiPc = "publish"
  /\ AddUsedBufPublish
  /\ swiPc' = "loop"
  /\ UNCHANGED <<swiPosted, semCount, waiting>>

SwiFindsNone ==
  /\ swiPc = "loop"
  /\ GetAvailBufEmpty
  /\ swiPc' = "clear"
  /\ UNCHANGED <<swiPosted, semCount, waiting>>

SwiClear ==
  /\ swiPc = "clear"
  /\ ClearNoNotify
  /\ swiPc' = "kick"
  /\ UNCHANGED <<swiPosted, semCount, waiting>>

SwiKick ==
  /\ swiPc = "kick"
  /\ Kick
  /\ swiPc' = IF corePc' = "send" THEN "int" ELSE "idle"
  /\ UNCHANGED <<swiPosted, semCount, waiting>>

SwiNoKick ==
  /\ swiPc = "kick"
  /\ ~kickDue
  /\ swiPc' = "idle"
  /\ UNCHANGED <<vars, swiPosted, semCount, waiting>>

SwiIntSend ==
  /\ swiPc = "int"
  /\ IntSend
  /\ swiPc' = "idle"
  /\ UNCHANGED <<swiPosted, semCount, waiting>>

SwiStep ==
  \/ SwiBegin
  \/ \E h \in Heads : SwiTake(h) \/ SwiDeliver(h)
  \/ SwiPublish \/ SwiFindsNone \/ SwiClear
  \/ SwiKick \/ SwiNoKick \/ SwiIntSend

IsrThen(posted) ==
  /\ which = "fromHost"
  /\ Isr
  /\ swiPosted' = posted
  /\ UNCHANGED <<swiPc, semCount, waiting>>

\* The mailbox message of fromHost: VirtQueue_isr calls
\* callback_availBufReady, which posts the Swi.
AvailBufReady == IsrThen(TRUE)

RxNext ==
  \/ RecvCall \/ RecvReturn \/ RecvTimeout
  \/ SwiStep
  \/ AvailBufReady

(* The Hwi and the Swi preempt every task, a reader whose semaphore is     *)
(* posted runs at some time.                                               *)
RxFairness ==
  /\ WF_rxAll(SwiStep)
  /\ WF_rxAll(AvailBufReady)
  /\ WF_rxAll(RecvReturn)

-----------------------------------------------------------------------------
Offered == Dist(lastAvailIdx, availIdx)

RxTypeOK ==
  /\ swiPosted \in BOOLEAN /\ waiting \in BOOLEAN
  /\ swiPc \in {"idle", "loop", "send", "publish", "clear", "kick", "int"}
  /\ semCount \in 0 .. HeapBlocks

(* A message the host has put into the vring is delivered to a reader that *)
(* waits for ever, though the host sends no other: "Check vring for        *)
(* pending messages before we block" (MessageQCopy.c:439).                 *)
OfferReachesReader == (waiting /\ Offered > 0 /\ semCount = 0) ~> ~waiting

(* Once the core has asked to be told of added buffers, no message is left *)
(* behind: of the kick, the ISR, the Swi and its test of an empty ring,    *)
(* every interleaving ends with the message taken, with a reader or none.  *)
ToldOfferIsTaken ==
  \A i \in 0 .. IdxMod - 1 :
    (which = "fromHost" /\ lastAvailIdx = i /\ Offered > 0 /\ hostPc = "notify" /\ ~noNotify)
      ~> (lastAvailIdx # i)

(* If recv is called again and again, every message is taken, even one     *)
(* that was put in the vring with the notification suppressed: recv looks  *)
(* at the vring before it blocks.                                          *)
PollTakesOffer ==
  \A i \in 0 .. IdxMod - 1 :
    []<><<RecvCall>>_rxAll
      => ((lastAvailIdx = i /\ Offered > 0) ~> (lastAvailIdx # i))

(* Buffers keep moving: what the core was told of or looks for is taken,   *)
(* and what it has used is collected by the host.                          *)
BuffersKeepMoving == UsedIsCollected /\ ToldOfferIsTaken /\ PollTakesOffer
=============================================================================
