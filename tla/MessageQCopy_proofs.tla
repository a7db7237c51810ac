------------------------- MODULE MessageQCopy_proofs -------------------------
(***************************************************************************)
(* Proofs about MessageQCopy, for every number of tasks, endpoints, heap   *)
(* blocks and vring buffers.                                               *)
(***************************************************************************)
EXTENDS MessageQCopy, FiniteSetTheorems, SequenceTheorems, TLAPS

(* What the local variables of a call hold at each point of it.            *)
LocalInv ==
  /\ \A r \in Readers : handle[r] = NULL <=> rpc[r] = "closed"
  /\ \A r \in Readers : rpc[r] = "copy" => payload[r] \in Blocks
  /\ \A w \in Writers : wobj[w] = NULL <=> wpc[w] \notin {"alloc", "put", "post"}
  /\ \A w \in Writers : wpc[w] \in {"alloc", "put"} => wmsg[w].data \in Data
  /\ \A w \in Writers : wpc[w] = "put" => wmsg[w].blk \in Blocks
  /\ wpc[Swi] \in {"alloc", "put", "post", "used"} => rxAvail # <<>>

-----------------------------------------------------------------------------
\* Facts about sequences and records, stated once.
LEMMA HeadTail ==
  ASSUME NEW S, NEW s \in Seq(S), s # <<>>
  PROVE  /\ Head(s) \in S
         /\ Tail(s) \in Seq(S)
         /\ Len(s) \in Nat /\ Len(s) > 0
         /\ Len(Tail(s)) = Len(s) - 1
  OBVIOUS

LEMMA AppendType ==
  ASSUME NEW S, NEW s \in Seq(S), NEW x \in S
  PROVE  Append(s, x) \in Seq(S) /\ Len(Append(s, x)) = Len(s) + 1
  OBVIOUS

LEMMA MessageFields ==
  ASSUME NEW m \in Message
  PROVE  m.blk \in Blocks /\ m.data \in Data
  BY DEF Message

LEMMA MessageOf ==
  ASSUME NEW m \in [blk : Blocks \cup {NULL}, data : Data \cup {NULL}],
         m.blk \in Blocks, m.data \in Data
  PROVE  m \in Message
  BY DEF Message

-----------------------------------------------------------------------------
LEMMA InitTypes == Init => TypeOK /\ LocalInv
<1> SUFFICES ASSUME Init PROVE TypeOK /\ LocalInv
  OBVIOUS
<1>1. 0 \in Endpoints
  BY MessageQCopyAssumption DEF Endpoints
<1>2. TypeOK
  BY <1>1, SMTT(60) DEF Init, TypeOK, NoMsg
<1>3. Swi \in Writers
  BY DEF Writers
<1>4. LocalInv
  BY <1>3 DEF Init, LocalInv
<1>. QED BY <1>2, <1>4

(* Each step of a reader keeps the types.                                  *)
LEMMA ReaderTypes ==
  ASSUME TypeOK, LocalInv, NEW r \in Readers,
         ReaderStep(r)
  PROVE  TypeOK' /\ LocalInv'
<1> USE DEF objVars, readerVars, writerVars, rxVars
<1>h. rpc[r] # "closed" => handle[r] \in Objects
  BY DEF TypeOK, LocalInv
<1>q. rpc[r] # "closed" => queue[handle[r]] \in Seq(Message)
  BY <1>h DEF TypeOK
<1>1. CASE RecvPend(r)
  BY <1>1, <1>h DEF RecvPend, PendWhen, TypeOK, LocalInv
<1>2. CASE RecvUnblocked(r)
  BY <1>2 DEF RecvUnblocked, TypeOK, LocalInv
<1>3. CASE RecvNotUnblocked(r)
  BY <1>3 DEF RecvNotUnblocked, TypeOK, LocalInv
<1>4. CASE RecvGet(r)
  <2>1. /\ Head(queue[handle[r]]).blk \in Blocks
        /\ Tail(queue[handle[r]]) \in Seq(Message)
    BY <1>4, <1>q, HeadTail, MessageFields DEF RecvGet, GetLeaving
  <2>. QED BY <1>4, <1>h, <2>1 DEF RecvGet, GetLeaving, TypeOK, LocalInv
<1>5. CASE RecvFree(r)
  BY <1>5 DEF RecvFree, TypeOK, LocalInv
<1>6. CASE DeleteDrain(r)
  <2>1. /\ Head(queue[handle[r]]).blk \in Blocks
        /\ Tail(queue[handle[r]]) \in Seq(Message)
    BY <1>6, <1>q, HeadTail, MessageFields DEF DeleteDrain
  <2>. QED BY <1>6, <1>h, <2>1 DEF DeleteDrain, TypeOK, LocalInv
<1>7. CASE DeleteSlot(r)
  BY <1>7 DEF DeleteSlot, NullSlotWhen, TypeOK, LocalInv
<1>8. CASE DeleteFree(r)
  BY <1>8 DEF DeleteFree, TypeOK, LocalInv
<1>. QED BY <1>1, <1>2, <1>3, <1>4, <1>5, <1>6, <1>7, <1>8 DEF ReaderStep

LEMMA LookupTypes ==
  ASSUME TypeOK, LocalInv, NEW w \in Writers, wpc[w] \in {"idle", "loop"},
         w = Swi => rxAvail # <<>>,
         NEW e \in Endpoints, NEW d \in Data, Lookup(w, e, d)
  PROVE  TypeOK' /\ LocalInv'
<1> USE DEF objVars, readerVars, writerVars, rxVars
<1>0. /\ UNCHANGED <<objVars, heap, readerVars, unblocking, rxVars>>
      /\ Swi \in Writers
  BY DEF Lookup, Writers
<1>1. CASE msgqObjects[e] = NULL
  <2>1. /\ wpc' = [wpc EXCEPT ![w] = Returned(w)]
        /\ UNCHANGED <<wobj, wmsg>>
        /\ Returned(w) = IF w = Swi THEN "used" ELSE "idle"
    BY <1>1 DEF Lookup, Returned
  <2>2. TypeOK'
    BY <1>0, <2>1 DEF TypeOK
  <2>3. LocalInv'
    BY <1>0, <2>1 DEF TypeOK, LocalInv
  <2>. QED BY <2>2, <2>3
<1>2. CASE msgqObjects[e] # NULL
  <2>1. /\ wpc' = [wpc EXCEPT ![w] = "alloc"]
        /\ wobj' = [wobj EXCEPT ![w] = msgqObjects[e]]
        /\ wmsg' = [wmsg EXCEPT ![w] = [blk |-> NULL, data |-> d]]
    BY <1>2 DEF Lookup
  <2>2. msgqObjects[e] \in Objects
    BY <1>2 DEF TypeOK
  <2>3. TypeOK'
    BY <1>0, <2>1, <2>2 DEF TypeOK
  <2>4. LocalInv'
    BY <1>0, <1>2, <2>1, <2>2 DEF TypeOK, LocalInv
  <2>. QED BY <2>3, <2>4
<1>. QED BY <1>1, <1>2

(* Each step of a writer inside MessageQCopy_send keeps them.              *)
LEMMA SendTypes ==
  ASSUME TypeOK, LocalInv, NEW w \in Writers, SendStep(w)
  PROVE  TypeOK' /\ LocalInv'
<1> USE DEF objVars, readerVars, writerVars, rxVars
<1>1. ASSUME NEW b \in Blocks, SendAlloc(w, b) PROVE TypeOK' /\ LocalInv'
  BY <1>1 DEF SendAlloc, TypeOK, LocalInv
<1>2. CASE SendNoMemory(w)
  BY <1>2 DEF SendNoMemory, Leave, Returned, NoMsg, TypeOK, LocalInv
<1>3. CASE SendPut(w)
  <2>1. wobj[w] \in Objects /\ wmsg[w] \in Message
    BY <1>3, MessageOf DEF SendPut, PutAs, TypeOK, LocalInv
  <2>2. Append(queue[wobj[w]], wmsg[w]) \in Seq(Message)
    BY <2>1, AppendType DEF TypeOK
  <2>. QED BY <1>3, <2>1, <2>2 DEF SendPut, PutAs, TypeOK, LocalInv
<1>4. CASE SendPost(w)
  BY <1>4 DEF SendPost, PostBy, Leave, Returned, NoMsg, TypeOK, LocalInv
<1>. QED BY <1>1, <1>2, <1>3, <1>4 DEF SendStep

(* ... and the Swi's own loop.                                             *)
LEMMA SwiTypes ==
  ASSUME TypeOK, LocalInv, SwiStep
  PROVE  TypeOK' /\ LocalInv'
<1> USE DEF objVars, readerVars, writerVars, rxVars
<1>w. Swi \in Writers
  BY DEF Writers
<1>1. CASE SwiBegin
  BY <1>1, <1>w DEF SwiBegin, TypeOK, LocalInv
<1>2. CASE SwiSend
  <2>1. Head(rxAvail) \in [ep : Endpoints, data : Data]
    BY <1>2, HeadTail DEF SwiSend, TypeOK
  <2>. QED BY <1>2, <1>w, <2>1, LookupTypes DEF SwiSend
<1>3. CASE SwiAddUsed
  <2>1. Tail(rxAvail) \in Seq([ep : Endpoints, data : Data])
    BY <1>3, HeadTail DEF SwiAddUsed, AddUsed, TypeOK, LocalInv
  <2>. QED BY <1>3, <1>w, <2>1 DEF SwiAddUsed, AddUsed, TypeOK, LocalInv
<1>4. CASE SwiEnd
  BY <1>4, <1>w DEF SwiEnd, TypeOK, LocalInv
<1>. QED BY <1>1, <1>2, <1>3, <1>4 DEF SwiStep

LEMMA TypeStep == TypeOK /\ LocalInv /\ [Next]_vars => TypeOK' /\ LocalInv'
<1> SUFFICES ASSUME TypeOK, LocalInv, [Next]_vars PROVE TypeOK' /\ LocalInv'
  OBVIOUS
<1> USE DEF objVars, readerVars, writerVars, rxVars
<1>1. ASSUME NEW r \in Readers, NEW e \in Endpoints, NEW o \in Objects,
             Create(r, e, o)
      PROVE  TypeOK' /\ LocalInv'
  BY <1>1, MessageQCopyAssumption DEF Create, TypeOK, LocalInv
<1>2. ASSUME NEW r \in Readers, RecvCall(r) PROVE TypeOK' /\ LocalInv'
  BY <1>2 DEF RecvCall, TypeOK, LocalInv
<1>3. ASSUME NEW r \in Readers, RecvTimeout(r) PROVE TypeOK' /\ LocalInv'
  BY <1>3 DEF RecvTimeout, TypeOK, LocalInv
<1>4. ASSUME NEW r \in Readers, DeleteSem(r) PROVE TypeOK' /\ LocalInv'
  BY <1>4 DEF DeleteSem, TypeOK, LocalInv
<1>5. ASSUME NEW r \in Readers, ReaderStep(r) PROVE TypeOK' /\ LocalInv'
  BY <1>5, ReaderTypes
<1>6. ASSUME NEW s \in Senders, NEW e \in Endpoints, NEW d \in Data,
             LocalSend(s, e, d)
      PROVE  TypeOK' /\ LocalInv'
  BY <1>6, LookupTypes, MessageQCopyAssumption DEF LocalSend, Writers
<1>7. ASSUME NEW w \in Writers, SendStep(w) PROVE TypeOK' /\ LocalInv'
  BY <1>7, SendTypes
<1>8. ASSUME NEW o \in Objects, UnblockFlag(o) PROVE TypeOK' /\ LocalInv'
  BY <1>8 DEF UnblockFlag, SetFlag, TypeOK, LocalInv
<1>9. ASSUME NEW o \in Objects, UnblockPost(o) PROVE TypeOK' /\ LocalInv'
  BY <1>9 DEF UnblockPost, UnblockPostBy, TypeOK, LocalInv
<1>10. CASE SwiStep
  BY <1>10, SwiTypes
<1>11. ASSUME NEW e \in Endpoints, NEW d \in Data, HostSend(e, d)
       PROVE  TypeOK' /\ LocalInv'
  <2>1. /\ rxAvail' \in Seq([ep : Endpoints, data : Data])
        /\ rxAvail' # <<>>
    BY <1>11 DEF HostSend, TypeOK
  <2>. QED BY <1>11, <2>1 DEF HostSend, TypeOK, LocalInv
<1>12. CASE AvailBufReady
  BY <1>12 DEF AvailBufReady, TypeOK, LocalInv
<1>13. CASE HostCollect
  BY <1>13 DEF HostCollect, TypeOK, LocalInv
<1>14. CASE UNCHANGED vars
  BY <1>14 DEF vars, TypeOK, LocalInv
<1>. QED BY <1>1, <1>2, <1>3, <1>4, <1>5, <1>6, <1>7, <1>8, <1>9, <1>10,
            <1>11, <1>12, <1>13, <1>14 DEF Next

(* Every variable keeps its type, for all values of the constants.         *)
THEOREM TypeCorrect == Spec => []TypeOK
<1>1. TypeOK /\ LocalInv => TypeOK
  OBVIOUS
<1>. QED BY InitTypes, TypeStep, <1>1, PTL DEF Spec

-----------------------------------------------------------------------------
(* The life of an object: its memory, its slot and its handle agree.       *)
HandleInv ==
  /\ \A r \in Readers :
       rpc[r] # "closed" =>
         phase[handle[r]] =
           IF rpc[r] \in {"drain", "free"} THEN "dying" ELSE "live"
  /\ \A q, r \in Readers : handle[q] = handle[r] /\ handle[q] # NULL => q = r
  /\ \A e \in Endpoints :
       msgqObjects[e] # NULL =>
         phase[msgqObjects[e]] # "free" /\ queueId[msgqObjects[e]] = e
  /\ \A r \in Readers :
       handle[r] # NULL =>
         (msgqObjects[queueId[handle[r]]] = handle[r] <=> rpc[r] # "free")

(* What HandleInv speaks of.                                               *)
handleVars == <<msgqObjects, phase, queueId, rpc, handle>>

\* A step of a call that neither opens nor closes the endpoint.
LEMMA HandleSameLife ==
  ASSUME TypeOK, LocalInv, HandleInv, NEW r \in Readers, NEW to,
         rpc[r] \in {"open", "pend", "check", "get", "copy", "unblocked"},
         to \in {"open", "pend", "check", "get", "copy", "unblocked"},
         rpc' = [rpc EXCEPT ![r] = to],
         UNCHANGED <<msgqObjects, phase, queueId, handle>>
  PROVE  HandleInv'
BY DEF TypeOK, LocalInv, HandleInv

LEMMA HandleReader ==
  ASSUME TypeOK, LocalInv, HandleInv, NEW r \in Readers, ReaderStep(r)
  PROVE  HandleInv'
<1>h. rpc[r] # "closed" => handle[r] \in Objects /\ handle[r] # NULL
  BY MessageQCopyAssumption DEF TypeOK, LocalInv
<1>1. CASE RecvPend(r)
  BY <1>1, HandleSameLife DEF RecvPend, PendWhen
<1>2. CASE RecvUnblocked(r)
  BY <1>2, HandleSameLife DEF RecvUnblocked, objVars
<1>3. CASE RecvNotUnblocked(r)
  BY <1>3, HandleSameLife DEF RecvNotUnblocked, objVars
<1>4. CASE RecvGet(r)
  BY <1>4, HandleSameLife DEF RecvGet, GetLeaving
<1>5. CASE RecvFree(r)
  BY <1>5, HandleSameLife DEF RecvFree, objVars
<1>6. CASE DeleteDrain(r)
  BY <1>6 DEF DeleteDrain, readerVars, HandleInv
<1>7. CASE DeleteSlot(r)
  BY <1>7, <1>h DEF DeleteSlot, NullSlotWhen, TypeOK, LocalInv, HandleInv
<1>8. CASE DeleteFree(r)
  BY <1>8, <1>h DEF DeleteFree, TypeOK, LocalInv, HandleInv
<1>. QED BY <1>1, <1>2, <1>3, <1>4, <1>5, <1>6, <1>7, <1>8 DEF ReaderStep

LEMMA HandleCreate ==
  ASSUME TypeOK, LocalInv, HandleInv,
         NEW r \in Readers, NEW e \in Endpoints, NEW o \in Objects,
         Create(r, e, o)
  PROVE  HandleInv'
<1>1. o # NULL /\ msgqObjects[e] = NULL
  BY MessageQCopyAssumption DEF Create, Assignable, FreeAbove
<1>2. \A q \in Readers : handle[q] # o
  BY <1>1 DEF Create, TypeOK, LocalInv, HandleInv
<1>3. \A x \in Endpoints : msgqObjects[x] # o
  BY <1>1 DEF Create, HandleInv
<1>. QED BY <1>1, <1>2, <1>3 DEF Create, TypeOK, LocalInv, HandleInv

LEMMA HandleStep ==
  TypeOK /\ LocalInv /\ HandleInv /\ [Next]_vars => HandleInv'
<1> SUFFICES ASSUME TypeOK, LocalInv, HandleInv, [Next]_vars PROVE HandleInv'
  OBVIOUS
<1>u. UNCHANGED handleVars => HandleInv'
  BY DEF handleVars, HandleInv
<1> USE DEF objVars, readerVars, handleVars
<1>1. ASSUME NEW r \in Readers, NEW e \in Endpoints, NEW o \in Objects,
             Create(r, e, o)
      PROVE  HandleInv'
  BY <1>1, HandleCreate
<1>2. ASSUME NEW r \in Readers, RecvCall(r) PROVE HandleInv'
  BY <1>2, HandleSameLife DEF RecvCall
<1>3. ASSUME NEW r \in Readers, RecvTimeout(r) PROVE HandleInv'
  BY <1>3, HandleSameLife DEF RecvTimeout
<1>4. ASSUME NEW r \in Readers, DeleteSem(r) PROVE HandleInv'
  BY <1>4, MessageQCopyAssumption DEF DeleteSem, TypeOK, LocalInv, HandleInv
<1>5. ASSUME NEW r \in Readers, ReaderStep(r) PROVE HandleInv'
  BY <1>5, HandleReader
<1>6. ASSUME NEW s \in Senders, NEW e \in Endpoints, NEW d \in Data,
             LocalSend(s, e, d)
      PROVE  HandleInv'
  BY <1>6, <1>u DEF LocalSend, Lookup
<1>7. ASSUME NEW w \in Writers, SendStep(w) PROVE HandleInv'
  BY <1>7, <1>u DEF SendStep, SendAlloc, SendNoMemory, SendPut, PutAs,
                    SendPost, PostBy
<1>8. ASSUME NEW o \in Objects, UnblockFlag(o) \/ UnblockPost(o)
      PROVE  HandleInv'
  BY <1>8, <1>u DEF UnblockFlag, SetFlag, UnblockPost, UnblockPostBy
<1>9. CASE SwiStep
  BY <1>9, <1>u DEF SwiStep, SwiBegin, SwiSend, Lookup, SwiAddUsed, AddUsed,
                    SwiEnd
<1>10. CASE (\E e \in Endpoints, d \in Data : HostSend(e, d))
            \/ AvailBufReady \/ HostCollect
  BY <1>10, <1>u DEF HostSend, AvailBufReady, HostCollect
<1>11. CASE UNCHANGED vars
  BY <1>11, <1>u DEF vars
<1>. QED BY <1>1, <1>2, <1>3, <1>4, <1>5, <1>6, <1>7, <1>8, <1>9, <1>10,
            <1>11 DEF Next

(* A handle, its object and its slot name each other, and no slot names    *)
(* freed memory, whatever other tasks and the Swi are in the middle of     *)
(* (MessageQCopy_create and _delete).                                      *)
THEOREM HandlesAreConsistent == Spec => []SlotsAreObjects
<1>1. Init => HandleInv
  BY MessageQCopyAssumption DEF Init, HandleInv
<1>2. TypeOK /\ LocalInv /\ HandleInv => SlotsAreObjects
  BY MessageQCopyAssumption DEF TypeOK, LocalInv, HandleInv, SlotsAreObjects
<1>. QED BY InitTypes, TypeStep, HandleStep, <1>1, <1>2, PTL DEF Spec

----------------------------------------------------------------------------
(***************************************************************************)
(* What the clients' promise buys: if no endpoint is deleted while someone *)
(* sends to it (QuiescentDelete), no deleted object is touched, and the    *)
(* semaphore of a live endpoint never counts more messages than its queue  *)
(* holds, so that recv never meets an empty list.                          *)
(***************************************************************************)

(* Whoever is about to reach an object reaches a live one.                 *)
WritersLive == \A w \in Writers : wobj[w] # NULL => phase[wobj[w]] = "live"
OffersLive == \A i \in DOMAIN rxAvail : ~Dying(rxAvail[i].ep)
UnblockingLive == \A o \in unblocking : phase[o] = "live" /\ unblocked[o]

QuietInv == WritersLive /\ OffersLive /\ UnblockingLive

quietVars == <<msgqObjects, phase, wobj, rxAvail, unblocking, unblocked>>

(* The writers that have put a message on o's queue and owe it a post, and *)
(* the one credit its reader may have taken without its message yet.       *)
Posting(o) == {w \in Writers : wpc[w] = "post" /\ wobj[w] = o}
Held(o) ==
  IF \E r \in Readers : handle[r] = o /\ rpc[r] \in {"check", "get"}
    THEN 1 ELSE 0

Credited(o) ==
  phase[o] = "live" /\ ~unblocked[o] =>
    semCount[o] + Cardinality(Posting(o)) + Held(o) <= Len(queue[o])

CreditInv == (\A o \in Objects : Credited(o)) /\ NoNullPayload

-----------------------------------------------------------------------------
LEMMA TailElements ==
  ASSUME NEW S, NEW s \in Seq(S), s # <<>>, NEW i \in DOMAIN Tail(s)
  PROVE  i + 1 \in DOMAIN s /\ Tail(s)[i] = s[i + 1]
  OBVIOUS

LEMMA AppendElements ==
  ASSUME NEW S, NEW s \in Seq(S), NEW x \in S, NEW i \in DOMAIN Append(s, x)
  PROVE  (i \in DOMAIN s /\ Append(s, x)[i] = s[i]) \/ Append(s, x)[i] = x
  OBVIOUS

LEMMA ElementType ==
  ASSUME NEW S, NEW s \in Seq(S), NEW i \in DOMAIN s
  PROVE  s[i] \in S
  OBVIOUS

LEMMA OfferTypes ==
  ASSUME TypeOK, NEW i \in DOMAIN rxAvail
  PROVE  rxAvail[i].ep \in Endpoints /\ rxAvail[i].data \in Data
<1>1. rxAvail \in Seq([ep : Endpoints, data : Data])
  BY DEF TypeOK
<1>2. rxAvail[i] \in [ep : Endpoints, data : Data]
  BY <1>1, ElementType
<1>. QED BY <1>2

LEMMA PostingFinite ==
  ASSUME NEW o
  PROVE  /\ IsFiniteSet(Posting(o)) /\ Cardinality(Posting(o)) \in Nat
         /\ IsFiniteSet(Posting(o)') /\ Cardinality(Posting(o)') \in Nat
<1>1. IsFiniteSet(Writers)
  <2>1. Writers = Senders \cup {Swi}
    BY DEF Writers
  <2>. QED BY <2>1, FS_AddElement, MessageQCopyAssumption
<1>2. Posting(o) \in SUBSET Writers /\ Posting(o)' \in SUBSET Writers
  BY DEF Posting
<1>3. IsFiniteSet(Posting(o)) /\ IsFiniteSet(Posting(o)')
  BY <1>1, <1>2, FS_Subset
<1>. QED BY <1>3, FS_CardinalityType

-----------------------------------------------------------------------------
LEMMA QuietLookup ==
  ASSUME TypeOK, LocalInv, HandleInv, QuietInv,
         NEW w \in Writers, NEW e \in Endpoints, NEW d \in Data,
         ~Dying(e), Lookup(w, e, d)
  PROVE  QuietInv'
<1>0. UNCHANGED <<msgqObjects, phase, rxAvail, unblocking, unblocked>>
  BY DEF Lookup, objVars, rxVars
<1>1. CASE msgqObjects[e] = NULL
  BY <1>0, <1>1 DEF Lookup, QuietInv, WritersLive, OffersLive, UnblockingLive, Dying
<1>2. CASE msgqObjects[e] # NULL
  <2>1. phase[msgqObjects[e]] = "live"
    BY <1>2 DEF TypeOK, HandleInv, Dying
  <2>2. wobj' = [wobj EXCEPT ![w] = msgqObjects[e]]
    BY <1>2 DEF Lookup
  <2>. QED BY <1>0, <2>1, <2>2 DEF TypeOK, QuietInv, WritersLive, OffersLive, UnblockingLive, Dying
<1>. QED BY <1>1, <1>2

LEMMA QuietStep ==
  ASSUME QuiescentDelete
  PROVE  TypeOK /\ LocalInv /\ HandleInv /\ QuietInv /\ [Next]_vars => QuietInv'
<1> SUFFICES ASSUME TypeOK, LocalInv, HandleInv, QuietInv, [Next]_vars
             PROVE  QuietInv'
  OBVIOUS
<1>u. UNCHANGED quietVars => QuietInv'
  BY DEF quietVars, QuietInv, WritersLive, OffersLive, UnblockingLive, Dying
<1>h. \A r \in Readers : rpc[r] # "closed" => handle[r] \in Objects
  BY DEF TypeOK, LocalInv
<1> USE DEF objVars, readerVars, writerVars, rxVars
<1>1. ASSUME NEW r \in Readers, NEW e \in Endpoints, NEW o \in Objects,
             Create(r, e, o)
      PROVE  QuietInv'
  <2>1. o # NULL /\ o \notin unblocking
    BY <1>1, MessageQCopyAssumption DEF Create, QuietInv, UnblockingLive
  <2>2. /\ wobj' = wobj /\ rxAvail' = rxAvail /\ unblocking' = unblocking
        /\ phase' = [phase EXCEPT ![o] = "live"]
        /\ msgqObjects' = [msgqObjects EXCEPT ![e] = o]
        /\ unblocked' = [unblocked EXCEPT ![o] = FALSE]
    BY <1>1 DEF Create
  <2>3. WritersLive'
    BY <2>2 DEF QuietInv, WritersLive, TypeOK
  <2>4. OffersLive'
    <3>1. \A x \in Endpoints : ~Dying(x) => ~Dying(x)'
      BY <2>2 DEF Dying, TypeOK
    <3>. QED BY <2>2, <3>1, OfferTypes DEF QuietInv, OffersLive
  <2>5. UnblockingLive'
    BY <2>1, <2>2 DEF QuietInv, UnblockingLive, TypeOK
  <2>. QED BY <2>3, <2>4, <2>5 DEF QuietInv
<1>2. ASSUME NEW r \in Readers, RecvCall(r) \/ RecvTimeout(r) PROVE QuietInv'
  BY <1>2, <1>u DEF RecvCall, RecvTimeout, quietVars
<1>3. ASSUME NEW r \in Readers, DeleteSem(r) PROVE QuietInv'
  <2>1. /\ ~InFlight(handle[r]) /\ handle[r] \in Objects
        /\ handle[r] \notin unblocking
        /\ phase' = [phase EXCEPT ![handle[r]] = "dying"]
        /\ UNCHANGED <<msgqObjects, wobj, rxAvail, unblocking, unblocked>>
    BY <1>3, <1>h DEF DeleteSem
  <2>2. WritersLive'
    BY <2>1 DEF QuietInv, WritersLive, InFlight, TypeOK
  <2>3. OffersLive'
    <3>1. \A i \in DOMAIN rxAvail : msgqObjects[rxAvail[i].ep] # handle[r]
      BY <2>1 DEF InFlight
    <3>. QED BY <2>1, <3>1 DEF QuietInv, OffersLive, Dying, TypeOK
  <2>4. UnblockingLive'
    BY <2>1 DEF QuietInv, UnblockingLive, TypeOK
  <2>. QED BY <2>2, <2>3, <2>4 DEF QuietInv
<1>4. ASSUME NEW r \in Readers, ReaderStep(r) PROVE QuietInv'
  <2>1. CASE DeleteSlot(r)
    BY <2>1 DEF DeleteSlot, NullSlotWhen, QuietInv, WritersLive, OffersLive, UnblockingLive, Dying, TypeOK
  <2>2. CASE DeleteFree(r)
    <3>1. phase[handle[r]] = "dying" /\ handle[r] \in Objects
      BY <2>2, <1>h DEF DeleteFree, HandleInv
    <3>. QED BY <2>2, <3>1 DEF DeleteFree, QuietInv, WritersLive, OffersLive, UnblockingLive, Dying, TypeOK
  <2>3. CASE ~DeleteSlot(r) /\ ~DeleteFree(r)
    BY <1>4, <1>u, <2>3
       DEF ReaderStep, RecvPend, PendWhen, RecvUnblocked, RecvNotUnblocked,
           RecvGet, GetLeaving, RecvFree, DeleteDrain, quietVars
  <2>. QED BY <2>1, <2>2, <2>3
<1>5. ASSUME NEW s \in Senders, NEW e \in Endpoints, NEW d \in Data,
             LocalSend(s, e, d)
      PROVE  QuietInv'
  BY <1>5, QuietLookup DEF LocalSend, Writers
<1>6. ASSUME NEW w \in Writers, SendStep(w) PROVE QuietInv'
  BY <1>6, ZenonT(60) DEF SendStep, SendAlloc, SendNoMemory, SendPut, PutAs, SendPost,
              PostBy, Leave, QuietInv, WritersLive, OffersLive, UnblockingLive, Dying, TypeOK
<1>7. ASSUME NEW o \in Objects, UnblockFlag(o) PROVE QuietInv'
  BY <1>7 DEF UnblockFlag, SetFlag, QuietInv, WritersLive, OffersLive, UnblockingLive, Dying, TypeOK
<1>8. ASSUME NEW o \in Objects, UnblockPost(o) PROVE QuietInv'
  BY <1>8 DEF UnblockPost, UnblockPostBy, QuietInv, WritersLive, OffersLive, UnblockingLive, Dying, TypeOK
<1>9. CASE SwiStep
  <2>1. CASE SwiSend
    <3>1. rxAvail \in Seq([ep : Endpoints, data : Data]) /\ rxAvail # <<>>
      BY <2>1 DEF SwiSend, TypeOK
    <3>2. Head(rxAvail) = rxAvail[1] /\ 1 \in DOMAIN rxAvail
      BY <3>1
    <3>3. ~Dying(Head(rxAvail).ep)
      BY <3>2 DEF QuietInv, OffersLive
    <3>4. Head(rxAvail).ep \in Endpoints /\ Head(rxAvail).data \in Data
      BY <3>2, OfferTypes
    <3>. QED BY <2>1, <3>3, <3>4, QuietLookup DEF SwiSend, Writers
  <2>2. CASE SwiAddUsed
    <3>1. rxAvail # <<>> /\ rxAvail \in Seq([ep : Endpoints, data : Data])
      BY <2>2 DEF SwiAddUsed, AddUsed, LocalInv, TypeOK
    <3>2. \A i \in DOMAIN Tail(rxAvail) : ~Dying(Tail(rxAvail)[i].ep)
      BY <3>1, TailElements DEF QuietInv, OffersLive
    <3>. QED BY <2>2, <3>2 DEF SwiAddUsed, AddUsed, QuietInv, WritersLive, OffersLive, UnblockingLive, Dying
  <2>3. CASE SwiBegin \/ SwiEnd
    BY <2>3, <1>u DEF SwiBegin, SwiEnd, quietVars
  <2>. QED BY <1>9, <2>1, <2>2, <2>3 DEF SwiStep
<1>10. ASSUME NEW e \in Endpoints, NEW d \in Data, HostSend(e, d)
       PROVE  QuietInv'
  <2>1. ~Dying(e) /\ [ep |-> e, data |-> d] \in [ep : Endpoints, data : Data]
    BY <1>10 DEF HostSend
  <2>2. OffersLive'
    <3> DEFINE s == Append(rxAvail, [ep |-> e, data |-> d])
    <3>1. \A i \in DOMAIN s : ~Dying(s[i].ep)
      BY <2>1, AppendElements DEF QuietInv, OffersLive, TypeOK
    <3>. QED BY <1>10, <3>1 DEF HostSend, OffersLive, Dying
  <2>. QED BY <1>10, <2>2 DEF HostSend, QuietInv, WritersLive, OffersLive, UnblockingLive
<1>11. CASE AvailBufReady \/ HostCollect
  BY <1>11, <1>u DEF AvailBufReady, HostCollect, quietVars
<1>12. CASE UNCHANGED vars
  BY <1>12, <1>u DEF vars, quietVars
<1>. QED BY <1>1, <1>2, <1>3, <1>4, <1>5, <1>6, <1>7, <1>8, <1>9, <1>10,
            <1>11, <1>12 DEF Next

(* No task and no Swi touches an endpoint that has been deleted, as long   *)
(* as the clients delete only endpoints that nobody sends to.  Without     *)
(* this promise the run message_delete shows the code does.                *)
THEOREM QuiescentDeleteIsSafe ==
  ASSUME QuiescentDelete
  PROVE  Spec => []NoUseAfterDelete
<1>1. Init => HandleInv /\ QuietInv
  BY MessageQCopyAssumption DEF Init, HandleInv, QuietInv, WritersLive, OffersLive, UnblockingLive
<1>2. TypeOK /\ LocalInv /\ QuietInv => NoUseAfterDelete
  BY DEF LocalInv, QuietInv, WritersLive, OffersLive, UnblockingLive, NoUseAfterDelete
<1>. QED BY InitTypes, TypeStep, HandleStep, QuietStep, <1>1, <1>2, PTL DEF Spec

-----------------------------------------------------------------------------
LEMMA HeldValue == \A o : Held(o) \in {0, 1} /\ Held(o)' \in {0, 1}
BY DEF Held

LEMMA LenValue ==
  ASSUME TypeOK, NEW o \in Objects
  PROVE  Len(queue[o]) \in Nat /\ semCount[o] \in Nat
<1>1. queue[o] \in Seq(Message) /\ semCount[o] \in Nat
  BY DEF TypeOK
<1>. QED BY <1>1

\* A reader's step that touches neither the queue nor the semaphore of any
\* endpoint, and takes no credit.
LEMMA CreditReader ==
  ASSUME TypeOK, CreditInv, NEW r \in Readers, NEW to,
         to \notin {"check", "get"}, rpc' = [rpc EXCEPT ![r] = to],
         UNCHANGED <<semCount, queue, unblocked, writerVars, handle>>,
         \A o \in Objects : phase'[o] = "live" => phase[o] = "live"
  PROVE  CreditInv'
<1>1. ASSUME NEW o \in Objects PROVE Credited(o)'
  <2>1. Posting(o)' = Posting(o)
    BY DEF Posting, writerVars
  <2>2. Held(o)' <= Held(o)
    BY HeldValue DEF Held, TypeOK
  <2>. QED BY <2>1, <2>2, HeldValue, PostingFinite, LenValue
           DEF CreditInv, Credited
<1>2. NoNullPayload'
  BY DEF CreditInv, NoNullPayload, TypeOK
<1>. QED BY <1>1, <1>2 DEF CreditInv

\* A writer's step short of List_put: no message, no credit.
LEMMA CreditWriter ==
  ASSUME TypeOK, CreditInv,
         UNCHANGED <<semCount, queue, unblocked, phase, readerVars>>,
         \A o : Posting(o)' = Posting(o)
  PROVE  CreditInv'
<1>1. ASSUME NEW o \in Objects PROVE Credited(o)'
  BY DEF CreditInv, Credited, Held, readerVars
<1>2. NoNullPayload'
  BY DEF CreditInv, NoNullPayload, readerVars
<1>. QED BY <1>1, <1>2 DEF CreditInv

LEMMA CreditCreate ==
  ASSUME TypeOK, LocalInv, HandleInv, QuietInv, CreditInv,
         NEW r \in Readers, NEW e \in Endpoints, NEW o \in Objects,
         Create(r, e, o)
  PROVE  CreditInv'
<1>1. ASSUME NEW p \in Objects PROVE Credited(p)'
  <2>0. Posting(p)' = Posting(p)
    BY DEF Posting, Create, writerVars
  <2>1. CASE p = o
    <3>1. Posting(o) = {}
      <4>1. o # NULL /\ phase[o] = "free"
        BY MessageQCopyAssumption DEF Create
      <4>2. \A w \in Writers : wobj[w] # o
        BY <4>1 DEF QuietInv, WritersLive
      <4>. QED BY <4>2 DEF Posting
    <3>2. Held(o)' = 0
      BY MessageQCopyAssumption
         DEF Held, Create, HandleInv, LocalInv, TypeOK
    <3>3. semCount'[o] = 0 /\ queue'[o] = <<>>
      BY DEF Create, TypeOK
    <3>. QED BY <2>0, <2>1, <3>1, <3>2, <3>3, FS_EmptySet DEF Credited
  <2>2. CASE p # o
    <3>1. Held(p)' = Held(p)
      BY <2>2 DEF Held, Create, TypeOK
    <3>. QED BY <2>0, <2>2, <3>1 DEF Credited, CreditInv, Create, TypeOK
  <2>. QED BY <2>1, <2>2
<1>2. NoNullPayload'
  <2>1. \A q \in Readers : rpc[q] = "get" => handle[q] # o
    BY MessageQCopyAssumption DEF Create, HandleInv, LocalInv, TypeOK
  <2>. QED BY <2>1 DEF Create, CreditInv, NoNullPayload, LocalInv, TypeOK
<1>. QED BY <1>1, <1>2 DEF CreditInv

LEMMA CreditPend ==
  ASSUME TypeOK, LocalInv, HandleInv, CreditInv, NEW r \in Readers, RecvPend(r)
  PROVE  CreditInv'
<1>0. handle[r] \in Objects /\ handle[r] # NULL
  BY MessageQCopyAssumption DEF RecvPend, PendWhen, LocalInv, TypeOK
<1>1. ASSUME NEW o \in Objects PROVE Credited(o)'
  <2>0. Posting(o)' = Posting(o) /\ UNCHANGED <<phase, queue, unblocked>>
    BY DEF Posting, RecvPend, PendWhen, writerVars
  <2>1. CASE o = handle[r]
    <3>1. Held(o) = 0
      BY <1>0, <2>1 DEF Held, RecvPend, PendWhen, HandleInv
    <3>2. semCount'[o] = semCount[o] - 1 /\ semCount[o] > 0
      BY <1>0, <2>1 DEF RecvPend, PendWhen, TypeOK
    <3>. QED BY <2>0, <3>1, <3>2, HeldValue, PostingFinite, LenValue
             DEF Credited, CreditInv
  <2>2. CASE o # handle[r]
    <3>1. Held(o)' = Held(o) /\ semCount'[o] = semCount[o]
      BY <1>0, <2>2 DEF Held, RecvPend, PendWhen, TypeOK
    <3>. QED BY <2>0, <3>1 DEF Credited, CreditInv
  <2>. QED BY <2>1, <2>2
<1>2. NoNullPayload'
  BY DEF RecvPend, PendWhen, CreditInv, NoNullPayload, TypeOK
<1>. QED BY <1>1, <1>2 DEF CreditInv

LEMMA CreditNotUnblocked ==
  ASSUME TypeOK, LocalInv, HandleInv, CreditInv,
         NEW r \in Readers, RecvNotUnblocked(r)
  PROVE  CreditInv'
<1> USE DEF RecvNotUnblocked, objVars
<1>1. ASSUME NEW o \in Objects PROVE Credited(o)'
  <2>1. Posting(o)' = Posting(o) /\ Held(o)' = Held(o)
    BY DEF Posting, Held, writerVars, TypeOK
  <2>. QED BY <2>1 DEF Credited, CreditInv
<1>2. NoNullPayload'
  <2>0. handle[r] \in Objects
    BY DEF LocalInv, TypeOK
  <2>1. Credited(handle[r]) /\ phase[handle[r]] = "live" /\ Held(handle[r]) = 1
    BY <2>0 DEF CreditInv, HandleInv, Held
  <2>2. Len(queue[handle[r]]) >= 1
    BY <2>0, <2>1, PostingFinite, LenValue DEF Credited
  <2>3. queue[handle[r]] # <<>>
    BY <2>2
  <2>. QED BY <2>3 DEF CreditInv, NoNullPayload, TypeOK
<1>. QED BY <1>1, <1>2 DEF CreditInv

LEMMA CreditGet ==
  ASSUME TypeOK, LocalInv, HandleInv, CreditInv, NEW r \in Readers, RecvGet(r)
  PROVE  CreditInv'
<1>0. handle[r] \in Objects /\ handle[r] # NULL
  BY MessageQCopyAssumption DEF RecvGet, GetLeaving, LocalInv, TypeOK
<1>1. ASSUME NEW o \in Objects PROVE Credited(o)'
  <2>0. Posting(o)' = Posting(o) /\ UNCHANGED <<phase, semCount, unblocked>>
    BY DEF Posting, RecvGet, GetLeaving, writerVars
  <2>1. CASE o = handle[r]
    <3>1. Held(o) = 1 /\ Held(o)' = 0
      BY <1>0, <2>1 DEF Held, RecvGet, GetLeaving, HandleInv, TypeOK
    <3>2. /\ queue[o] \in Seq(Message) /\ queue[o] # <<>>
          /\ queue'[o] = Tail(queue[o])
      BY <1>0, <2>1 DEF RecvGet, GetLeaving, TypeOK
    <3>3. Len(queue'[o]) = Len(queue[o]) - 1
      BY <3>2, HeadTail
    <3>. QED BY <2>0, <3>1, <3>3, PostingFinite, LenValue
             DEF Credited, CreditInv
  <2>2. CASE o # handle[r]
    <3>1. Held(o)' = Held(o) /\ queue'[o] = queue[o]
      BY <1>0, <2>2 DEF Held, RecvGet, GetLeaving, TypeOK
    <3>. QED BY <2>0, <3>1 DEF Credited, CreditInv
  <2>. QED BY <2>1, <2>2
<1>2. NoNullPayload'
  <2>1. ASSUME NEW q \in Readers, rpc'[q] = "get"
        PROVE  queue'[handle'[q]] # <<>>
    <3>1. q # r /\ rpc[q] = "get" /\ handle' = handle
      BY <2>1 DEF RecvGet, GetLeaving, TypeOK
    <3>2. handle[q] # handle[r]
      BY <1>0, <3>1 DEF HandleInv
    <3>. QED BY <3>1, <3>2 DEF RecvGet, GetLeaving, CreditInv, NoNullPayload,
                               TypeOK
  <2>. QED BY <2>1 DEF NoNullPayload
<1>. QED BY <1>1, <1>2 DEF CreditInv

LEMMA CreditDrain ==
  ASSUME TypeOK, LocalInv, HandleInv, CreditInv,
         NEW r \in Readers, DeleteDrain(r)
  PROVE  CreditInv'
<1>0. handle[r] \in Objects /\ handle[r] # NULL /\ phase[handle[r]] = "dying"
  BY MessageQCopyAssumption DEF DeleteDrain, LocalInv, HandleInv, TypeOK
<1>1. ASSUME NEW o \in Objects PROVE Credited(o)'
  <2>1. Posting(o)' = Posting(o) /\ Held(o)' = Held(o)
        /\ UNCHANGED <<phase, semCount, unblocked>>
    BY DEF Posting, Held, DeleteDrain, readerVars, writerVars
  <2>2. o # handle[r] => queue'[o] = queue[o]
    BY DEF DeleteDrain, TypeOK
  <2>. QED BY <1>0, <2>1, <2>2 DEF Credited, CreditInv
<1>2. NoNullPayload'
  <2>1. \A q \in Readers : rpc[q] = "get" => handle[q] # handle[r]
    BY <1>0 DEF DeleteDrain, HandleInv
  <2>. QED BY <2>1 DEF DeleteDrain, readerVars, CreditInv, NoNullPayload, TypeOK
<1>. QED BY <1>1, <1>2 DEF CreditInv

LEMMA CreditPut ==
  ASSUME TypeOK, LocalInv, CreditInv, NEW w \in Writers, SendPut(w)
  PROVE  CreditInv'
<1>0. /\ wobj[w] \in Objects /\ queue[wobj[w]] \in Seq(Message)
      /\ wmsg[w] \in Message
      /\ wpc[w] = "put" /\ wpc' = [wpc EXCEPT ![w] = "post"]
      /\ queue' = [queue EXCEPT ![wobj[w]] = Append(queue[wobj[w]], wmsg[w])]
      /\ UNCHANGED <<phase, semCount, unblocked, wobj, readerVars>>
  BY MessageOf DEF SendPut, PutAs, TypeOK, LocalInv
<1>1. ASSUME NEW o \in Objects PROVE Credited(o)'
  <2>0. Held(o)' = Held(o)
    BY <1>0 DEF Held, readerVars
  <2>1. CASE o = wobj[w]
    <3>1. Posting(o)' = Posting(o) \cup {w} /\ w \notin Posting(o)
      BY <1>0, <2>1 DEF Posting, TypeOK
    <3>2. Cardinality(Posting(o)') = Cardinality(Posting(o)) + 1
      BY <3>1, PostingFinite, FS_AddElement
    <3>3. Len(queue'[o]) = Len(queue[o]) + 1
      BY <1>0, <2>1, AppendType DEF TypeOK
    <3>. QED BY <1>0, <2>0, <3>2, <3>3, HeldValue, PostingFinite, LenValue, SMTT(60)
             DEF Credited, CreditInv
  <2>2. CASE o # wobj[w]
    <3>1. Posting(o)' = Posting(o) /\ queue'[o] = queue[o]
      BY <1>0, <2>2 DEF Posting, TypeOK
    <3>. QED BY <1>0, <2>0, <3>1 DEF Credited, CreditInv
  <2>. QED BY <2>1, <2>2
<1>2. NoNullPayload'
  <2>1. Append(queue[wobj[w]], wmsg[w]) # <<>>
    BY <1>0
  <2>. QED BY <1>0, <2>1 DEF readerVars, CreditInv, NoNullPayload, TypeOK
<1>. QED BY <1>1, <1>2 DEF CreditInv

LEMMA CreditPost ==
  ASSUME TypeOK, LocalInv, CreditInv, NEW w \in Writers, SendPost(w)
  PROVE  CreditInv'
<1>0. /\ wobj[w] \in Objects
      /\ wpc[w] = "post" /\ wpc' = [wpc EXCEPT ![w] = Returned(w)]
      /\ wobj' = [wobj EXCEPT ![w] = NULL]
      /\ semCount' = [semCount EXCEPT ![wobj[w]] = @ + 1]
      /\ UNCHANGED <<phase, queue, unblocked, readerVars>>
  BY DEF SendPost, PostBy, Leave, TypeOK, LocalInv
<1>1. ASSUME NEW o \in Objects PROVE Credited(o)'
  <2>0. Held(o)' = Held(o)
    BY <1>0 DEF Held, readerVars
  <2>1. CASE o = wobj[w]
    <3>1. Posting(o)' = Posting(o) \ {w} /\ w \in Posting(o)
      BY <1>0, <2>1 DEF Posting, Returned, TypeOK
    <3>2. Cardinality(Posting(o)') = Cardinality(Posting(o)) - 1
      BY <3>1, PostingFinite, FS_RemoveElement
    <3>3. semCount'[o] = semCount[o] + 1
      BY <1>0, <2>1 DEF TypeOK
    <3>. QED BY <1>0, <2>0, <3>2, <3>3, HeldValue, PostingFinite, LenValue
             DEF Credited, CreditInv
  <2>2. CASE o # wobj[w]
    <3>1. Posting(o)' = Posting(o) /\ semCount'[o] = semCount[o]
      BY <1>0, <2>2 DEF Posting, Returned, TypeOK
    <3>. QED BY <1>0, <2>0, <3>1 DEF Credited, CreditInv
  <2>. QED BY <2>1, <2>2
<1>2. NoNullPayload'
  BY <1>0 DEF readerVars, CreditInv, NoNullPayload
<1>. QED BY <1>1, <1>2 DEF CreditInv

LEMMA CreditUnblock ==
  ASSUME TypeOK, QuietInv, CreditInv, NEW o \in Objects,
         UnblockFlag(o) \/ UnblockPost(o)
  PROVE  CreditInv'
<1>1. ASSUME NEW p \in Objects PROVE Credited(p)'
  <2>1. /\ Posting(p)' = Posting(p) /\ Held(p)' = Held(p)
        /\ UNCHANGED <<phase, queue>>
    BY DEF Posting, Held, readerVars, writerVars,
           UnblockFlag, SetFlag, UnblockPost, UnblockPostBy
  <2>2. p = o => unblocked'[p]
    BY DEF UnblockFlag, SetFlag, UnblockPost, UnblockPostBy, QuietInv,
           UnblockingLive, TypeOK
  <2>3. p # o => semCount'[p] = semCount[p] /\ unblocked'[p] = unblocked[p]
    BY DEF UnblockFlag, SetFlag, UnblockPost, UnblockPostBy, TypeOK
  <2>. QED BY <2>1, <2>2, <2>3 DEF Credited, CreditInv
<1>2. NoNullPayload'
  BY DEF UnblockFlag, SetFlag, UnblockPost, UnblockPostBy, readerVars,
         CreditInv, NoNullPayload
<1>. QED BY <1>1, <1>2 DEF CreditInv

LEMMA CreditSend ==
  ASSUME TypeOK, LocalInv, CreditInv, NEW w \in Writers, SendStep(w)
  PROVE  CreditInv'
<1>1. CASE (\E b \in Blocks : SendAlloc(w, b)) \/ SendNoMemory(w)
  <2>1. \A o : Posting(o)' = Posting(o)
    BY <1>1 DEF Posting, SendAlloc, SendNoMemory, Leave, Returned, TypeOK
  <2>. QED BY <1>1, <2>1, CreditWriter DEF SendAlloc, SendNoMemory, objVars
<1>2. CASE SendPut(w)
  BY <1>2, CreditPut
<1>3. CASE SendPost(w)
  BY <1>3, CreditPost
<1>. QED BY <1>1, <1>2, <1>3 DEF SendStep

LEMMA CreditLookup ==
  ASSUME TypeOK, CreditInv, NEW w \in Writers, wpc[w] # "post", NEW e, NEW d,
         Lookup(w, e, d)
  PROVE  CreditInv'
<1>1. \A o : Posting(o)' = Posting(o)
  BY DEF Posting, Lookup, Returned, TypeOK
<1>. QED BY <1>1, CreditWriter DEF Lookup, objVars

LEMMA CreditStep ==
  TypeOK /\ LocalInv /\ HandleInv /\ QuietInv /\ CreditInv /\ [Next]_vars
    => CreditInv'
<1> SUFFICES ASSUME TypeOK, LocalInv, HandleInv, QuietInv, CreditInv, [Next]_vars
             PROVE  CreditInv'
  OBVIOUS
<1> USE DEF objVars
<1>1. ASSUME NEW r \in Readers, NEW e \in Endpoints, NEW o \in Objects,
             Create(r, e, o)
      PROVE  CreditInv'
  BY <1>1, CreditCreate
<1>2. ASSUME NEW r \in Readers, RecvCall(r) \/ RecvTimeout(r) PROVE CreditInv'
  BY <1>2, CreditReader DEF RecvCall, RecvTimeout
<1>3. ASSUME NEW r \in Readers, DeleteSem(r) PROVE CreditInv'
  BY <1>3, CreditReader DEF DeleteSem, TypeOK
<1>4. ASSUME NEW r \in Readers, ReaderStep(r) PROVE CreditInv'
  <2>1. CASE RecvPend(r) \/ RecvNotUnblocked(r) \/ RecvGet(r) \/ DeleteDrain(r)
    BY <2>1, CreditPend, CreditNotUnblocked, CreditGet, CreditDrain
  <2>2. CASE RecvUnblocked(r)
    BY <2>2, CreditReader DEF RecvUnblocked
  <2>3. CASE RecvFree(r)
    BY <2>3, CreditReader DEF RecvFree
  <2>4. CASE DeleteSlot(r)
    BY <2>4, CreditReader DEF DeleteSlot, NullSlotWhen
  <2>5. CASE DeleteFree(r)
    <3>1. handle[r] \in Objects
      BY <2>5 DEF DeleteFree, LocalInv, TypeOK
    <3>2. ASSUME NEW o \in Objects PROVE Credited(o)'
      <4>1. /\ Posting(o)' = Posting(o)
            /\ UNCHANGED <<semCount, queue, unblocked>>
            /\ phase'[o] = "live" => phase[o] = "live"
        BY <2>5, <3>1 DEF DeleteFree, Posting, writerVars, TypeOK
      <4>2. Held(o)' <= Held(o)
        BY <2>5, HeldValue DEF DeleteFree, Held, TypeOK
      <4>. QED BY <4>1, <4>2, HeldValue, PostingFinite, LenValue
               DEF CreditInv, Credited
    <3>3. NoNullPayload'
      BY <2>5 DEF DeleteFree, CreditInv, NoNullPayload, TypeOK
    <3>. QED BY <3>2, <3>3 DEF CreditInv
  <2>. QED BY <1>4, <2>1, <2>2, <2>3, <2>4, <2>5 DEF ReaderStep
<1>5. ASSUME NEW s \in Senders, NEW e \in Endpoints, NEW d \in Data,
             LocalSend(s, e, d)
      PROVE  CreditInv'
  BY <1>5, CreditLookup DEF LocalSend, Writers
<1>6. ASSUME NEW w \in Writers, SendStep(w) PROVE CreditInv'
  BY <1>6, CreditSend
<1>7. ASSUME NEW o \in Objects, UnblockFlag(o) \/ UnblockPost(o)
      PROVE  CreditInv'
  BY <1>7, CreditUnblock
<1>8. CASE SwiStep
  <2>1. CASE SwiSend
    BY <2>1, CreditLookup DEF SwiSend, Writers
  <2>2. CASE SwiBegin \/ SwiAddUsed \/ SwiEnd
    <3>1. \A o : Posting(o)' = Posting(o)
      BY <2>2 DEF Posting, SwiBegin, SwiAddUsed, AddUsed, SwiEnd, TypeOK
    <3>. QED BY <2>2, <3>1, CreditWriter
             DEF SwiBegin, SwiAddUsed, AddUsed, SwiEnd
  <2>. QED BY <1>8, <2>1, <2>2 DEF SwiStep
<1>9. CASE (\E e \in Endpoints, d \in Data : HostSend(e, d))
           \/ AvailBufReady \/ HostCollect \/ UNCHANGED vars
  <2>1. \A o : Posting(o)' = Posting(o)
    BY <1>9 DEF Posting, HostSend, AvailBufReady, HostCollect, vars, writerVars
  <2>. QED BY <1>9, <2>1, CreditWriter
           DEF HostSend, AvailBufReady, HostCollect, vars
<1>. QED BY <1>1, <1>2, <1>3, <1>4, <1>5, <1>6, <1>7, <1>8, <1>9 DEF Next

(* recv never meets System_abort("got a NULL payload"): the semaphore of an *)
(* endpoint that was not unblocked never counts more than its queue holds, *)
(* with any number of senders between List_put and Semaphore_post.         *)
THEOREM RecvFindsMessage ==
  ASSUME QuiescentDelete
  PROVE  Spec => []NoNullPayload
<1>1. Init => HandleInv /\ QuietInv
  BY MessageQCopyAssumption
     DEF Init, HandleInv, QuietInv, WritersLive, OffersLive, UnblockingLive
<1>2. Init => CreditInv
  BY DEF Init, CreditInv, Credited, NoNullPayload
<1>3. CreditInv => NoNullPayload
  BY DEF CreditInv
<1>. QED BY InitTypes, TypeStep, HandleStep, QuietStep, CreditStep,
            <1>1, <1>2, <1>3, PTL DEF Spec

----------------------------------------------------------------------------

(***************************************************************************)
(* Where the blocks of module.heap are.  A writer holds a block between    *)
(* HeapBuf_alloc and List_put, a reader between List_get and HeapBuf_free; *)
(* under the clients' promise nothing is put on a queue that create will   *)
(* empty.                                                                  *)
(***************************************************************************)
Fills(w, b) == wpc[w] = "put" /\ wmsg[w].blk = b
Copies(r, b) == rpc[r] = "copy" /\ payload[r] = b

Placed(b) ==
  \/ b \in heap
  \/ \E o \in Objects : b \in QueuedBlocks(o)
  \/ \E w \in Writers : Fills(w, b)
  \/ \E r \in Readers : Copies(r, b)

Distinct(q) == \A i, j \in DOMAIN q : q[i].blk = q[j].blk => i = j

\* Whoever has a block, no other place has it.
OwnedOnce(b) ==
  /\ b \in heap =>
       /\ \A o \in Objects : b \notin QueuedBlocks(o)
       /\ \A w \in Writers : ~Fills(w, b)
       /\ \A r \in Readers : ~Copies(r, b)
  /\ \A o \in Objects : b \in QueuedBlocks(o) =>
       /\ \A p \in Objects : b \in QueuedBlocks(p) => p = o
       /\ \A w \in Writers : ~Fills(w, b)
       /\ \A r \in Readers : ~Copies(r, b)
  /\ \A w \in Writers : Fills(w, b) =>
       /\ \A v \in Writers : Fills(v, b) => v = w
       /\ \A r \in Readers : ~Copies(r, b)
  /\ \A q, r \in Readers : Copies(q, b) /\ Copies(r, b) => q = r

\* Nothing is queued on memory that create may take, or delete has drained.
EmptyInv ==
  /\ \A o \in Objects : phase[o] = "free" => queue[o] = <<>>
  /\ \A r \in Readers : rpc[r] = "free" => queue[handle[r]] = <<>>

BlockInv ==
  /\ \A b \in Blocks : Placed(b) /\ OwnedOnce(b)
  /\ \A o \in Objects : Distinct(queue[o])
  /\ EmptyInv

-----------------------------------------------------------------------------
LEMMA BlocksTyped ==
  ASSUME TypeOK, NEW o \in Objects
  PROVE  QueuedBlocks(o) \subseteq Blocks
<1>1. queue[o] \in Seq(Message)
  BY DEF TypeOK
<1>2. \A i \in DOMAIN queue[o] : queue[o][i].blk \in Blocks
  BY <1>1, ElementType, MessageFields
<1>. QED BY <1>2 DEF QueuedBlocks

\* The blocks of a list to which a message is added, or of which one is taken.
BlocksOf(q) == {q[i].blk : i \in DOMAIN q}

LEMMA BlocksOfAppend ==
  ASSUME NEW q \in Seq(Message), NEW m \in Message
  PROVE  /\ BlocksOf(Append(q, m)) = BlocksOf(q) \cup {m.blk}
         /\ Distinct(q) /\ m.blk \notin BlocksOf(q) => Distinct(Append(q, m))
<1> DEFINE s == Append(q, m)
<1>1. /\ DOMAIN s = DOMAIN q \cup {Len(q) + 1} /\ Len(q) + 1 \notin DOMAIN q
      /\ s[Len(q) + 1] = m
      /\ \A i \in DOMAIN q : s[i] = q[i]
  OBVIOUS
<1>2. \A i \in DOMAIN s : s[i].blk \in BlocksOf(q) \cup {m.blk}
  BY <1>1 DEF BlocksOf
<1>3. BlocksOf(s) \subseteq BlocksOf(q) \cup {m.blk}
  BY <1>2 DEF BlocksOf
<1>4. \A i \in DOMAIN q : i \in DOMAIN s /\ s[i].blk = q[i].blk
  BY <1>1
<1>5. BlocksOf(q) \cup {m.blk} \subseteq BlocksOf(s)
  BY <1>1, <1>4 DEF BlocksOf
<1>6. ASSUME Distinct(q), m.blk \notin BlocksOf(q) PROVE Distinct(s)
  <2>1. \A i \in DOMAIN q : q[i].blk # m.blk
    BY <1>6 DEF BlocksOf
  <2>2. ASSUME NEW i \in DOMAIN s, NEW j \in DOMAIN s, s[i].blk = s[j].blk PROVE i = j
    BY <1>1, <1>6, <2>1, <2>2 DEF Distinct
  <2>. QED BY <2>2 DEF Distinct
<1>. QED BY <1>3, <1>5, <1>6

LEMMA BlocksOfTail ==
  ASSUME NEW q \in Seq(Message), q # <<>>
  PROVE  /\ BlocksOf(q) = BlocksOf(Tail(q)) \cup {Head(q).blk}
         /\ Distinct(q) => Distinct(Tail(q)) /\ Head(q).blk \notin BlocksOf(Tail(q))
<1> DEFINE s == Tail(q)
<1>1. /\ \A i \in DOMAIN s : i \in Nat /\ i # 0 /\ i + 1 \in DOMAIN q /\ s[i] = q[i + 1]
      /\ \A i \in DOMAIN q : i \in Nat /\ (i = 1 \/ (i - 1 \in DOMAIN s /\ s[i - 1] = q[i]))
      /\ 1 \in DOMAIN q /\ Head(q) = q[1]
  <2>1. /\ Len(q) \in Nat /\ Len(q) # 0 /\ DOMAIN q = 1 .. Len(q) /\ Head(q) = q[1]
        /\ Len(s) = Len(q) - 1 /\ DOMAIN s = 1 .. Len(s)
        /\ \A i \in 1 .. Len(s) : s[i] = q[i + 1]
    OBVIOUS
  <2> HIDE DEF s
  <2>2. ASSUME NEW i \in DOMAIN s PROVE i \in Nat /\ i # 0 /\ i + 1 \in DOMAIN q /\ s[i] = q[i + 1]
    <3>1. i \in 1 .. Len(s)
      BY <2>1
    <3>2. i + 1 \in 1 .. Len(q) /\ i \in Nat /\ i # 0
      BY <2>1, <3>1
    <3>. QED BY <2>1, <3>1, <3>2
  <2>3. ASSUME NEW i \in DOMAIN q, i # 1 PROVE i - 1 \in DOMAIN s /\ s[i - 1] = q[i]
    <3>1. i - 1 \in 1 .. Len(s) /\ (i - 1) + 1 = i
      BY <2>1, <2>3
    <3>. QED BY <2>1, <3>1
  <2>4. (\A i \in DOMAIN q : i \in Nat) /\ 1 \in DOMAIN q
    <3>1. \A i \in 1 .. Len(q) : i \in Nat
      OBVIOUS
    <3>2. 1 \in 1 .. Len(q)
      BY <2>1
    <3>. QED BY <2>1, <3>1, <3>2
  <2>5. \A i \in DOMAIN q : i = 1 \/ (i - 1 \in DOMAIN s /\ s[i - 1] = q[i])
    BY <2>3
  <2>6. Head(q) = q[1]
    BY <2>1
  <2>. QED BY <2>2, <2>4, <2>5, <2>6
<1>2. \A i \in DOMAIN q : q[i].blk \in BlocksOf(s) \cup {Head(q).blk}
  BY <1>1 DEF BlocksOf
<1>3. \A i \in DOMAIN s : s[i].blk \in BlocksOf(q)
  BY <1>1 DEF BlocksOf
<1>4. BlocksOf(q) \subseteq BlocksOf(s) \cup {Head(q).blk}
  BY <1>2 DEF BlocksOf
<1>5. BlocksOf(s) \cup {Head(q).blk} \subseteq BlocksOf(q)
  BY <1>1, <1>3 DEF BlocksOf
<1>6. ASSUME Distinct(q) PROVE Distinct(s) /\ Head(q).blk \notin BlocksOf(s)
  <2>1. ASSUME NEW i \in DOMAIN s, NEW j \in DOMAIN s, s[i].blk = s[j].blk PROVE i = j
    <3>1. i + 1 = j + 1
      BY <1>1, <1>6, <2>1 DEF Distinct
    <3>. QED BY <1>1, <3>1
  <2>2. \A i \in DOMAIN s : s[i].blk # Head(q).blk
    <3>1. ASSUME NEW i \in DOMAIN s, s[i].blk = Head(q).blk PROVE FALSE
      <4>1. i + 1 = 1
        BY <1>1, <1>6, <3>1 DEF Distinct
      <4>. QED BY <1>1, <4>1
    <3>. QED BY <3>1
  <2>. QED BY <2>1, <2>2 DEF Distinct, BlocksOf
<1>. QED BY <1>4, <1>5, <1>6

-----------------------------------------------------------------------------
\* What the step of a call does to the blocks; the rest of the state is the same.
blockVars == <<heap, queue, phase, rpc, handle, payload, wpc, wmsg>>

LEMMA BlockReader ==
  ASSUME TypeOK, LocalInv, HandleInv, BlockInv, NEW r \in Readers, ReaderStep(r)
  PROVE  BlockInv'
<1>h. rpc[r] # "closed" => handle[r] \in Objects /\ queue[handle[r]] \in Seq(Message)
  BY DEF TypeOK, LocalInv
<1> USE DEF objVars, readerVars, writerVars, rxVars
<1>1. CASE RecvPend(r) \/ RecvUnblocked(r) \/ RecvNotUnblocked(r)
  <2>1. /\ UNCHANGED <<heap, queue, phase, handle, payload, wpc, wmsg>>
        /\ \E to \in {"check", "unblocked", "get"} : rpc' = [rpc EXCEPT ![r] = to]
        /\ rpc[r] \in {"pend", "check"}
    BY <1>1 DEF RecvPend, PendWhen, RecvUnblocked, RecvNotUnblocked
  <2>2. \A b : /\ \A w : Fills(w, b)' = Fills(w, b)
               /\ \A q \in Readers : Copies(q, b)' = Copies(q, b)
    BY <2>1 DEF Fills, Copies, TypeOK
  <2>3. \A o : QueuedBlocks(o)' = QueuedBlocks(o)
    BY <2>1 DEF QueuedBlocks
  <2>4. \A b \in Blocks : Placed(b)' /\ OwnedOnce(b)'
    BY <2>1, <2>2, <2>3 DEF BlockInv, Placed, OwnedOnce
  <2>5. EmptyInv'
    BY <2>1 DEF BlockInv, EmptyInv, TypeOK
  <2>. QED BY <2>1, <2>4, <2>5 DEF BlockInv, Distinct
<1>2. CASE RecvGet(r)
  <2>1. /\ queue[handle[r]] # <<>>
        /\ payload' = [payload EXCEPT ![r] = Head(queue[handle[r]]).blk]
        /\ queue' = [queue EXCEPT ![handle[r]] = Tail(queue[handle[r]])]
        /\ rpc[r] = "get" /\ rpc' = [rpc EXCEPT ![r] = "copy"]
        /\ UNCHANGED <<heap, phase, handle, wpc, wmsg>>
    BY <1>2 DEF RecvGet, GetLeaving
  <2> DEFINE h == Head(queue[handle[r]]).blk
  <2>2. /\ h \in QueuedBlocks(handle[r])
        /\ QueuedBlocks(handle[r])' = QueuedBlocks(handle[r]) \ {h}
        /\ Distinct(queue'[handle[r]])
    <3>1. queue'[handle[r]] = Tail(queue[handle[r]]) /\ handle' = handle
      BY <1>h, <2>1 DEF TypeOK
    <3>2. /\ QueuedBlocks(handle[r]) = BlocksOf(queue[handle[r]])
          /\ QueuedBlocks(handle[r])' = BlocksOf(Tail(queue[handle[r]]))
      BY <3>1 DEF QueuedBlocks, BlocksOf
    <3>3. Distinct(queue[handle[r]])
      BY <1>h, <2>1 DEF BlockInv
    <3>. QED BY <1>h, <2>1, <3>1, <3>2, <3>3, BlocksOfTail
  <2>3. \A o \in Objects : o # handle[r] => QueuedBlocks(o)' = QueuedBlocks(o) /\ queue'[o] = queue[o]
    BY <1>h, <2>1 DEF QueuedBlocks, TypeOK
  <2>4. \A b : /\ \A w : Fills(w, b)' = Fills(w, b)
               /\ \A q \in Readers : Copies(q, b)' <=> Copies(q, b) \/ (q = r /\ b = h)
    BY <2>1 DEF Fills, Copies, TypeOK
  <2>5. \A b \in Blocks : Placed(b)' /\ OwnedOnce(b)'
    <3>1. ASSUME NEW b \in Blocks PROVE Placed(b)'
      BY <1>h, <2>1, <2>2, <2>3, <2>4 DEF BlockInv, Placed
    <3>2. ASSUME NEW b \in Blocks PROVE OwnedOnce(b)'
      BY <1>h, <2>1, <2>2, <2>3, <2>4 DEF BlockInv, OwnedOnce
    <3>. QED BY <3>1, <3>2
  <2>6. EmptyInv'
    BY <1>h, <2>1 DEF BlockInv, EmptyInv, HandleInv, LocalInv, TypeOK
  <2>. QED BY <2>2, <2>3, <2>5, <2>6 DEF BlockInv
<1>3. CASE RecvFree(r)
  <2>1. /\ rpc[r] = "copy" /\ rpc' = [rpc EXCEPT ![r] = "open"]
        /\ heap' = heap \cup {payload[r]} /\ payload' = [payload EXCEPT ![r] = NULL]
        /\ UNCHANGED <<queue, phase, handle, wpc, wmsg>>
    BY <1>3 DEF RecvFree
  <2>2. /\ payload[r] \in Blocks /\ Copies(r, payload[r])
        /\ \A b : /\ \A w : Fills(w, b)' = Fills(w, b)
                  /\ \A q \in Readers : Copies(q, b)' <=> Copies(q, b) /\ q # r
    BY <2>1 DEF Fills, Copies, TypeOK, LocalInv
  <2>3. \A o : QueuedBlocks(o)' = QueuedBlocks(o)
    BY <2>1 DEF QueuedBlocks
  <2>4. \A b : Copies(r, b) => b = payload[r]
    BY DEF Copies
  <2>5. ASSUME NEW b \in Blocks PROVE Placed(b)' /\ OwnedOnce(b)'
    <3>1. Placed(b)'
      BY <2>1, <2>2, <2>3, <2>4 DEF BlockInv, Placed
    <3>2. OwnedOnce(b)'
      BY <2>1, <2>2, <2>3 DEF BlockInv, OwnedOnce
    <3>. QED BY <3>1, <3>2
  <2>6. EmptyInv'
    BY <2>1 DEF BlockInv, EmptyInv, TypeOK
  <2>. QED BY <2>1, <2>5, <2>6 DEF BlockInv, Distinct
<1>4. CASE DeleteDrain(r)
  <2>1. /\ queue[handle[r]] # <<>> /\ rpc[r] = "drain"
        /\ heap' = heap \cup {Head(queue[handle[r]]).blk}
        /\ queue' = [queue EXCEPT ![handle[r]] = Tail(queue[handle[r]])]
        /\ UNCHANGED <<phase, rpc, handle, payload, wpc, wmsg>>
    BY <1>4 DEF DeleteDrain
  <2> DEFINE h == Head(queue[handle[r]]).blk
  <2>2. /\ h \in QueuedBlocks(handle[r])
        /\ QueuedBlocks(handle[r])' = QueuedBlocks(handle[r]) \ {h}
        /\ Distinct(queue'[handle[r]])
    <3>1. queue'[handle[r]] = Tail(queue[handle[r]]) /\ handle' = handle
      BY <1>h, <2>1 DEF TypeOK
    <3>2. /\ QueuedBlocks(handle[r]) = BlocksOf(queue[handle[r]])
          /\ QueuedBlocks(handle[r])' = BlocksOf(Tail(queue[handle[r]]))
      BY <3>1 DEF QueuedBlocks, BlocksOf
    <3>3. Distinct(queue[handle[r]])
      BY <1>h, <2>1 DEF BlockInv
    <3>. QED BY <1>h, <2>1, <3>1, <3>2, <3>3, BlocksOfTail
  <2>3. \A o \in Objects : o # handle[r] => QueuedBlocks(o)' = QueuedBlocks(o) /\ queue'[o] = queue[o]
    BY <1>h, <2>1 DEF QueuedBlocks, TypeOK
  <2>4. \A b : (\A w : Fills(w, b)' = Fills(w, b)) /\ \A q : Copies(q, b)' = Copies(q, b)
    BY <2>1 DEF Fills, Copies
  <2>5. ASSUME NEW b \in Blocks PROVE Placed(b)' /\ OwnedOnce(b)'
    <3>1. Placed(b)'
      BY <1>h, <2>1, <2>2, <2>3, <2>4 DEF BlockInv, Placed
    <3>2. OwnedOnce(b)'
      BY <1>h, <2>1, <2>2, <2>3, <2>4 DEF BlockInv, OwnedOnce
    <3>. QED BY <3>1, <3>2
  <2>6. EmptyInv'
    BY <1>h, <2>1 DEF BlockInv, EmptyInv, HandleInv, LocalInv, TypeOK
  <2>. QED BY <2>2, <2>3, <2>5, <2>6 DEF BlockInv
<1>5. CASE DeleteSlot(r) \/ DeleteFree(r)
  <2>1. /\ UNCHANGED <<heap, queue, payload, wpc, wmsg>>
        /\ rpc[r] \in {"drain", "free"} /\ \E to \in {"free", "closed"} : rpc' = [rpc EXCEPT ![r] = to]
    BY <1>5 DEF DeleteSlot, NullSlotWhen, DeleteFree
  <2>2. \A b : (\A w : Fills(w, b)' = Fills(w, b)) /\ \A q \in Readers : Copies(q, b)' = Copies(q, b)
    BY <2>1 DEF Fills, Copies, TypeOK
  <2>3. \A o : QueuedBlocks(o)' = QueuedBlocks(o)
    BY <2>1 DEF QueuedBlocks
  <2>4. \A b \in Blocks : Placed(b)' /\ OwnedOnce(b)'
    BY <2>1, <2>2, <2>3 DEF BlockInv, Placed, OwnedOnce
  <2>5. EmptyInv'
    <3>1. CASE DeleteSlot(r)
      BY <3>1 DEF DeleteSlot, NullSlotWhen, BlockInv, EmptyInv, TypeOK
    <3>2. CASE DeleteFree(r)
      <4>1. queue[handle[r]] = <<>> /\ handle[r] \in Objects
        BY <1>h, <3>2 DEF DeleteFree, BlockInv, EmptyInv
      <4>2. \A q \in Readers : rpc'[q] = "free" => rpc[q] = "free" /\ handle'[q] = handle[q]
        BY <3>2 DEF DeleteFree, TypeOK
      <4>. QED BY <2>1, <3>2, <4>1, <4>2 DEF DeleteFree, BlockInv, EmptyInv, TypeOK
    <3>. QED BY <1>5, <3>1, <3>2
  <2>. QED BY <2>1, <2>4, <2>5 DEF BlockInv, Distinct
<1>. QED BY <1>1, <1>2, <1>3, <1>4, <1>5 DEF ReaderStep

LEMMA BlockSend ==
  ASSUME TypeOK, LocalInv, HandleInv, QuietInv, BlockInv, NEW w \in Writers, SendStep(w)
  PROVE  BlockInv'
<1> USE DEF objVars, readerVars, writerVars, rxVars
<1>1. ASSUME NEW b \in Blocks, SendAlloc(w, b) PROVE BlockInv'
  <2>1. /\ b \in heap /\ heap' = heap \ {b} /\ wpc[w] = "alloc"
        /\ wmsg' = [wmsg EXCEPT ![w] = [blk |-> b, data |-> wmsg[w].data]]
        /\ wpc' = [wpc EXCEPT ![w] = "put"]
        /\ UNCHANGED <<queue, phase, rpc, handle, payload>>
    BY <1>1 DEF SendAlloc
  <2>2. \A c : /\ \A v \in Writers : Fills(v, c)' <=> Fills(v, c) \/ (v = w /\ c = b)
               /\ \A r : Copies(r, c)' = Copies(r, c)
    BY <2>1 DEF Fills, Copies, TypeOK
  <2>3. \A o : QueuedBlocks(o)' = QueuedBlocks(o)
    BY <2>1 DEF QueuedBlocks
  <2>4. ASSUME NEW c \in Blocks PROVE Placed(c)' /\ OwnedOnce(c)'
    <3>1. Placed(c)'
      BY <2>1, <2>2, <2>3 DEF BlockInv, Placed
    <3>2. OwnedOnce(c)'
      BY <2>1, <2>2, <2>3 DEF BlockInv, OwnedOnce
    <3>. QED BY <3>1, <3>2
  <2>5. EmptyInv'
    BY <2>1 DEF BlockInv, EmptyInv
  <2>. QED BY <2>1, <2>4, <2>5 DEF BlockInv, Distinct
<1>2. CASE SendNoMemory(w) \/ SendPost(w)
  <2>1. /\ wpc[w] \in {"alloc", "post"} /\ wpc' = [wpc EXCEPT ![w] = Returned(w)]
        /\ wmsg' = [wmsg EXCEPT ![w] = NoMsg]
        /\ UNCHANGED <<heap, queue, phase, rpc, handle, payload>>
    BY <1>2 DEF SendNoMemory, SendPost, PostBy, Leave
  <2>2. \A c : (\A v \in Writers : Fills(v, c)' = Fills(v, c)) /\ \A r : Copies(r, c)' = Copies(r, c)
    BY <2>1 DEF Fills, Copies, TypeOK, Returned
  <2>3. \A o : QueuedBlocks(o)' = QueuedBlocks(o)
    BY <2>1 DEF QueuedBlocks
  <2>4. \A b \in Blocks : Placed(b)' /\ OwnedOnce(b)'
    BY <2>1, <2>2, <2>3 DEF BlockInv, Placed, OwnedOnce
  <2>5. EmptyInv'
    BY <2>1 DEF BlockInv, EmptyInv
  <2>. QED BY <2>1, <2>4, <2>5 DEF BlockInv, Distinct
<1>3. CASE SendPut(w)
  <2>1. /\ wpc[w] = "put" /\ wpc' = [wpc EXCEPT ![w] = "post"]
        /\ queue' = [queue EXCEPT ![wobj[w]] = Append(queue[wobj[w]], wmsg[w])]
        /\ UNCHANGED <<heap, phase, rpc, handle, payload, wmsg, wobj>>
        /\ wobj[w] \in Objects /\ wobj[w] # NULL /\ queue[wobj[w]] \in Seq(Message)
        /\ wmsg[w] \in Message
    BY <1>3, MessageOf DEF SendPut, PutAs, TypeOK, LocalInv
  <2> DEFINE b == wmsg[w].blk
             o == wobj[w]
  <2>2. b \in Blocks /\ Fills(w, b)
    BY <2>1, MessageFields DEF Fills
  <2>3. /\ QueuedBlocks(o)' = QueuedBlocks(o) \cup {b} /\ Distinct(queue'[o])
    <3>1. queue'[o] = Append(queue[o], wmsg[w]) /\ wobj' = wobj
      BY <2>1 DEF TypeOK
    <3>2. /\ QueuedBlocks(o) = BlocksOf(queue[o])
          /\ QueuedBlocks(o)' = BlocksOf(Append(queue[o], wmsg[w]))
      BY <3>1 DEF QueuedBlocks, BlocksOf
    <3>3. Distinct(queue[o]) /\ b \notin QueuedBlocks(o)
      BY <2>1, <2>2 DEF BlockInv, OwnedOnce
    <3>. QED BY <2>1, <3>1, <3>2, <3>3, BlocksOfAppend
  <2>4. \A p \in Objects : p # o => QueuedBlocks(p)' = QueuedBlocks(p) /\ queue'[p] = queue[p]
    BY <2>1 DEF QueuedBlocks, TypeOK
  <2>5. \A c : /\ \A v \in Writers : Fills(v, c)' <=> Fills(v, c) /\ v # w
               /\ \A r : Copies(r, c)' = Copies(r, c)
    BY <2>1 DEF Fills, Copies, TypeOK
  <2>6. \A c : Fills(w, c) => c = b
    BY DEF Fills
  <2>7. ASSUME NEW c \in Blocks PROVE Placed(c)' /\ OwnedOnce(c)'
    <3>1. Placed(c)'
      BY <2>1, <2>3, <2>4, <2>5, <2>6 DEF BlockInv, Placed
    <3>2. OwnedOnce(c)'
      BY <2>1, <2>2, <2>3, <2>4, <2>5 DEF BlockInv, OwnedOnce
    <3>. QED BY <3>1, <3>2
  <2>8. phase[o] = "live"
    BY <2>1 DEF QuietInv, WritersLive
  <2>9. \A r \in Readers : rpc[r] = "free" => handle[r] # o
    BY <2>8 DEF HandleInv
  <2>10. EmptyInv'
    BY <2>1, <2>8, <2>9 DEF BlockInv, EmptyInv, TypeOK
  <2>. QED BY <2>3, <2>4, <2>7, <2>10 DEF BlockInv
<1>. QED BY <1>1, <1>2, <1>3 DEF SendStep

LEMMA BlockStep ==
  ASSUME QuiescentDelete
  PROVE  TypeOK /\ LocalInv /\ HandleInv /\ QuietInv /\ BlockInv /\ [Next]_vars => BlockInv'
<1> SUFFICES ASSUME TypeOK, LocalInv, HandleInv, QuietInv, BlockInv, [Next]_vars
             PROVE  BlockInv'
  OBVIOUS
<1> DEFINE Same ==
      /\ UNCHANGED <<heap, queue, phase>>
      /\ \A b : /\ \A w \in Writers : Fills(w, b)' = Fills(w, b)
                /\ \A q \in Readers : Copies(q, b)' = Copies(q, b)
      /\ \A r \in Readers : rpc'[r] = "free" => rpc[r] = "free" /\ handle'[r] = handle[r]
<1>s. Same => BlockInv'
  <2> SUFFICES ASSUME Same PROVE BlockInv'
    OBVIOUS
  <2>1. \A o : QueuedBlocks(o)' = QueuedBlocks(o)
    BY DEF QueuedBlocks
  <2>2. \A b \in Blocks : Placed(b)' /\ OwnedOnce(b)'
    BY <2>1 DEF BlockInv, Placed, OwnedOnce
  <2>. QED BY <2>2 DEF BlockInv, Distinct, EmptyInv
<1>u. UNCHANGED blockVars => Same
  BY DEF blockVars, Fills, Copies
<1> USE DEF objVars, readerVars, writerVars, rxVars
<1>1. ASSUME NEW r \in Readers, NEW e \in Endpoints, NEW o \in Objects, Create(r, e, o)
      PROVE  BlockInv'
  <2>1. /\ phase[o] = "free" /\ phase' = [phase EXCEPT ![o] = "live"]
        /\ queue' = [queue EXCEPT ![o] = <<>>] /\ queue[o] = <<>>
        /\ rpc[r] = "closed" /\ rpc' = [rpc EXCEPT ![r] = "open"]
        /\ handle' = [handle EXCEPT ![r] = o]
        /\ UNCHANGED <<heap, payload, wpc, wmsg>>
    BY <1>1 DEF Create, BlockInv, EmptyInv
  <2>2. queue' = queue
    BY <2>1 DEF TypeOK
  <2>3. \A b : /\ \A w \in Writers : Fills(w, b)' = Fills(w, b)
               /\ \A q \in Readers : Copies(q, b)' = Copies(q, b)
    BY <2>1 DEF Fills, Copies, TypeOK
  <2>4. \A p : QueuedBlocks(p)' = QueuedBlocks(p)
    BY <2>2 DEF QueuedBlocks
  <2>5. \A b \in Blocks : Placed(b)' /\ OwnedOnce(b)'
    BY <2>1, <2>3, <2>4 DEF BlockInv, Placed, OwnedOnce
  <2>6. EmptyInv'
    BY <2>1, <2>2 DEF BlockInv, EmptyInv, TypeOK
  <2>. QED BY <2>2, <2>5, <2>6 DEF BlockInv, Distinct
<1>2. ASSUME NEW r \in Readers, RecvCall(r) \/ RecvTimeout(r) PROVE BlockInv'
  <2>1. Same
    BY <1>2 DEF RecvCall, RecvTimeout, Fills, Copies, TypeOK
  <2>. QED BY <2>1, <1>s
<1>3. ASSUME NEW r \in Readers, DeleteSem(r) PROVE BlockInv'
  <2>1. /\ rpc[r] \in {"open", "unblocked"} /\ rpc' = [rpc EXCEPT ![r] = "drain"]
        /\ phase' = [phase EXCEPT ![handle[r]] = "dying"]
        /\ UNCHANGED <<heap, queue, handle, payload, wpc, wmsg>>
    BY <1>3 DEF DeleteSem
  <2>2. \A b : /\ \A w \in Writers : Fills(w, b)' = Fills(w, b)
               /\ \A q \in Readers : Copies(q, b)' = Copies(q, b)
    BY <2>1 DEF Fills, Copies, TypeOK
  <2>3. \A o : QueuedBlocks(o)' = QueuedBlocks(o)
    BY <2>1 DEF QueuedBlocks
  <2>4. \A b \in Blocks : Placed(b)' /\ OwnedOnce(b)'
    BY <2>1, <2>2, <2>3 DEF BlockInv, Placed, OwnedOnce
  <2>5. EmptyInv'
    BY <2>1 DEF BlockInv, EmptyInv, TypeOK
  <2>. QED BY <2>1, <2>4, <2>5 DEF BlockInv, Distinct
<1>4. ASSUME NEW r \in Readers, ReaderStep(r) PROVE BlockInv'
  BY <1>4, BlockReader
<1>5. ASSUME NEW w \in Writers, NEW e \in Endpoints, NEW d \in Data,
             wpc[w] \in {"idle", "loop"}, Lookup(w, e, d)
      PROVE  BlockInv'
  <2>1. Same
    BY <1>5 DEF Lookup, Returned, Fills, Copies, TypeOK
  <2>. QED BY <2>1, <1>s
<1>6. ASSUME NEW s \in Senders, NEW e \in Endpoints, NEW d \in Data, LocalSend(s, e, d)
      PROVE  BlockInv'
  BY <1>6, <1>5 DEF LocalSend, Writers
<1>7. ASSUME NEW w \in Writers, SendStep(w) PROVE BlockInv'
  BY <1>7, BlockSend
<1>8. CASE SwiStep
  <2>w. Swi \in Writers
    BY DEF Writers
  <2>1. CASE SwiSend
    <3>1. Head(rxAvail) \in [ep : Endpoints, data : Data]
      BY <2>1, HeadTail DEF SwiSend, TypeOK
    <3>. QED BY <2>1, <2>w, <3>1, <1>5 DEF SwiSend
  <2>2. CASE SwiBegin \/ SwiAddUsed \/ SwiEnd
    <3>1. Same
      BY <2>2, <2>w DEF SwiBegin, SwiAddUsed, AddUsed, SwiEnd, Fills, Copies, TypeOK
    <3>. QED BY <3>1, <1>s
  <2>. QED BY <1>8, <2>1, <2>2 DEF SwiStep
<1>9. ASSUME NEW o \in Objects, UnblockFlag(o) \/ UnblockPost(o) PROVE BlockInv'
  BY <1>9, <1>s, <1>u DEF UnblockFlag, SetFlag, UnblockPost, UnblockPostBy, blockVars
<1>10. CASE (\E e \in Endpoints, d \in Data : HostSend(e, d)) \/ AvailBufReady \/ HostCollect
  BY <1>10, <1>s, <1>u DEF HostSend, AvailBufReady, HostCollect, blockVars
<1>11. CASE UNCHANGED vars
  BY <1>11, <1>s, <1>u DEF vars, blockVars
<1>. QED BY <1>1, <1>2, <1>3, <1>4, <1>6, <1>7, <1>8, <1>9, <1>10, <1>11 DEF Next

LEMMA BlockInitially == Init => BlockInv
<1> SUFFICES ASSUME Init PROVE BlockInv
  OBVIOUS
<1>1. \A o \in Objects : queue[o] = <<>>
  BY DEF Init
<1>2. \A o \in Objects : QueuedBlocks(o) = {}
  BY <1>1 DEF QueuedBlocks
<1>3. \A b \in Blocks : Placed(b)
  BY DEF Init, Placed
<1>4. \A b \in Blocks : OwnedOnce(b)
  BY <1>2 DEF Init, OwnedOnce, Fills, Copies
<1>. QED BY <1>1, <1>3, <1>4 DEF Init, BlockInv, Distinct, EmptyInv

LEMMA BlocksAreOwned == TypeOK /\ LocalInv /\ BlockInv => EveryBlockHasOnePlace
<1> SUFFICES ASSUME TypeOK, LocalInv, BlockInv PROVE EveryBlockHasOnePlace
  OBVIOUS
<1>1. \A o \in Objects : QueuedBlocks(o) \subseteq Blocks
  BY BlocksTyped
<1>2. \A b : b \in WriterBlocks <=> \E w \in Writers : Fills(w, b)
  BY DEF WriterBlocks, Fills
<1>3. \A b : b \in ReaderBlocks <=> \E r \in Readers : Copies(r, b)
  BY DEF ReaderBlocks, Copies
<1>4. WriterBlocks \subseteq Blocks /\ ReaderBlocks \subseteq Blocks
  BY DEF WriterBlocks, ReaderBlocks, LocalInv
<1>5. heap \subseteq Blocks
  BY DEF TypeOK
<1>6. BlockHasPlace
  <2>1. (UNION {QueuedBlocks(o) : o \in Objects}) \subseteq Blocks
    BY <1>1
  <2>2. \A b \in Blocks : b \in heap \cup (UNION {QueuedBlocks(o) : o \in Objects})
                                 \cup WriterBlocks \cup ReaderBlocks
    BY <1>2, <1>3 DEF BlockInv, Placed
  <2>3. (heap \cup (UNION {QueuedBlocks(o) : o \in Objects}) \cup WriterBlocks \cup ReaderBlocks)
          \subseteq Blocks
    BY <1>4, <1>5, <2>1
  <2>. QED BY <2>2, <2>3 DEF BlockHasPlace
<1>7. PlaceIsOwn
  <2>1. ASSUME NEW o \in Objects
        PROVE  /\ QueuedBlocks(o) \cap (heap \cup WriterBlocks \cup ReaderBlocks) = {}
               /\ \A p \in Objects \ {o} : QueuedBlocks(o) \cap QueuedBlocks(p) = {}
    BY <1>1, <1>2, <1>3 DEF BlockInv, OwnedOnce
  <2>2. \A o \in Objects : \A i, j \in DOMAIN queue[o] :
          queue[o][i].blk = queue[o][j].blk => i = j
    BY DEF BlockInv, Distinct
  <2>3. (WriterBlocks \cup ReaderBlocks) \cap heap = {} /\ WriterBlocks \cap ReaderBlocks = {}
    BY <1>2, <1>3, <1>4 DEF BlockInv, OwnedOnce
  <2>4. \A v, w \in Writers :
          wpc[v] = "put" /\ wpc[w] = "put" /\ wmsg[v].blk = wmsg[w].blk => v = w
    BY DEF BlockInv, OwnedOnce, Fills, LocalInv
  <2>5. \A q, r \in Readers :
          rpc[q] = "copy" /\ rpc[r] = "copy" /\ payload[q] = payload[r] => q = r
    BY DEF BlockInv, OwnedOnce, Copies, LocalInv
  <2>. QED BY <2>1, <2>2, <2>3, <2>4, <2>5 DEF PlaceIsOwn
<1>. QED BY <1>6, <1>7 DEF EveryBlockHasOnePlace

(* No block of the heap is lost or in use twice, whatever fails: a message *)
(* that is refused, a queue that is drained by delete, a reader that is    *)
(* unblocked (MessageQCopy_send, _recv, _delete).                          *)
THEOREM BlockTheorem ==
  ASSUME QuiescentDelete
  PROVE  Spec => []EveryBlockHasOnePlace
<1>1. Init => HandleInv /\ QuietInv
  BY MessageQCopyAssumption DEF Init, HandleInv, QuietInv, WritersLive, OffersLive, UnblockingLive
<1>. QED BY InitTypes, TypeStep, HandleStep, QuietStep, BlockInitially, BlockStep, BlocksAreOwned,
            <1>1, PTL DEF Spec

-----------------------------------------------------------------------------
(* The Swi has not ended, and knows that it has returned a buffer, as long *)
(* as the host has not been told of one.                                   *)
ToldInv == rxUsed > 0 => hostIrq \/ (wpc[Swi] # "idle" /\ usedBufAdded)

LEMMA ToldStep == TypeOK /\ LocalInv /\ ToldInv /\ [Next]_vars => ToldInv'
<1> SUFFICES ASSUME TypeOK, LocalInv, ToldInv, [Next]_vars PROVE ToldInv'
  OBVIOUS
<1> USE DEF objVars, readerVars, writerVars, rxVars
<1>w. Swi \in Writers /\ Swi \notin Senders
  BY MessageQCopyAssumption DEF Writers
<1>u. UNCHANGED <<rxUsed, hostIrq, wpc, usedBufAdded>> => ToldInv'
  BY DEF ToldInv
<1>1. ASSUME NEW r \in Readers,
             \/ \E e \in Endpoints, o \in Objects : Create(r, e, o)
             \/ RecvCall(r) \/ RecvTimeout(r) \/ DeleteSem(r) \/ ReaderStep(r)
      PROVE  ToldInv'
  BY <1>1, <1>u DEF Create, RecvCall, RecvTimeout, DeleteSem, ReaderStep, RecvPend, PendWhen,
                    RecvUnblocked, RecvNotUnblocked, RecvGet, GetLeaving, RecvFree, DeleteDrain,
                    DeleteSlot, NullSlotWhen, DeleteFree
<1>2. ASSUME NEW w \in Writers,
             UNCHANGED <<rxUsed, hostIrq, usedBufAdded>>,
             \E to \in {"alloc", "put", "post", Returned(w)} : wpc' = [wpc EXCEPT ![w] = to]
      PROVE  ToldInv'
  BY <1>2, <1>w DEF ToldInv, Returned, TypeOK
<1>3. ASSUME NEW s \in Senders, NEW e \in Endpoints, NEW d \in Data, LocalSend(s, e, d)
      PROVE  ToldInv'
  <2>1. s \in Writers
    BY DEF Writers
  <2>. QED BY <1>2, <1>3, <2>1 DEF LocalSend, Lookup
<1>4. ASSUME NEW w \in Writers, SendStep(w) PROVE ToldInv'
  BY <1>2, <1>4 DEF SendStep, SendAlloc, SendNoMemory, SendPut, PutAs, SendPost, PostBy, Leave
<1>5. ASSUME NEW o \in Objects, UnblockFlag(o) \/ UnblockPost(o) PROVE ToldInv'
  BY <1>5, <1>u DEF UnblockFlag, SetFlag, UnblockPost, UnblockPostBy
<1>6. CASE SwiBegin
  BY <1>6, <1>w DEF SwiBegin, ToldInv, TypeOK
<1>7. CASE SwiSend
  BY <1>7, <1>2, <1>w DEF SwiSend, Lookup
<1>8. CASE SwiAddUsed
  BY <1>8, <1>w DEF SwiAddUsed, AddUsed, ToldInv, TypeOK
<1>9. CASE SwiEnd
  BY <1>9, <1>w DEF SwiEnd, ToldInv, TypeOK
<1>10. CASE (\E e \in Endpoints, d \in Data : HostSend(e, d)) \/ AvailBufReady
  BY <1>10, <1>u DEF HostSend, AvailBufReady
<1>11. CASE HostCollect
  BY <1>11 DEF HostCollect, ToldInv
<1>12. CASE UNCHANGED vars
  BY <1>12, <1>u DEF vars
<1>. QED BY <1>1, <1>3, <1>4, <1>5, <1>6, <1>7, <1>8, <1>9, <1>10, <1>11, <1>12 DEF Next, SwiStep

(* The Swi sleeps only when the host has been told of every buffer it has  *)
(* given back, delivered or dropped (MessageQCopy_swiFxn).                 *)
THEOREM HostTheorem == Spec => []HostIsTold
<1>1. Init => ToldInv
  BY DEF Init, ToldInv
<1>2. ToldInv => HostIsTold
  BY DEF ToldInv, HostIsTold
<1>. QED BY InitTypes, TypeStep, ToldStep, <1>1, <1>2, PTL DEF Spec

-----------------------------------------------------------------------------
(***************************************************************************)
(* Mailboxes.  A live object is in its slot, so that what is put on its    *)
(* queue is delivered to one endpoint; what a late writer puts on a dying  *)
(* or a free one is in no box.                                             *)
(***************************************************************************)
SlotInv == \A o \in Objects : phase[o] = "live" => msgqObjects[queueId[o]] = o

Mail(q) == [i \in DOMAIN q |-> q[i].data]
BoxOf(e) ==
  IF msgqObjects[e] = NULL \/ Dying(e) THEN NULL ELSE Mail(queue[msgqObjects[e]])
Boxes == [e \in Endpoints |-> BoxOf(e)]

LEMMA MailTypes ==
  ASSUME NEW q \in Seq(Message)
  PROVE  Mail(q) \in Seq(Data) /\ Mail(q) # NULL /\ (Mail(q) = <<>> <=> q = <<>>)
<1>1. \A i \in DOMAIN q : q[i].data \in Data
  BY ElementType, MessageFields
<1>2. Len(q) \in Nat /\ DOMAIN q = 1 .. Len(q)
  OBVIOUS
<1>3. Mail(q) \in [1 .. Len(q) -> Data]
  BY <1>1, <1>2 DEF Mail
<1>4. Mail(q) \in Seq(Data) /\ Len(Mail(q)) = Len(q)
  BY <1>2, <1>3
<1>5. Mail(q) # NULL
  BY <1>4, MessageQCopyAssumption
<1>. QED BY <1>4, <1>5

LEMMA MailAppend ==
  ASSUME NEW q \in Seq(Message), NEW m \in Message
  PROVE  Mail(Append(q, m)) = Append(Mail(q), m.data)
<1>1. /\ Append(q, m) \in Seq(Message) /\ Len(Append(q, m)) = Len(q) + 1
      /\ \A i \in 1 .. Len(q) : Append(q, m)[i] = q[i]
      /\ Append(q, m)[Len(q) + 1] = m
      /\ Len(q) \in Nat
  OBVIOUS
<1>2. /\ Mail(q) \in Seq(Data) /\ m.data \in Data
      /\ Mail(Append(q, m)) \in Seq(Data)
  BY <1>1, MailTypes, MessageFields
<1> DEFINE a == Mail(Append(q, m))
           b == Append(Mail(q), m.data)
<1>3. Len(Mail(q)) = Len(q) /\ Len(a) = Len(q) + 1
  <2>1. DOMAIN Mail(q) = DOMAIN q /\ DOMAIN a = DOMAIN Append(q, m)
    BY DEF Mail
  <2>. QED BY <1>1, <1>2, <2>1
<1>4. /\ b \in Seq(Data) /\ Len(b) = Len(q) + 1 /\ b[Len(q) + 1] = m.data
      /\ \A i \in 1 .. Len(q) : b[i] = Mail(q)[i]
  BY <1>2, <1>3
<1>5. ASSUME NEW i \in 1 .. Len(q) + 1 PROVE a[i] = b[i]
  <2>1. i \in DOMAIN Append(q, m)
    BY <1>1
  <2>2. a[i] = Append(q, m)[i].data
    BY <2>1 DEF Mail
  <2>3. CASE i = Len(q) + 1
    BY <1>1, <1>4, <2>2, <2>3
  <2>4. CASE i # Len(q) + 1
    <3>1. i \in 1 .. Len(q) /\ i \in DOMAIN q
      BY <1>1, <2>4
    <3>2. Mail(q)[i] = q[i].data
      BY <3>1 DEF Mail
    <3>. QED BY <1>1, <1>4, <2>2, <3>1, <3>2
  <2>. QED BY <2>3, <2>4
<1>. QED BY <1>2, <1>3, <1>4, <1>5, SeqEqual

LEMMA MailTail ==
  ASSUME NEW q \in Seq(Message), q # <<>>
  PROVE  Mail(Tail(q)) = Tail(Mail(q))
<1>1. /\ Tail(q) \in Seq(Message) /\ Len(Tail(q)) = Len(q) - 1
      /\ \A i \in 1 .. Len(q) - 1 : Tail(q)[i] = q[i + 1]
      /\ Len(q) \in Nat /\ Len(q) # 0
  OBVIOUS
<1>2. Mail(q) \in Seq(Data) /\ Mail(q) # <<>> /\ Mail(Tail(q)) \in Seq(Data)
  BY <1>1, MailTypes
<1> DEFINE a == Mail(Tail(q))
           b == Tail(Mail(q))
<1>3. Len(Mail(q)) = Len(q) /\ Len(a) = Len(q) - 1
  <2>1. DOMAIN Mail(q) = DOMAIN q /\ DOMAIN a = DOMAIN Tail(q)
    BY DEF Mail
  <2>2. Len(Mail(q)) = Len(q)
    BY <1>2, <2>1
  <2>3. \A s, t \in Seq(Data) \cup Seq(Message) : DOMAIN s = DOMAIN t => Len(s) = Len(t)
    OBVIOUS
  <2>4. Len(a) = Len(Tail(q))
    BY <1>1, <1>2, <2>1, <2>3
  <2>. QED BY <1>1, <2>2, <2>4
<1>4. /\ b \in Seq(Data) /\ Len(b) = Len(q) - 1
      /\ \A i \in 1 .. Len(q) - 1 : b[i] = Mail(q)[i + 1]
  BY <1>2, <1>3
<1>5. ASSUME NEW i \in 1 .. Len(q) - 1 PROVE a[i] = b[i]
  <2>1. i \in DOMAIN Tail(q) /\ i + 1 \in DOMAIN q
    BY <1>1
  <2>2. a[i] = Tail(q)[i].data /\ Mail(q)[i + 1] = q[i + 1].data
    BY <2>1 DEF Mail
  <2>. QED BY <1>1, <1>4, <2>2
<1>. QED BY <1>2, <1>3, <1>4, <1>5, SeqEqual

-----------------------------------------------------------------------------
LEMMA SlotStep ==
  TypeOK /\ LocalInv /\ HandleInv /\ SlotInv /\ [Next]_vars => SlotInv'
<1> SUFFICES ASSUME TypeOK, LocalInv, HandleInv, SlotInv, [Next]_vars PROVE SlotInv'
  OBVIOUS
<1>u. UNCHANGED <<msgqObjects, phase, queueId>> => SlotInv'
  BY DEF SlotInv
<1>h. \A r \in Readers : rpc[r] # "closed" => handle[r] \in Objects /\ handle[r] # NULL
  BY MessageQCopyAssumption DEF TypeOK, LocalInv
<1> USE DEF objVars, readerVars, writerVars, rxVars
<1>1. ASSUME NEW r \in Readers, NEW e \in Endpoints, NEW o \in Objects, Create(r, e, o)
      PROVE  SlotInv'
  <2>1. msgqObjects[e] = NULL
    BY <1>1 DEF Create, Assignable, FreeAbove
  <2>2. ASSUME NEW p \in Objects, phase'[p] = "live", p # o PROVE msgqObjects'[queueId'[p]] = p
    <3>1. /\ msgqObjects[queueId[p]] = p /\ p # NULL /\ queueId[p] \in Endpoints
          /\ queueId'[p] = queueId[p]
      BY <1>1, <2>2, MessageQCopyAssumption DEF Create, SlotInv, TypeOK
    <3>. QED BY <1>1, <2>1, <3>1 DEF Create, TypeOK
  <2>3. msgqObjects'[queueId'[o]] = o
    BY <1>1 DEF Create, TypeOK
  <2>. QED BY <2>2, <2>3 DEF SlotInv
<1>2. ASSUME NEW r \in Readers, DeleteSem(r) \/ DeleteFree(r) PROVE SlotInv'
  BY <1>2 DEF DeleteSem, DeleteFree, SlotInv, TypeOK
<1>3. ASSUME NEW r \in Readers, DeleteSlot(r) PROVE SlotInv'
  <2>1. /\ handle[r] \in Objects /\ handle[r] # NULL /\ phase[handle[r]] = "dying"
        /\ msgqObjects[queueId[handle[r]]] = handle[r]
        /\ msgqObjects' = [msgqObjects EXCEPT ![queueId[handle[r]]] = NULL]
        /\ UNCHANGED <<phase, queueId>>
    BY <1>3, <1>h DEF DeleteSlot, NullSlotWhen, HandleInv
  <2>. QED BY <2>1 DEF SlotInv, TypeOK
<1>4. ASSUME NEW r \in Readers,
             RecvCall(r) \/ RecvTimeout(r) \/ (ReaderStep(r) /\ ~DeleteSlot(r) /\ ~DeleteFree(r))
      PROVE  SlotInv'
  BY <1>4, <1>u DEF RecvCall, RecvTimeout, ReaderStep, RecvPend, PendWhen, RecvUnblocked,
                    RecvNotUnblocked, RecvGet, GetLeaving, RecvFree, DeleteDrain
<1>5. ASSUME NEW s \in Senders, NEW e \in Endpoints, NEW d \in Data, LocalSend(s, e, d)
      PROVE  SlotInv'
  BY <1>5, <1>u DEF LocalSend, Lookup
<1>6. ASSUME NEW w \in Writers, SendStep(w) PROVE SlotInv'
  BY <1>6, <1>u DEF SendStep, SendAlloc, SendNoMemory, SendPut, PutAs, SendPost, PostBy
<1>7. ASSUME NEW o \in Objects, UnblockFlag(o) \/ UnblockPost(o) PROVE SlotInv'
  BY <1>7, <1>u DEF UnblockFlag, SetFlag, UnblockPost, UnblockPostBy
<1>8. CASE SwiStep
  BY <1>8, <1>u DEF SwiStep, SwiBegin, SwiSend, Lookup, SwiAddUsed, AddUsed, SwiEnd
<1>9. CASE (\E e \in Endpoints, d \in Data : HostSend(e, d)) \/ AvailBufReady \/ HostCollect
  BY <1>9, <1>u DEF HostSend, AvailBufReady, HostCollect
<1>10. CASE UNCHANGED vars
  BY <1>10, <1>u DEF vars
<1>. QED BY <1>1, <1>2, <1>3, <1>4, <1>5, <1>6, <1>7, <1>8, <1>9, <1>10 DEF Next, ReaderStep

\* The boxes where one or none has changed.
LEMMA OneBox ==
  ASSUME NEW e \in Endpoints, NEW v, BoxOf(e)' = v,
         \A x \in Endpoints : x # e => BoxOf(x)' = BoxOf(x)
  PROVE  Boxes' = [Boxes EXCEPT ![e] = v]
BY DEF Boxes

LEMMA NoBox ==
  ASSUME \A x \in Endpoints : BoxOf(x)' = BoxOf(x)
  PROVE  Boxes' = Boxes
BY DEF Boxes

\* The object of a live endpoint, and no other endpoint's.
LEMMA LiveSlot ==
  ASSUME TypeOK, HandleInv, SlotInv, NEW o \in Objects, phase[o] = "live"
  PROVE  /\ queueId[o] \in Endpoints /\ msgqObjects[queueId[o]] = o /\ o # NULL
         /\ \A x \in Endpoints : msgqObjects[x] = o => x = queueId[o]
         /\ queue[o] \in Seq(Message) /\ BoxOf(queueId[o]) = Mail(queue[o])
BY MessageQCopyAssumption DEF TypeOK, HandleInv, SlotInv, BoxOf, Dying

LEMMA BoxStep ==
  TypeOK /\ LocalInv /\ HandleInv /\ SlotInv /\ [Next]_vars
    => [\E e \in Endpoints :
          \/ Boxes[e] = NULL /\ Boxes' = [Boxes EXCEPT ![e] = <<>>]
          \/ Boxes[e] # NULL /\ Boxes' = [Boxes EXCEPT ![e] = NULL]
          \/ Boxes[e] \notin {NULL, <<>>} /\ Boxes' = [Boxes EXCEPT ![e] = Tail(@)]
          \/ \E d \in Data : Boxes[e] # NULL /\ Boxes' = [Boxes EXCEPT ![e] = Append(@, d)]]_Boxes
<1> DEFINE BoxNext ==
      \E e \in Endpoints :
          \/ Boxes[e] = NULL /\ Boxes' = [Boxes EXCEPT ![e] = <<>>]
          \/ Boxes[e] # NULL /\ Boxes' = [Boxes EXCEPT ![e] = NULL]
          \/ Boxes[e] \notin {NULL, <<>>} /\ Boxes' = [Boxes EXCEPT ![e] = Tail(@)]
          \/ \E d \in Data : Boxes[e] # NULL /\ Boxes' = [Boxes EXCEPT ![e] = Append(@, d)]
<1> SUFFICES ASSUME TypeOK, LocalInv, HandleInv, SlotInv, [Next]_vars
             PROVE  BoxNext \/ Boxes' = Boxes
  OBVIOUS
<1>u. UNCHANGED <<msgqObjects, phase, queue>> => Boxes' = Boxes
  BY DEF Boxes, BoxOf, Dying
<1>b. \A e \in Endpoints : Boxes[e] = BoxOf(e)
  BY DEF Boxes
<1>h. \A r \in Readers : rpc[r] # "closed" => handle[r] \in Objects /\ handle[r] # NULL
  BY MessageQCopyAssumption DEF TypeOK, LocalInv
<1> HIDE DEF BoxNext
<1> USE DEF objVars, readerVars, writerVars, rxVars
<1>1. ASSUME NEW r \in Readers, NEW e \in Endpoints, NEW o \in Objects, Create(r, e, o)
      PROVE  BoxNext
  <2>1. /\ msgqObjects[e] = NULL /\ o # NULL /\ phase[o] = "free"
        /\ msgqObjects' = [msgqObjects EXCEPT ![e] = o]
        /\ phase' = [phase EXCEPT ![o] = "live"] /\ queue' = [queue EXCEPT ![o] = <<>>]
    BY <1>1, MessageQCopyAssumption DEF Create, Assignable, FreeAbove
  <2>2. BoxOf(e)' = Mail(<<>>) /\ BoxOf(e) = NULL
    BY <2>1 DEF BoxOf, Dying, TypeOK
  <2>3. Mail(<<>>) = <<>>
    <3>1. <<>> \in Seq(Message)
      OBVIOUS
    <3>. QED BY <3>1, MailTypes
  <2>4. \A x \in Endpoints : x # e => BoxOf(x)' = BoxOf(x)
    BY <2>1 DEF BoxOf, Dying, HandleInv, TypeOK
  <2>5. Boxes' = [Boxes EXCEPT ![e] = <<>>]
    BY <2>2, <2>3, <2>4, OneBox
  <2>. QED BY <1>b, <2>2, <2>5 DEF BoxNext
<1>2. ASSUME NEW r \in Readers, DeleteSem(r) PROVE BoxNext
  <2> DEFINE o == handle[r]
  <2>1. /\ o \in Objects /\ phase[o] = "live" /\ phase' = [phase EXCEPT ![o] = "dying"]
        /\ UNCHANGED <<msgqObjects, queue, handle, queueId>>
    BY <1>2, <1>h DEF DeleteSem, HandleInv
  <2>2. BoxOf(queueId[o]) # NULL
    BY <2>1, LiveSlot, MailTypes
  <2>3. \A x \in Endpoints : x # queueId[o] => BoxOf(x)' = BoxOf(x)
    BY <2>1, LiveSlot DEF BoxOf, Dying, TypeOK
  <2>4. BoxOf(queueId[o])' = NULL
    BY <2>1, LiveSlot DEF BoxOf, Dying, TypeOK
  <2>5. ASSUME NEW e \in Endpoints, e = queueId[o] PROVE Boxes' = [Boxes EXCEPT ![e] = NULL]
    <3>1. BoxOf(e)' = NULL
      BY <2>1, <2>4, <2>5
    <3>. QED BY <2>3, <2>5, <3>1, OneBox
  <2>. QED BY <1>b, <2>1, <2>2, <2>5, LiveSlot DEF BoxNext
<1>3. ASSUME NEW r \in Readers, RecvGet(r) PROVE BoxNext
  <2> DEFINE o == handle[r]
  <2>1. /\ o \in Objects /\ phase[o] = "live" /\ queue[o] # <<>>
        /\ queue' = [queue EXCEPT ![o] = Tail(queue[o])]
        /\ UNCHANGED <<msgqObjects, phase, handle, queueId>>
    BY <1>3, <1>h DEF RecvGet, GetLeaving, HandleInv
  <2>2. PICK e \in Endpoints : e = queueId[o]
    BY <2>1, LiveSlot
  <2>3. /\ msgqObjects[e] = o /\ BoxOf(e) = Mail(queue[o]) /\ queue[o] \in Seq(Message)
        /\ \A x \in Endpoints : msgqObjects[x] = o => x = e
        /\ o # NULL
    BY <2>1, <2>2, LiveSlot
  <2>4. BoxOf(e)' = Mail(Tail(queue[o]))
    BY <2>1, <2>3 DEF BoxOf, Dying, TypeOK
  <2>5. \A x \in Endpoints : x # e => BoxOf(x)' = BoxOf(x)
    BY <2>1, <2>3 DEF BoxOf, Dying, TypeOK
  <2>6. BoxOf(e) \notin {NULL, <<>>} /\ BoxOf(e)' = Tail(BoxOf(e))
    BY <2>1, <2>3, <2>4, MailTypes, MailTail
  <2>7. Boxes' = [Boxes EXCEPT ![e] = Tail(BoxOf(e))]
    BY <2>5, <2>6, OneBox
  <2>. QED BY <1>b, <2>6, <2>7 DEF BoxNext
<1>4. ASSUME NEW r \in Readers, DeleteDrain(r) PROVE Boxes' = Boxes
  <2>1. /\ handle[r] \in Objects /\ phase[handle[r]] = "dying"
        /\ \A o \in Objects : o # handle[r] => queue'[o] = queue[o]
        /\ UNCHANGED <<msgqObjects, phase>>
    BY <1>4, <1>h DEF DeleteDrain, HandleInv, TypeOK
  <2>2. \A x \in Endpoints : BoxOf(x)' = BoxOf(x)
    BY <2>1 DEF BoxOf, Dying, TypeOK
  <2>. QED BY <2>2, NoBox
<1>5. ASSUME NEW r \in Readers, DeleteSlot(r) PROVE Boxes' = Boxes
  <2>1. /\ handle[r] \in Objects /\ handle[r] # NULL /\ phase[handle[r]] = "dying"
        /\ msgqObjects[queueId[handle[r]]] = handle[r]
        /\ msgqObjects' = [msgqObjects EXCEPT ![queueId[handle[r]]] = NULL]
        /\ UNCHANGED <<phase, queue>>
    BY <1>5, <1>h DEF DeleteSlot, NullSlotWhen, HandleInv
  <2>2. \A x \in Endpoints : BoxOf(x)' = BoxOf(x)
    BY <2>1 DEF BoxOf, Dying, TypeOK
  <2>. QED BY <2>2, NoBox
<1>6. ASSUME NEW r \in Readers, DeleteFree(r) PROVE Boxes' = Boxes
  <2>1. /\ handle[r] \in Objects /\ phase' = [phase EXCEPT ![handle[r]] = "free"]
        /\ \A x \in Endpoints : msgqObjects[x] # handle[r]
        /\ UNCHANGED <<msgqObjects, queue>>
    BY <1>6, <1>h DEF DeleteFree, HandleInv
  <2>2. \A x \in Endpoints : BoxOf(x)' = BoxOf(x)
    BY <2>1 DEF BoxOf, Dying, TypeOK
  <2>. QED BY <2>2, NoBox
<1>7. ASSUME NEW w \in Writers, SendPut(w) PROVE BoxNext \/ Boxes' = Boxes
  <2> DEFINE o == wobj[w]
  <2>1. /\ o \in Objects /\ queue[o] \in Seq(Message) /\ wmsg[w] \in Message
        /\ queue' = [queue EXCEPT ![o] = Append(queue[o], wmsg[w])]
        /\ UNCHANGED <<msgqObjects, phase, queueId, wobj>>
    BY <1>7, MessageOf DEF SendPut, PutAs, TypeOK, LocalInv
  <2>2. CASE phase[o] = "live"
    <3>1. PICK e \in Endpoints : e = queueId[o]
      BY <2>1, <2>2, LiveSlot
    <3>2. /\ msgqObjects[e] = o /\ BoxOf(e) = Mail(queue[o]) /\ o # NULL
          /\ \A x \in Endpoints : msgqObjects[x] = o => x = e
      BY <2>1, <2>2, <3>1, LiveSlot
    <3>3. BoxOf(e)' = Mail(Append(queue[o], wmsg[w]))
      BY <2>1, <2>2, <3>2 DEF BoxOf, Dying, TypeOK
    <3>4. \A x \in Endpoints : x # e => BoxOf(x)' = BoxOf(x)
      BY <2>1, <3>2 DEF BoxOf, Dying, TypeOK
    <3>5. BoxOf(e) # NULL /\ BoxOf(e)' = Append(BoxOf(e), wmsg[w].data) /\ wmsg[w].data \in Data
      BY <2>1, <3>2, <3>3, MailTypes, MailAppend, MessageFields
    <3>6. Boxes' = [Boxes EXCEPT ![e] = Append(BoxOf(e), wmsg[w].data)]
      BY <3>4, <3>5, OneBox
    <3>. QED BY <1>b, <3>5, <3>6 DEF BoxNext
  <2>3. CASE phase[o] # "live"
    <3>1. \A x \in Endpoints : msgqObjects[x] = o => msgqObjects[x] = NULL \/ Dying(x)
      BY <2>1, <2>3 DEF HandleInv, Dying, TypeOK
    <3>2. \A x \in Endpoints : BoxOf(x)' = BoxOf(x)
      BY <2>1, <3>1 DEF BoxOf, Dying, TypeOK
    <3>. QED BY <3>2, NoBox
  <2>. QED BY <2>2, <2>3
<1>8. ASSUME NEW r \in Readers,
             \/ RecvCall(r) \/ RecvTimeout(r) \/ RecvPend(r) \/ RecvUnblocked(r)
             \/ RecvNotUnblocked(r) \/ RecvFree(r)
      PROVE  Boxes' = Boxes
  BY <1>8, <1>u DEF RecvCall, RecvTimeout, RecvPend, PendWhen, RecvUnblocked,
                    RecvNotUnblocked, RecvFree
<1>9. ASSUME NEW s \in Senders, NEW e \in Endpoints, NEW d \in Data, LocalSend(s, e, d)
      PROVE  Boxes' = Boxes
  BY <1>9, <1>u DEF LocalSend, Lookup
<1>10. ASSUME NEW w \in Writers, SendStep(w), ~SendPut(w) PROVE Boxes' = Boxes
  BY <1>10, <1>u DEF SendStep, SendAlloc, SendNoMemory, SendPost, PostBy
<1>11. ASSUME NEW o \in Objects, UnblockFlag(o) \/ UnblockPost(o) PROVE Boxes' = Boxes
  BY <1>11, <1>u DEF UnblockFlag, SetFlag, UnblockPost, UnblockPostBy
<1>12. CASE SwiStep
  BY <1>12, <1>u DEF SwiStep, SwiBegin, SwiSend, Lookup, SwiAddUsed, AddUsed, SwiEnd
<1>13. CASE (\E e \in Endpoints, d \in Data : HostSend(e, d)) \/ AvailBufReady \/ HostCollect
  BY <1>13, <1>u DEF HostSend, AvailBufReady, HostCollect
<1>14. CASE UNCHANGED vars
  BY <1>14, <1>u DEF vars
<1>. QED BY <1>1, <1>2, <1>3, <1>4, <1>5, <1>6, <1>7, <1>8, <1>9, <1>10, <1>11, <1>12, <1>13,
            <1>14 DEF Next, ReaderStep

(* Endpoints are FIFO mailboxes for any number of writers and readers,     *)
(* through create, delete, unblock and every failure of send, even for     *)
(* clients who delete an endpoint while others send to it.                 *)
THEOREM EndpointsAreMailboxes == Spec => ImplementsMailboxes
<1>1. Init => SlotInv /\ HandleInv
  BY MessageQCopyAssumption DEF Init, SlotInv, HandleInv
<1>2. Init => Box!Init
  BY DEF Init, Box!Init
<1>3. TypeOK /\ LocalInv /\ HandleInv /\ SlotInv /\ [Next]_vars => [Box!Next]_Boxes
  BY BoxStep DEF Box!Next, Box!Open, Box!Close, Box!Receive, Box!Deliver, Boxes, BoxOf, Mail
<1>. QED BY InitTypes, TypeStep, HandleStep, SlotStep, <1>1, <1>2, <1>3, PTL
         DEF Spec, ImplementsMailboxes, Box!Spec, Boxes, BoxOf, Mail
=============================================================================
