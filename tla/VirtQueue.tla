----------------------------- MODULE VirtQueue -----------------------------
(***************************************************************************)
(* One virtqueue between a BIOS core and the Linux host: the shared rings  *)
(* with their free-running UInt16 indices, the two suppression flags and   *)
(* the mailbox message each side sends (ipc/rpmsg/VirtQueue.c, virtio_     *)
(* ring.h).  Calls of the core are split at the accesses to shared memory  *)
(* the host can fall between.  The host is the Linux virtio driver, which  *)
(* is not in the repository: it is modelled from the protocol VirtQueue.h  *)
(* and virtio_ring.h state.                                                *)
(*                                                                         *)
(* Calls on one virtqueue are serialised by their callers (the Swi for     *)
(* fromHost, module.gateSwi for toHost), so the core has one corePc.       *)
(* Stores reach memory in program order (see the README).                  *)
(***************************************************************************)
EXTENDS Naturals, Sequences, FiniteSets

CONSTANTS
  Num,              \* vring.num, 256 in the code
  IdxMod,           \* 2^16 in the code: the indices are UInt16
  FifoDepth         \* messages a hardware mailbox holds

\* The ring size divides the index range ("we assume num is a power of 2"),
\* and an index range larger than the ring tells full from empty.
ASSUME VirtQueueAssumption ==
  /\ Num \in Nat \ {0}
  /\ IdxMod \in Nat
  /\ IdxMod > Num
  /\ IdxMod % Num = 0
  /\ FifoDepth \in Nat \ {0}

Heads == 0 .. Num - 1

VARIABLES
  which,                 \* transport.virtQueue_fromHost or _toHost
  availIdx, availRing,   \* vring.avail->idx, ->ring: written by the host
  noInterrupt,           \* vring.avail->flags & VRING_AVAIL_F_NO_INTERRUPT
  usedIdx, usedRing,     \* vring.used->idx, ->ring: written by the core
  noNotify,              \* vring.used->flags & VRING_USED_F_NO_NOTIFY
  lastAvailIdx,          \* vq->last_avail_idx of the core
  held,                  \* tokens getAvailBuf gave out and not yet returned
  corePc,                \* where the core is inside a call
  kickDue,               \* buffers were returned since the last kick
  lastUsedIdx,           \* the host's own index in the used ring
  hostFree,              \* heads the host has not offered
  hostPc,                \* where the host's driver is
  mboxHost, mboxCore     \* messages with this vq's id in the two mailboxes

sharedVars == <<availIdx, availRing, noInterrupt, usedIdx, usedRing, noNotify>>
coreVars == <<lastAvailIdx, held, corePc, kickDue>>
hostVars == <<lastUsedIdx, hostFree, hostPc>>
vars == <<sharedVars, coreVars, hostVars, mboxHost, mboxCore>>

Inc(i) == (i + 1) % IdxMod              \* idx++ on a UInt16
Dist(from, to) == (to + IdxMod - from) % IdxMod

-----------------------------------------------------------------------------
(* VirtQueue_create, after the host has set up empty rings. *)
Init ==
  /\ which \in {"fromHost", "toHost"}
  /\ availIdx = 0 /\ usedIdx = 0
  /\ availRing = [i \in Heads |-> 0]
  /\ usedRing = [i \in Heads |-> 0]
  /\ noInterrupt = FALSE
  /\ noNotify = TRUE                    \* used->flags |= NO_NOTIFY
  /\ lastAvailIdx = 0
  /\ held = {}
  /\ corePc = "idle"
  /\ kickDue = FALSE
  /\ lastUsedIdx = 0
  /\ hostFree = Heads
  /\ hostPc = "idle"
  /\ mboxHost = 0 /\ mboxCore = 0

-----------------------------------------------------------------------------
(* The core. *)

\* getAvailBuf finds a head and advances last_avail_idx.
TakeHead(token, slot) ==
  /\ corePc = "idle"
  /\ lastAvailIdx # availIdx
  /\ token = availRing[slot]
  /\ lastAvailIdx' = Inc(lastAvailIdx)
  /\ held' = held \cup {token}
  /\ UNCHANGED <<sharedVars, corePc, kickDue, hostVars, mboxHost, mboxCore>>

\* (mutant) the index is incremented before it is used.
TakeHeadPreInc(token) == TakeHead(token, Inc(lastAvailIdx) % Num)

\* The head is the one at last_avail_idx++ % num.
GetAvailBuf(token) == TakeHead(token, lastAvailIdx % Num)

\* getAvailBuf compares the indices and sees nothing available ...
GetAvailBufEmpty ==
  /\ corePc = "idle"
  /\ lastAvailIdx = availIdx
  /\ corePc' = "empty"
  /\ UNCHANGED <<sharedVars, lastAvailIdx, held, kickDue, hostVars,
                 mboxHost, mboxCore>>

\* ... and then asks to be told of added buffers, and returns -1.
ClearNoNotify ==
  /\ corePc = "empty"
  /\ noNotify' = FALSE
  /\ corePc' = "idle"
  /\ UNCHANGED <<availIdx, availRing, noInterrupt, usedIdx, usedRing,
                 lastAvailIdx, held, kickDue, hostVars, mboxHost, mboxCore>>

\* addUsedBuf fills an element of the used ring ...
FillUsedElem(token, slot) ==
  /\ corePc = "idle"
  /\ token \in held
  /\ usedRing' = [usedRing EXCEPT ![slot] = token]
  /\ corePc' = "written"
  /\ held' = held \ {token}
  /\ UNCHANGED <<availIdx, availRing, noInterrupt, usedIdx, noNotify,
                 lastAvailIdx, kickDue, hostVars, mboxHost, mboxCore>>

\* (mutant) the element is chosen by the index of the other ring.
FillUsedElemByAvail(token) == FillUsedElem(token, lastAvailIdx % Num)

\* ... the one at used->idx % num ...
AddUsedBufFill(token) == FillUsedElem(token, usedIdx % Num)

\* ... and publishes it by advancing used->idx.
AddUsedBufPublish ==
  /\ corePc = "written"
  /\ usedIdx' = Inc(usedIdx)
  /\ corePc' = "idle"
  /\ kickDue' = TRUE
  /\ UNCHANGED <<availIdx, availRing, noInterrupt, usedRing, noNotify,
                 lastAvailIdx, held, hostVars, mboxHost, mboxCore>>

\* kick reads a suppression flag and returns if it is set ...
KickUnless(flag) ==
  /\ corePc = "idle"
  /\ kickDue
  /\ kickDue' = FALSE
  /\ corePc' = IF flag THEN "idle" ELSE "send"
  /\ UNCHANGED <<sharedVars, lastAvailIdx, held, hostVars, mboxHost, mboxCore>>

\* ... the flag of the avail ring ...
Kick == KickUnless(noInterrupt)

\* ... and otherwise waits for room in the mailbox and sends vq->id.
IntSend ==
  /\ corePc = "send"
  /\ mboxHost < FifoDepth
  /\ mboxHost' = mboxHost + 1
  /\ corePc' = "idle"
  /\ UNCHANGED <<sharedVars, lastAvailIdx, held, kickDue, hostVars, mboxCore>>

\* The Hwi takes one message out of the mailbox and calls VirtQueue_isr,
\* which calls vq->callback; what that does is the caller's business.
Isr ==
  /\ mboxCore > 0
  /\ mboxCore' = mboxCore - 1
  /\ UNCHANGED <<sharedVars, coreVars, hostVars, mboxHost>>

-----------------------------------------------------------------------------
(* The host's virtio driver: external, from VirtQueue.h and virtio_ring.h. *)

\* add_avail_buf: the head goes into the ring before avail->idx moves.
HostAddAvail(head) ==
  /\ hostPc = "idle"
  /\ head \in hostFree
  /\ hostFree' = hostFree \ {head}
  /\ availRing' = [availRing EXCEPT ![availIdx % Num] = head]
  /\ availIdx' = Inc(availIdx)
  /\ hostPc' = "notify"
  /\ UNCHANGED <<noInterrupt, usedIdx, usedRing, noNotify, coreVars,
                 lastUsedIdx, mboxHost, mboxCore>>

\* The host kicks unless the core said not to.
HostKick ==
  /\ hostPc = "notify"
  /\ IF noNotify
       THEN UNCHANGED mboxCore
       ELSE mboxCore < FifoDepth /\ mboxCore' = mboxCore + 1
  /\ hostPc' = "idle"
  /\ UNCHANGED <<sharedVars, coreVars, lastUsedIdx, hostFree, mboxHost>>

\* An interrupt from the core: no more of them while the host polls.
HostIsr ==
  /\ hostPc = "idle"
  /\ mboxHost > 0
  /\ mboxHost' = mboxHost - 1
  /\ noInterrupt' = TRUE
  /\ hostPc' = "poll"
  /\ UNCHANGED <<availIdx, availRing, usedIdx, usedRing, noNotify, coreVars,
                 lastUsedIdx, hostFree, mboxCore>>

\* get_used_buf
HostGetUsed ==
  /\ hostPc = "poll"
  /\ lastUsedIdx # usedIdx
  /\ hostFree' = hostFree \cup {usedRing[lastUsedIdx % Num]}
  /\ lastUsedIdx' = Inc(lastUsedIdx)
  /\ UNCHANGED <<sharedVars, coreVars, hostPc, mboxHost, mboxCore>>

\* The used ring is empty: interrupts on again, and look once more.
HostEnable ==
  /\ hostPc = "poll"
  /\ lastUsedIdx = usedIdx
  /\ noInterrupt' = FALSE
  /\ hostPc' = "recheck"
  /\ UNCHANGED <<availIdx, availRing, usedIdx, usedRing, noNotify, coreVars,
                 lastUsedIdx, hostFree, mboxHost, mboxCore>>

HostRecheck ==
  /\ hostPc = "recheck"
  /\ noInterrupt' = (lastUsedIdx # usedIdx)
  /\ hostPc' = IF lastUsedIdx # usedIdx THEN "poll" ELSE "idle"
  /\ UNCHANGED <<availIdx, availRing, usedIdx, usedRing, noNotify, coreVars,
                 lastUsedIdx, hostFree, mboxHost, mboxCore>>

HostPoll == HostIsr \/ HostGetUsed \/ HostEnable \/ HostRecheck

-----------------------------------------------------------------------------
TypeOK ==
  /\ which \in {"fromHost", "toHost"}
  /\ {availIdx, usedIdx, lastAvailIdx, lastUsedIdx} \subseteq 0 .. IdxMod - 1
  /\ availRing \in [Heads -> Heads]
  /\ usedRing \in [Heads -> Heads]
  /\ {noInterrupt, noNotify, kickDue} \subseteq BOOLEAN
  /\ held \subseteq Heads
  /\ hostFree \subseteq Heads
  /\ corePc \in {"idle", "empty", "written", "send"}
  /\ hostPc \in {"idle", "notify", "poll", "recheck"}
  /\ {mboxHost, mboxCore} \subseteq 0 .. FifoDepth

(* The two lists as they lie in the rings between the two indices. *)
Window(ring, from, to) ==
  [i \in 1 .. Dist(from, to) |-> ring[(from + i - 1) % Num]]

InCall == IF corePc = "written" THEN {usedRing[usedIdx % Num]} ELSE {}

(* The rings, read modulo 2^16 and modulo the ring size, are two FIFO      *)
(* lists of buffers with one owner each: VirtQueue_getAvailBuf and         *)
(* VirtQueue_addUsedBuf implement the usage VirtQueue.h:49-76 describes,   *)
(* across every wrap of the indices and of the ring.                       *)
Lists == INSTANCE Vring WITH
  avail <- Window(availRing, lastAvailIdx, availIdx),
  used <- Window(usedRing, lastUsedIdx, usedIdx),
  held <- held \cup InCall

ImplementsVring == Lists!Spec

(* No buffer of a vring is in two hands, or in none, whatever the indices  *)
(* have wrapped to: a head the core holds is not in the used ring, and the *)
(* host never gets back a head that is still offered or held.              *)
OneOwner == Lists!OneOwner

(* A buffer the core has returned comes back to the host: the flag test in *)
(* VirtQueue_kick, made after used->idx has moved, never suppresses the    *)
(* one interrupt the host is waiting for (VirtQueue.c:218-255).            *)
UsedIsCollected ==
  \A h \in Heads :
    (\E i \in 1 .. Dist(lastUsedIdx, usedIdx) :
       usedRing[(lastUsedIdx + i - 1) % Num] = h) ~> (h \in hostFree)
=============================================================================
