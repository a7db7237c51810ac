----------------------------- MODULE Interrupts -----------------------------
(***************************************************************************)
(* The hardware mailboxes and what the interrupt makes of a message: the   *)
(* drivers InterruptIpu and InterruptDsp, VirtQueue_isr, and through it    *)
(* hibernation (IpcPower.tla).  Of the dual M3, SysM3 alone has a mailbox  *)
(* interrupt; it passes messages for AppM3 on and raises the inter-core    *)
(* interrupt.  This is the build without SMP.                              *)
(*                                                                         *)
(* The host is external.  A message for a virtqueue is "vq", or "vqApp"    *)
(* (200 and 201) for one of AppM3; what vq->callback does is in RxPath and *)
(* TxPath.                                                                 *)
(***************************************************************************)
EXTENDS IpcPower

CONSTANTS
  Depth,            \* of a hardware mailbox, 4
  Mail,             \* messages the host sends to each processor
  MaxMail           \* bound: how many

ASSUME InterruptsAssumption ==
  /\ Cpus = {"SysM3", "AppM3", "DSP"} /\ Depth \in Nat \ {0} /\ MaxMail \in Nat
  /\ Mail \in [{"SysM3", "DSP"} ->
                SUBSET {"vq", "vqApp", "ready", "echo", "hib", "hibForce", "flush"}]
  /\ "vqApp" \notin Mail["DSP"]

\* Mailboxes by receiver; the host has one per sender.
Boxes == Cpus \cup {"M3Host", "DspHost"}
HostBox(c) == IF c = "DSP" THEN "DspHost" ELSE "M3Host"

\* Processors that hibernate together, by the one the host talks to.
GroupOf(c) == IF c = "DSP" THEN {"DSP"} ELSE {"SysM3", "AppM3"}
Leads == {"SysM3", "DSP"}

VARIABLES
  mbox,             \* the FIFOs
  coreInt,          \* bit 0 of INTERRUPT_CORE_1
  edge,             \* an interrupt is latched for the DSP
  isrPc, isrMsg,    \* the Hwi of each processor
  out,              \* what it has still to send
  hostPc,           \* of each lead: what the host takes it for, if there is one
  sent, heard       \* the mail to each processor; what of it VirtQueue_isr was called with

isrVars == <<isrPc, isrMsg, out>>
sentVars == <<sent, heard>>
intVars == <<mbox, coreInt, edge, isrVars, hostPc, sentVars>>

IntInit ==
  /\ mbox = [b \in Boxes |-> <<>>] /\ coreInt = FALSE /\ edge = FALSE
  /\ isrPc = [c \in Cpus |-> "idle"] /\ isrMsg = [c \in Cpus |-> "none"]
  /\ out = [c \in Cpus |-> <<>>]
  /\ hostPc \in {[c \in Leads |-> h] : h \in {"awake", "away"}}
  /\ sent = [c \in Cpus |-> <<>>] /\ heard = [c \in Cpus |-> <<>>]

IsrGoto(c, to) == isrPc' = [isrPc EXCEPT ![c] = to]
Pop(b) == mbox' = [mbox EXCEPT ![b] = Tail(@)]

-----------------------------------------------------------------------------
(* intClear: SysM3, whose mailbox interrupt is a level                     *)
ClearSysM3 ==
  /\ isrPc["SysM3"] = "idle" /\ suspPc["SysM3"] # "asleep" /\ mbox["SysM3"] # <<>>
  /\ isrMsg' = [isrMsg EXCEPT !["SysM3"] = Head(mbox["SysM3"])]
  /\ Pop("SysM3") /\ IsrGoto("SysM3", "msg")
  /\ UNCHANGED <<coreInt, edge, out, hostPc, sentVars, powerVars>>

(* the DSP, whose event is an edge: to clear the mailbox status makes      *)
(* another if the FIFO is not empty                                        *)
TakeDsp(again) ==
  /\ isrPc["DSP"] = "idle" /\ suspPc["DSP"] # "asleep" /\ edge
  /\ edge' = again
  /\ IF mbox["DSP"] = <<>> THEN UNCHANGED <<mbox, isrPc, isrMsg>>
     ELSE /\ isrMsg' = [isrMsg EXCEPT !["DSP"] = Head(mbox["DSP"])]
          /\ Pop("DSP") /\ IsrGoto("DSP", "msg")
  /\ UNCHANGED <<coreInt, out, hostPc, sentVars, powerVars>>

ClearDsp == TakeDsp(Len(mbox["DSP"]) > 1)

(* and AppM3: the bit is cleared before the FIFO is looked at, and set     *)
(* again if there is more.                                                 *)
ClearBit ==
  /\ isrPc["AppM3"] = "idle" /\ suspPc["AppM3"] # "asleep" /\ coreInt
  /\ coreInt' = FALSE
  /\ IsrGoto("AppM3", "fifo")
  /\ UNCHANGED <<mbox, edge, isrMsg, out, hostPc, sentVars, powerVars>>

ClearFifo ==
  /\ isrPc["AppM3"] = "fifo"
  /\ IF mbox["AppM3"] = <<>> THEN IsrGoto("AppM3", "idle") /\ UNCHANGED <<mbox, isrMsg>>
     ELSE /\ isrMsg' = [isrMsg EXCEPT !["AppM3"] = Head(mbox["AppM3"])]
          /\ Pop("AppM3") /\ IsrGoto("AppM3", "status")
  /\ UNCHANGED <<coreInt, edge, out, hostPc, sentVars, powerVars>>

ClearStatus ==
  /\ isrPc["AppM3"] = "status" /\ IsrGoto("AppM3", "msg")
  /\ coreInt' = (coreInt \/ mbox["AppM3"] # <<>>)
  /\ UNCHANGED <<mbox, edge, isrMsg, out, hostPc, sentVars, powerVars>>

-----------------------------------------------------------------------------
(* VirtQueue_isr: what is sent, and whether the processor is suspended.    *)
(* What becomes of a virtqueue's message there is not in the model: of     *)
(* AppM3's two, 200 and 201, no queue is told, since the test of           *)
(* NUM_QUEUES, 4, refuses them.  Nor is the abort request, which crashes   *)
(* the processor on demand.                                                *)
Answers(c, m) ==
  CASE m = "echo" -> <<"echoReply">>
    [] m = "hib" /\ ~CanHibernate(GroupOf(c)) -> <<"cancel">>
    [] m = "hibForce" \/ (m = "hib" /\ CanHibernate(GroupOf(c))) -> <<"ack">>
    [] OTHER -> <<>>

\* For AppM3: its virtqueues, and that it is to hibernate.
PassedOn(c, m) ==
  IF c # "SysM3" THEN <<>>
  ELSE IF m = "vqApp" THEN <<m>>
  ELSE IF m = "hibForce" \/ (m = "hib" /\ CanHibernate(GroupOf(c))) THEN <<"hib">> ELSE <<>>

Suspends(c, m) ==
  \/ m = "hibForce"
  \/ m = "hib" /\ (c = "AppM3" \/ CanHibernate(GroupOf(c)))

To(box, msgs) == [i \in DOMAIN msgs |-> [box |-> box, msg |-> msgs[i]]]

Dispatch(c) ==
  /\ isrPc[c] = "msg"
  /\ heard' = [heard EXCEPT ![c] = Append(@, isrMsg[c])]
  /\ sent' = [sent EXCEPT !["AppM3"] = @ \o PassedOn(c, isrMsg[c])]
  /\ out' = [out EXCEPT ![c] =
       IF c = "AppM3" THEN <<>>
       ELSE To("AppM3", PassedOn(c, isrMsg[c])) \o To(HostBox(c), Answers(c, isrMsg[c]))]
  /\ IsrGoto(c, IF Suspends(c, isrMsg[c]) THEN "suspend" ELSE "send")
  /\ UNCHANGED <<mbox, coreInt, edge, isrMsg, hostPc, powerVars>>

\* What is written to a FIFO that is full is lost.
PutMail(b, m) == mbox' = [mbox EXCEPT ![b] = IF Len(@) < Depth THEN Append(@, m) ELSE @]

SendWhen(c, ready) ==
  /\ isrPc[c] \in {"send", "suspend"} /\ out[c] # <<>> /\ ready
  /\ LET o == Head(out[c]) IN
     /\ PutMail(o.box, o.msg)
     /\ IsrGoto(c, IF o.box # "AppM3" THEN isrPc[c]
                   ELSE IF isrPc[c] = "send" THEN "bit" ELSE "bitSuspend")
  /\ out' = [out EXCEPT ![c] = Tail(@)]
  /\ UNCHANGED <<coreInt, edge, isrMsg, hostPc, sentVars, powerVars>>

\* (mutant) the FIFO status is not waited for.
IntSendAtOnce(c) == SendWhen(c, TRUE)

\* intSend: InterruptIpu waits for room, InterruptDsp does not.
IntSend(c) == SendWhen(c, c = "DSP" \/ Len(mbox[Head(out[c]).box]) < Depth)

\* "Actually trigger the interrupt".
IntTrigger(c) ==
  /\ isrPc[c] \in {"bit", "bitSuspend"}
  /\ coreInt' = TRUE
  /\ IsrGoto(c, IF isrPc[c] = "bit" THEN "send" ELSE "suspend")
  /\ UNCHANGED <<mbox, edge, isrMsg, out, hostPc, sentVars, powerVars>>

IsrReturn(c) ==
  /\ isrPc[c] \in {"send", "suspend"} /\ out[c] = <<>>
  /\ IF isrPc[c] = "suspend" THEN PostSuspend(c) ELSE UNCHANGED semSuspend
  /\ IsrGoto(c, "idle") /\ isrMsg' = [isrMsg EXCEPT ![c] = "none"]
  /\ UNCHANGED <<mbox, coreInt, edge, out, hostPc, sentVars, lockCounts, suspPc, walkVars,
                 callbackList, curInit, exiting>>

Clear(c) ==
  \/ c = "SysM3" /\ ClearSysM3
  \/ c = "DSP" /\ ClearDsp
  \/ c = "AppM3" /\ (ClearBit \/ ClearFifo \/ ClearStatus)

IsrStep(c) ==
  \/ Clear(c)
  \/ Dispatch(c) \/ IntSend(c) \/ IntTrigger(c) \/ IsrReturn(c)

-----------------------------------------------------------------------------
(* The host: external.  It sends nothing to processors that it has asked to *)
(* hibernate until they have refused or it has woken them.                  *)
HostSend(c, m) ==
  /\ hostPc[c] = "awake" /\ m \in Mail[c] /\ Len(mbox[c]) < Depth
  /\ Len(sent["SysM3"]) + Len(sent["DSP"]) < MaxMail
  /\ mbox' = [mbox EXCEPT ![c] = Append(@, m)]
  /\ edge' = (edge \/ (c = "DSP" /\ mbox[c] = <<>>))
  /\ hostPc' = [hostPc EXCEPT ![c] = IF m \in {"hib", "hibForce"} THEN "asked" ELSE @]
  /\ sent' = [sent EXCEPT ![c] = Append(@, m)]
  /\ UNCHANGED <<coreInt, isrVars, heard, powerVars>>

HostReceive(c) ==
  LET b == HostBox(c) IN
  /\ mbox[b] # <<>>
  /\ Pop(b)
  /\ hostPc' = [hostPc EXCEPT ![c] = CASE Head(mbox[b]) = "ack" -> "asleep"
                                       [] Head(mbox[b]) = "cancel" -> "awake" [] OTHER -> @]
  /\ UNCHANGED <<coreInt, edge, isrVars, sentVars, powerVars>>

HostWake(c) ==
  /\ hostPc[c] = "asleep"
  /\ Wake(GroupOf(c))
  /\ hostPc' = [hostPc EXCEPT ![c] = "awake"]
  /\ UNCHANGED <<mbox, coreInt, edge, isrVars, sentVars>>

-----------------------------------------------------------------------------
\* A task runs while no Hwi does.
Sleeping(c) == isrPc[c] = "idle" /\ SuspendTask(c) /\ UNCHANGED intVars

\* The processors of one lead, with the host that talks to it.
IntNext(lead) ==
  \/ \E c \in GroupOf(lead) :
       \/ IsrStep(c) \/ Sleeping(c)
       \/ isrPc[c] = "idle" /\ (HibernateLock(c) \/ HibernateUnlock(c)) /\ UNCHANGED intVars
  \/ \E m \in Mail[lead] : HostSend(lead, m)
  \/ HostReceive(lead) \/ HostWake(lead)

mailVars == <<intVars, powerVars>>

\* Both groups, with what tasks do besides.
Tasks(c) ==
  /\ isrPc[c] = "idle" /\ UNCHANGED intVars
  /\ WakeLock(c) \/ WakeUnlock(c) \/ Registering(c)

IntSpec ==
  /\ IntInit /\ PowerInit
  /\ [][(\E lead \in Leads : IntNext(lead)) \/ (\E c \in Cpus : Tasks(c))]_mailVars

\* What is fair: a processor runs, the suspend task before others;
CpuRuns(c) == IsrStep(c) \/ Sleeping(c)

\* the host takes its mail, and wakes what it has put to sleep.
HostRuns(lead) == HostReceive(lead) \/ HostWake(lead)

-----------------------------------------------------------------------------
IntTypeOK ==
  /\ \A b \in Boxes : Len(mbox[b]) <= Depth
  /\ coreInt \in BOOLEAN /\ edge \in BOOLEAN
  /\ isrPc \in [Cpus -> {"idle", "fifo", "status", "msg", "send", "suspend", "bit", "bitSuspend"}]
  /\ hostPc \in [Leads -> {"awake", "asked", "asleep", "away"}]

AllServed == \A c \in Cpus : mbox[c] = <<>> /\ isrPc[c] = "idle"

(* Mail reaches VirtQueue_isr on the processor it is for, from the host or,  *)
(* on AppM3, from SysM3, in the order in which it was sent, and nothing of   *)
(* it is lost on the way.                                                    *)
MailInOrder ==
  \A c \in Cpus : IsPrefix(heard[c], sent[c]) /\ (AllServed => heard[c] = sent[c])

(* A processor that the host takes for awake is not asleep: a request that   *)
(* was refused, an old one or one that is served twice suspends nobody       *)
(* (VirtQueue_isr's case RP_MSG_HIBERNATION).                                *)
NobodyElseSleeps ==
  \A c \in Leads : hostPc[c] = "awake" =>
    \A d \in GroupOf(c) : suspPc[d] # "asleep" /\ semSuspend[d] = 0

(* Mail arrives whole and in order (the two Interrupt drivers), and who is   *)
(* suspended by it is who was meant.                                         *)
MailIsSound == IntTypeOK /\ MailInOrder /\ NobodyElseSleeps

(* A hibernation that was acknowledged comes to pass: each processor of the  *)
(* group goes to sleep, so that it can be woken.                             *)
AcknowledgedMeansSleep == (\E c \in Leads : hostPc[c] = "asleep") ~> (\A c \in Leads : hostPc[c] = "awake")

(* No message stays in a mailbox: an interrupt is never lost between the     *)
(* status bit, the FIFO and the edge, however messages arrive (intClear).    *)
MailIsHeard == (\E c \in Cpus : mbox[c] # <<>>) ~> (\A c \in Cpus : mbox[c] = <<>>)
=============================================================================
