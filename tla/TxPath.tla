------------------------------ MODULE TxPath ------------------------------
(***************************************************************************)
(* MessageQCopy_send to the host: tasks that share the virtqueue toHost    *)
(* (VirtQueue.tla) under module.gateSwi, and block on                      *)
(* transport.semHandle_toHost while the host offers no buffer.  The gate   *)
(* keeps tasks and Swis out but not the mailbox Hwi, whose callback posts  *)
(* the semaphore: the Hwi may fall between any two steps.                  *)
(***************************************************************************)
EXTENDS VirtQueue

CONSTANTS Senders, NoOne, NoToken

ASSUME TxPathAssumption == NoOne \notin Senders /\ NoToken \notin Heads

VARIABLES
  spc,              \* where each sender is in MessageQCopy_send
  token,            \* its buffer
  gate,             \* the sender inside module.gateSwi
  hostSem,          \* the count of semHandle_toHost
  waiters           \* its pend queue, in the order of Semaphore_pend

txVars == <<spc, token, gate, hostSem, waiters>>
txAll == <<vars, txVars>>

TxInit ==
  /\ spc = [s \in Senders |-> "idle"]
  /\ token = [s \in Senders |-> NoToken]
  /\ gate = NoOne
  /\ hostSem = 0
  /\ waiters = <<>>

Goto(s, to) == spc' = [spc EXCEPT ![s] = to]

-----------------------------------------------------------------------------
(* The loop that gets a buffer.                                            *)

\* GateSwi_enter, and Semaphore_reset(semHandle_toHost, 0): the count is
\* cleared; a task that a post has taken off the pend queue keeps running.
SendReset(s) ==
  /\ which = "toHost"
  /\ spc[s] \in {"idle", "retry"}
  /\ gate = NoOne
  /\ gate' = s
  /\ hostSem' = 0
  /\ Goto(s, "get")
  /\ UNCHANGED <<vars, token, waiters>>

SendGet(s, h) ==
  /\ spc[s] = "get"
  /\ GetAvailBuf(h)
  /\ token' = [token EXCEPT ![s] = h]
  /\ gate' = NoOne
  /\ Goto(s, "copy")
  /\ UNCHANGED <<hostSem, waiters>>

SendGetNone(s) ==
  /\ spc[s] = "get"
  /\ GetAvailBufEmpty
  /\ Goto(s, "clear")
  /\ UNCHANGED <<token, gate, hostSem, waiters>>

ClearThen(s, count) ==
  /\ spc[s] = "clear"
  /\ ClearNoNotify
  /\ hostSem' = count
  /\ gate' = NoOne
  /\ Goto(s, "pend")
  /\ UNCHANGED <<token, waiters>>

\* (mutant) the semaphore is reset after the ring was seen empty.
SendClearReset(s) == ClearThen(s, 0)

\* token < 0; GateSwi_leave.
SendClear(s) == ClearThen(s, hostSem)

\* Semaphore_pend(BIOS_WAIT_FOREVER).
SendPend(s) ==
  /\ spc[s] = "pend"
  /\ IF hostSem > 0
       THEN hostSem' = hostSem - 1 /\ Goto(s, "retry") /\ UNCHANGED waiters
       ELSE waiters' = Append(waiters, s) /\ Goto(s, "blocked")
              /\ UNCHANGED hostSem
  /\ UNCHANGED <<vars, token, gate>>

-----------------------------------------------------------------------------
(* The message is copied outside the gate, and passed on under it.         *)
SendFill(s) ==
  /\ spc[s] = "copy"
  /\ gate = NoOne
  /\ gate' = s
  /\ AddUsedBufFill(token[s])
  /\ token' = [token EXCEPT ![s] = NoToken]
  /\ Goto(s, "publish")
  /\ UNCHANGED <<hostSem, waiters>>

SendPublish(s) ==
  /\ spc[s] = "publish"
  /\ AddUsedBufPublish
  /\ Goto(s, "kick")
  /\ UNCHANGED <<token, gate, hostSem, waiters>>

SendKick(s) ==
  /\ spc[s] = "kick"
  /\ Kick
  /\ IF corePc' = "send"
       THEN Goto(s, "int") /\ UNCHANGED gate
       ELSE Goto(s, "idle") /\ gate' = NoOne
  /\ UNCHANGED <<token, hostSem, waiters>>

SendInt(s) ==
  /\ spc[s] = "int"
  /\ IntSend
  /\ gate' = NoOne
  /\ Goto(s, "idle")
  /\ UNCHANGED <<token, hostSem, waiters>>

SendStep(s) ==
  \/ SendReset(s)
  \/ \E h \in Heads : SendGet(s, h)
  \/ SendGetNone(s) \/ SendClear(s) \/ SendPend(s)
  \/ SendFill(s) \/ SendPublish(s) \/ SendKick(s) \/ SendInt(s)

-----------------------------------------------------------------------------
(* The mailbox Hwi: callback_availBufReady posts the semaphore, which      *)
(* hands over to the task that has waited longest, or counts.              *)
Released(queue) ==
  /\ which = "toHost"
  /\ Isr
  /\ IF waiters = <<>>
       THEN hostSem' = hostSem + 1 /\ UNCHANGED <<spc, waiters>>
       ELSE /\ Goto(Head(waiters), "retry")
            /\ waiters' = queue
            /\ UNCHANGED hostSem
  /\ UNCHANGED <<token, gate>>

HostBufReady == Released(Tail(waiters))

TxNext == (\E s \in Senders : SendStep(s)) \/ HostBufReady

(* A call that has begun goes on, and gets the gate at some time; the Hwi  *)
(* preempts.  Nobody is made to send.                                      *)
TxFairness ==
  /\ \A s \in Senders : SF_txAll(spc[s] # "idle" /\ SendStep(s))
  /\ WF_txAll(HostBufReady)

-----------------------------------------------------------------------------
TxTypeOK ==
  /\ spc \in [Senders -> {"idle", "get", "clear", "pend", "blocked", "retry",
                          "copy", "publish", "kick", "int"}]
  /\ token \in [Senders -> Heads \cup {NoToken}]
  /\ gate \in Senders \cup {NoOne}
  /\ hostSem \in Nat
  /\ waiters \in Seq(Senders)
  /\ {waiters[i] : i \in DOMAIN waiters} = {s \in Senders : spc[s] = "blocked"}

(* No two senders write the same buffer, and a sender's buffer is neither  *)
(* offered, nor back in the used ring, while it copies (MessageQCopy.c:    *)
(* 505-526).                                                               *)
BufferIsOwned ==
  /\ which = "toHost" => held = {token[s] : s \in Senders} \ {NoToken}
  /\ \A s, t \in Senders : token[s] = token[t] /\ token[s] # NoToken => s = t

(* Senders, blocked or copying, and the host never write each other's      *)
(* buffers (MessageQCopy_send).                                            *)
SendersKeepApart == TxTypeOK /\ BufferIsOwned

(* A sender that has found the ring empty, or is about to, goes on when    *)
(* the host announces a buffer, at whatever step of the loop, and however  *)
(* many resets and pends of other senders come between; and one that is    *)
(* blocked does while the host has buffers yet to offer.  (Nothing is said *)
(* of a ring that was filled in the window of VirtQueue.c:312-316.)        *)
(* Senders are alike, and one stands for all.                              *)
BlockedSenderIsReleased ==
  LET s == CHOOSE s \in Senders : TRUE
  IN (\/ spc[s] \in {"get", "clear", "pend", "blocked"} /\ hostPc = "notify" /\ ~noNotify
      \/ spc[s] = "blocked" /\ Dist(lastAvailIdx, availIdx) < Num)
       ~> spc[s] \in {"retry", "copy"}
=============================================================================
