---------------------------- MODULE IpcResource ----------------------------
(***************************************************************************)
(* The client of the host's resource manager (resmgr/IpcResource.c): one   *)
(* connection that several tasks use, an endpoint on which all answers     *)
(* arrive, and a semaphore that one task holds from its request to its     *)
(* answer.  Answers carry nothing by which a task could know its own; here *)
(* they have the number of the request, which the code does not see.       *)
(*                                                                         *)
(* The host is external: it serves requests in order.                      *)
(***************************************************************************)
EXTENDS Naturals, Sequences, FiniteSets

CONSTANTS
  Clients,          \* tasks that share the connection
  MaxRequests       \* bound: requests sent in all

ASSUME IpcResourceAssumption == MaxRequests \in Nat

\* Requests that are answered, and those that are not.
Answered == {"alloc", "data", "constrain"}
Calls == Answered \cup {"relax"}

VARIABLES
  conn,             \* "closed", "connecting" or "open"
  resSem,           \* handle->sem
  resPc, resCall,   \* where each task is, and in which call
  resId,            \* the number of its request
  lastId,           \* requests sent so far
  toManager,        \* requests on the way
  fromManager,      \* answers on the way
  returned,         \* the number of the answer each task was given, or 0
  late              \* a recv has timed out

resVars == <<conn, resSem, resPc, resCall, resId, lastId, toManager, fromManager, returned, late>>

ResInit ==
  /\ conn = "closed" /\ resSem = 0
  /\ resPc = [t \in Clients |-> "idle"] /\ resCall = [t \in Clients |-> "alloc"]
  /\ resId = [t \in Clients |-> 0] /\ lastId = 0
  /\ toManager = <<>> /\ fromManager = <<>>
  /\ returned = [t \in Clients |-> 0] /\ late = FALSE

ResGoto(t, pc) == resPc' = [resPc EXCEPT ![t] = pc]

Send(t, call) ==
  /\ lastId < MaxRequests
  /\ lastId' = lastId + 1
  /\ toManager' = Append(toManager, [id |-> lastId + 1, call |-> call])
  /\ resId' = [resId EXCEPT ![t] = lastId + 1]

-----------------------------------------------------------------------------
(* IpcResource_connect: the endpoint, the announcement, which is the first *)
(* request, and the host's answer or the timeout.  Every way out with an   *)
(* error takes the endpoint back and leaves the semaphore behind: a leak,  *)
(* which is not in the model.                                              *)
Connect(t) ==
  /\ conn = "closed" /\ conn' = "connecting"
  /\ Send(t, "connect") /\ ResGoto(t, "connect")
  /\ returned' = [returned EXCEPT ![t] = 0]
  /\ UNCHANGED <<resSem, resCall, fromManager, late>>

ConnectAck(t) ==
  /\ resPc[t] = "connect" /\ fromManager # <<>>
  /\ fromManager' = Tail(fromManager)
  /\ returned' = [returned EXCEPT ![t] = Head(fromManager)]
  /\ conn' = "open" /\ resSem' = 1 /\ ResGoto(t, "idle")
  /\ UNCHANGED <<resCall, resId, lastId, toManager, late>>

\* An answer that is too short or has an error status: the endpoint goes, with
\* all that is in its queue.
ConnectRefused(t) ==
  /\ resPc[t] = "connect" /\ fromManager # <<>>
  /\ fromManager' = <<>>
  /\ returned' = [returned EXCEPT ![t] = Head(fromManager)]
  /\ conn' = "closed" /\ ResGoto(t, "idle")
  /\ UNCHANGED <<resSem, resCall, resId, lastId, toManager, late>>

ConnectTimeout(t) ==
  /\ resPc[t] = "connect" /\ fromManager = <<>>
  /\ conn' = "closed" /\ late' = TRUE /\ ResGoto(t, "idle")
  /\ UNCHANGED <<resSem, resCall, resId, lastId, toManager, fromManager, returned>>

\* IpcResource_disconnect, when no task is in a call: what is in the queue goes.
Disconnect ==
  /\ conn = "open" /\ \A t \in Clients : resPc[t] = "idle"
  /\ conn' = "closed" /\ resSem' = 0 /\ fromManager' = <<>>
  /\ UNCHANGED <<resPc, resCall, resId, lastId, toManager, returned, late>>

-----------------------------------------------------------------------------
(* request, requestData and setConstraints                                 *)
Call(t, call) ==
  /\ conn = "open" /\ resPc[t] = "idle" /\ lastId < MaxRequests
  /\ resCall' = [resCall EXCEPT ![t] = call] /\ returned' = [returned EXCEPT ![t] = 0]
  /\ resId' = [resId EXCEPT ![t] = 0]
  /\ ResGoto(t, "pend")
  /\ UNCHANGED <<conn, resSem, lastId, toManager, fromManager, late>>

ResPend(t) ==
  /\ resPc[t] = "pend" /\ resSem > 0
  /\ resSem' = resSem - 1 /\ ResGoto(t, "send")
  /\ UNCHANGED <<conn, resCall, resId, lastId, toManager, fromManager, returned, late>>

\* A request to relax a constraint is not answered: the semaphore is posted.
ResSend(t) ==
  /\ resPc[t] = "send"
  /\ Send(t, resCall[t])
  /\ IF resCall[t] \in Answered THEN ResGoto(t, "recv") /\ UNCHANGED resSem
     ELSE ResGoto(t, "idle") /\ resSem' = resSem + 1
  /\ UNCHANGED <<conn, resCall, fromManager, returned, late>>

\* (mutant) the error path keeps the semaphore.
ResSendFailsKept(t) ==
  /\ resPc[t] = "send"
  /\ ResGoto(t, "idle")
  /\ UNCHANGED <<conn, resSem, resCall, resId, lastId, toManager, fromManager, returned, late>>

ResSendFails(t) ==
  /\ resPc[t] = "send"
  /\ resSem' = resSem + 1 /\ ResGoto(t, "idle")
  /\ UNCHANGED <<conn, resCall, resId, lastId, toManager, fromManager, returned, late>>

\* recv, and the post: whatever status the answer has, the call returns with it.
ResRecv(t) ==
  /\ resPc[t] = "recv" /\ fromManager # <<>>
  /\ fromManager' = Tail(fromManager)
  /\ returned' = [returned EXCEPT ![t] = Head(fromManager)]
  /\ resSem' = resSem + 1 /\ ResGoto(t, "idle")
  /\ UNCHANGED <<conn, resCall, resId, lastId, toManager, late>>

ResTimeout(t) ==
  /\ resPc[t] = "recv" /\ fromManager = <<>>
  /\ late' = TRUE
  /\ resSem' = resSem + 1 /\ ResGoto(t, "idle")
  /\ UNCHANGED <<conn, resCall, resId, lastId, toManager, fromManager, returned>>

\* release: without the semaphore, and without an answer.
Release(t) ==
  /\ conn = "open" /\ resPc[t] = "idle"
  /\ Send(t, "free")
  /\ returned' = [returned EXCEPT ![t] = 0]
  /\ UNCHANGED <<conn, resSem, resPc, resCall, fromManager, late>>

-----------------------------------------------------------------------------
\* The host; an answer to an endpoint that is closed is dropped.
Manager ==
  /\ toManager # <<>>
  /\ toManager' = Tail(toManager)
  /\ fromManager' = IF conn # "closed" /\ Head(toManager).call \in Answered \cup {"connect"}
                    THEN Append(fromManager, Head(toManager).id) ELSE fromManager
  /\ UNCHANGED <<conn, resSem, resPc, resCall, resId, lastId, returned, late>>

InCall(t) ==
  ConnectAck(t) \/ ConnectRefused(t) \/ ConnectTimeout(t) \/ ResPend(t) \/ ResSend(t)
    \/ ResSendFails(t) \/ ResRecv(t) \/ ResTimeout(t)

ResNext ==
  \/ Manager \/ Disconnect
  \/ \E t \in Clients :
       \/ Connect(t) \/ InCall(t) \/ Release(t)
       \/ \E call \in Calls : Call(t, call)

ResSpec == ResInit /\ [][ResNext]_resVars

ResTypeOK ==
  /\ conn \in {"closed", "connecting", "open"}
  /\ resPc \in [Clients -> {"idle", "connect", "pend", "send", "recv"}]
  /\ resSem \in 0 .. 1 /\ lastId \in 0 .. MaxRequests /\ late \in BOOLEAN

(* As long as no recv has timed out the answer a call returns is the one to  *)
(* its own request, whatever the other tasks of the connection ask for and   *)
(* whatever is not answered (IpcResource_request's semaphore).               *)
AnswerIsOwn == ~late => \A t \in Clients : returned[t] \in {0, resId[t]}

(* Every path out of a call has posted the semaphore as often as the path    *)
(* into it has pended on it.                                                 *)
GateIsBalanced ==
  conn = "open" =>
    resSem + Cardinality({t \in Clients : resPc[t] \in {"send", "recv"}}) = 1

(* Tasks that share a connection get their own answers and leave it as they  *)
(* found it (IpcResource_request and its callers).                           *)
RequestsAreSound == ResTypeOK /\ AnswerIsOwn /\ GateIsBalanced
=============================================================================
