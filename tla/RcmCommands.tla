---------------------------- MODULE RcmCommands ----------------------------
(***************************************************************************)
(* The messages of one RcmClient as its calls allocate, send, receive and  *)
(* free them, and what the field of the descriptor is worth in which the   *)
(* client puts the type of a message and the server its status.            *)
(* RcmClient.tla has the threads inside getReturnMsg_P, RcmServer.tla the  *)
(* inside of the server; here the client is one thread and the server      *)
(* answers what it has in any order.  MessageQ is external.                *)
(*                                                                         *)
(* Left out: a MessageQ_get that fails (see RcmClient.tla); execAsync,     *)
(* which refuses without callbacks, and no instance with callbacks can be  *)
(* used (see RcmInstances.tla); the stubs addSymbol and removeSymbol.      *)
(***************************************************************************)
EXTENDS Integers

CONSTANTS
    Packets,
    ReusesFailed,   \* clients send a message again whatever became of it
    NoPacket

ASSUME RcmCommandsAssumption == ReusesFailed \in BOOLEAN /\ NoPacket \notin Packets

\* RcmClient_Desc_*
TypeOf ==
  [exec |-> 1, execNoWait |-> 1, execDpc |-> 2, getSymbolIndex |-> 4, execCmd |-> 5,
   acquireJobId |-> 6, releaseJobId |-> 7]

\* x | y of two numbers below 16.
Ored(x, y) ==
  LET common(bit) == bit * ((x \div bit) % 2) * ((y \div bit) % 2) IN
  x + y - common(1) - common(2) - common(4) - common(8)

\* Calls that take a message of their own from the heap and give it back.
Internal == {"getSymbolIndex", "acquireJobId", "releaseJobId"}
Waiting == Internal \cup {"exec", "execDpc"}

\* RcmServer_Status_* that process_P, dispatch_P and relJobId_P set.  A DPC that
\* is found keeps its type, which is the status "symbol not found".
StatusesOf(type) ==
  CASE type = 1 -> {0, 1, 4, 5} [] type = 2 -> {2} [] type = 4 -> {0, 2}
    [] type = 5 -> {1, 4, 5} [] type = 6 -> {0, 5} [] type = 7 -> {0, 7, 5} [] OTHER -> {}
JobNotFound == 7
PoolNotFound == 8
Rejections == {6, JobNotFound, PoolNotFound}

VARIABLES
    place,          \* of each message: heap, client, server, msgQue, errorMsgQue, dropped
    desc,           \* packet->desc, the field of RcmClient_Desc_TYPE_MASK
    replyTo,        \* the reply queue in its header
    sentAs,         \* the call that sent it
    call,           \* the call the client is in: [op, packet]
    checked,        \* what checkForError has just returned: [ok, packet]
    wildFrees       \* calls that have freed a pointer nobody has set

cmdVars == <<place, desc, replyTo, sentAs, call, checked, wildFrees>>

NoCall == [op |-> "none", packet |-> NoPacket]
NoError == [ok |-> TRUE, packet |-> NoPacket]

CmdInit ==
  /\ place = [p \in Packets |-> "heap"] /\ desc = [p \in Packets |-> 0]
  /\ replyTo = [p \in Packets |-> "none"] /\ sentAs = [p \in Packets |-> "none"]
  /\ call = NoCall /\ checked = NoError
  /\ wildFrees = {}

InHeap == {p \in Packets : place[p] = "heap"}

-----------------------------------------------------------------------------
(* The client *)

\* MessageQ_free; what a message held is gone.
ToHeap(p) ==
  /\ place' = [place EXCEPT ![p] = "heap"] /\ desc' = [desc EXCEPT ![p] = 0]
  /\ replyTo' = [replyTo EXCEPT ![p] = "none"] /\ sentAs' = [sentAs EXCEPT ![p] = "none"]

\* RcmClient_alloc
AllocPacket(p) ==
  /\ call = NoCall /\ p \in InHeap
  /\ place' = [place EXCEPT ![p] = "client"]
  /\ checked' = NoError
  /\ UNCHANGED <<desc, replyTo, sentAs, call, wildFrees>>

\* RcmClient_free
FreePacket(p) ==
  /\ call = NoCall /\ place[p] = "client"
  /\ ToHeap(p) /\ checked' = NoError
  /\ UNCHANGED <<call, wildFrees>>

\* The promise of a careful client: what has come back with a status is not sent
\* again.
MayBeSent(p) == ReusesFailed \/ desc[p] = 0

\* (mutant) the errors of a command come back with the replies.
ReplyQueueAlways(op) == "msgQue"

ReplyQueue(op) == IF op = "execCmd" THEN "errorMsgQue" ELSE "msgQue"

\* The type is added to the descriptor and the message is put.
Put(op, p) ==
  /\ desc' = [desc EXCEPT ![p] = Ored(@, TypeOf[op])]
  /\ replyTo' = [replyTo EXCEPT ![p] = ReplyQueue(op)]
  /\ sentAs' = [sentAs EXCEPT ![p] = op]
  /\ place' = [place EXCEPT ![p] = "server"]

\* exec, execDpc, execNoWait and execCmd.  If MessageQ_put fails the message
\* stays the client's, with the type in it.
Send(op, p) ==
  /\ call = NoCall /\ place[p] = "client" /\ MayBeSent(p)
  /\ \/ Put(op, p) /\ call' = IF op \in Waiting THEN [op |-> op, packet |-> p] ELSE NoCall
     \/ /\ desc' = [desc EXCEPT ![p] = Ored(@, TypeOf[op])]
        /\ UNCHANGED <<place, replyTo, sentAs, call>>
  /\ checked' = NoError
  /\ UNCHANGED wildFrees

\* The calls with a message of their own, which an error of MessageQ_put gives
\* back to the heap at once.
SendOwn(op, p) ==
  /\ call = NoCall /\ p \in InHeap
  /\ Put(op, p) /\ call' = [op |-> op, packet |-> p]
  /\ checked' = NoError
  /\ UNCHANGED wildFrees

\* rcmMsg = NULL
Initialised == {"getSymbolIndex"}

\* No message for the call: it frees the pointer that alloc has not set.
SendFails(op) ==
  /\ call = NoCall /\ op \in Internal /\ InHeap = {}
  /\ wildFrees' = IF op \in Initialised THEN wildFrees ELSE wildFrees \cup {op}
  /\ checked' = NoError
  /\ UNCHANGED <<place, desc, replyTo, sentAs, call>>

Exec(p) == Send("exec", p)
ExecDpc(p) == Send("execDpc", p)
ExecNoWait(p) == Send("execNoWait", p)
ExecCmd(p) == Send("execCmd", p)

OwnCall(op) == SendFails(op) \/ \E p \in Packets : SendOwn(op, p)
GetSymbolIndex == OwnCall("getSymbolIndex")
AcquireJobId == OwnCall("acquireJobId")
ReleaseJobId == OwnCall("releaseJobId")

\* RcmClient_waitUntilDone, for a message that is not back.
WaitFor(p) ==
  /\ call = NoCall /\ sentAs[p] = "execNoWait" /\ place[p] \in {"server", "msgQue"}
  /\ call' = [op |-> "waitUntilDone", packet |-> p]
  /\ checked' = NoError
  /\ UNCHANGED <<place, desc, replyTo, sentAs, wildFrees>>

\* The reply is there: it is the client's, or the call frees it.
GetReply ==
  /\ call # NoCall /\ place[call.packet] = "msgQue"
  /\ IF call.op \in Internal THEN ToHeap(call.packet)
     ELSE /\ place' = [place EXCEPT ![call.packet] = "client"]
          /\ UNCHANGED <<desc, replyTo, sentAs>>
  /\ call' = NoCall
  /\ UNCHANGED <<checked, wildFrees>>

\* The cases of the switch that only log.
ToldAsSuccess(status) == status \in {JobNotFound, PoolNotFound}

\* RcmClient_checkForError
CheckForError ==
  /\ call = NoCall
  /\ \/ \E p \in Packets :
          /\ place[p] = "errorMsgQue"
          /\ place' = [place EXCEPT ![p] = "client"]
          /\ checked' = [ok |-> ToldAsSuccess(desc[p]), packet |-> p]
     \/ /\ \A p \in Packets : place[p] # "errorMsgQue"
        /\ checked' = NoError /\ UNCHANGED place
  /\ UNCHANGED <<desc, replyTo, sentAs, call, wildFrees>>

-----------------------------------------------------------------------------
(* The server, external: what it makes of a message is its type's. *)
Reply(p, status) ==
  /\ desc' = [desc EXCEPT ![p] = status]
  /\ place' = [place EXCEPT ![p] = replyTo[p]]
  /\ UNCHANGED <<replyTo, sentAs>>

\* process_P; one that is of no type it knows is put aside for ever.
ProcessPacket(p) ==
  IF StatusesOf(desc[p]) = {}
  THEN place' = [place EXCEPT ![p] = "dropped"] /\ UNCHANGED <<desc, replyTo, sentAs>>
  ELSE \E status \in StatusesOf(desc[p]) : Reply(p, status)

Serve(p) ==
  /\ place[p] = "server"
  /\ \/ ProcessPacket(p)
     \/ desc[p] = TypeOf.execCmd /\ ToHeap(p)
     \/ \E status \in Rejections : Reply(p, status)
  /\ UNCHANGED <<call, checked, wildFrees>>

ServeSome == \E p \in Packets : Serve(p)

CmdNext ==
  \/ \E p \in Packets :
       \/ AllocPacket(p) \/ FreePacket(p) \/ WaitFor(p)
       \/ Exec(p) \/ ExecDpc(p) \/ ExecNoWait(p) \/ ExecCmd(p)
  \/ GetSymbolIndex \/ AcquireJobId \/ ReleaseJobId
  \/ GetReply \/ CheckForError \/ ServeSome

CmdFairness == WF_cmdVars(ServeSome) /\ WF_cmdVars(GetReply)

CmdSpec == CmdInit /\ [][CmdNext]_cmdVars /\ CmdFairness

-----------------------------------------------------------------------------
CmdTypeOK ==
  /\ place \in [Packets -> {"heap", "client", "server", "msgQue", "errorMsgQue", "dropped"}]
  /\ desc \in [Packets -> 0 .. 15]
  /\ replyTo \in [Packets -> {"none", "msgQue", "errorMsgQue"}]
  /\ sentAs \in [Packets -> DOMAIN TypeOf \cup {"none"}]
  /\ wildFrees \subseteq Internal

(* The server takes a message for what the call says it is.  RcmClient.h     *)
(* lets clients use a message again: "After calling exec, the message can be *)
(* either reused for another call to exec or it can be freed."               *)
ReceivedAsSent == \A p \in Packets : place[p] = "server" => desc[p] = TypeOf[sentAs[p]]

(* A call that waits has its message with the server or on the queue it      *)
(* reads; what nobody waits for, a one-way command, never gets there, and    *)
(* nothing else gets on the queue of errors.                                 *)
RepliesAreExpected ==
  /\ call # NoCall => place[call.packet] \in {"server", "msgQue"}
  /\ \A p \in Packets :
       /\ place[p] = "msgQue" => sentAs[p] # "execCmd"
       /\ place[p] = "errorMsgQue" => sentAs[p] = "execCmd"

(* checkForError tells the client of a message by an error, but for one that *)
(* has no job or no pool; and of the calls that free their message only the  *)
(* two that have not set the pointer free what is not theirs.                *)
ErrorsAreTold ==
  /\ (checked.packet # NoPacket /\ checked.ok)
       => desc[checked.packet] \in {JobNotFound, PoolNotFound}
  /\ wildFrees \subseteq {"acquireJobId", "releaseJobId"}

(* The messages of a client that sends one again only with no status left in *)
(* it are taken for what they are, answered where somebody waits, and their  *)
(* errors told.                                                              *)
CommandsAreSound == CmdTypeOK /\ ReceivedAsSent /\ RepliesAreExpected /\ ErrorsAreTold

(* Whatever a client has put and waits for comes back.                       *)
CommandsReturn == call # NoCall ~> call = NoCall
=============================================================================
