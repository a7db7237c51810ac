----------------------------- MODULE RcmClient -----------------------------
(***************************************************************************)
(* One instance of RcmClient and the threads that share it.  All replies   *)
(* come on one message queue, in any order.  A thread that waits for its   *)
(* reply takes the role of mailman, if nobody has it, and delivers what    *)
(* arrives to the others until its own reply comes; or it waits on the     *)
(* list of recipients for its mail, or for the role.                       *)
(*                                                                         *)
(* MessageQ, its heap and the semaphores are external.  The server         *)
(* answers in any order and may take its time; a call of MessageQ_get that *)
(* fails is GetFails.  A message is its id: the promise of the clients     *)
(* that FreshId states makes it unique among the messages that are out.    *)
(* What the types of the messages, the statuses and the error queue of     *)
(* commands (execCmd, checkForError) do is in RcmCommands.                 *)
(***************************************************************************)
EXTENDS Integers, Sequences

CONSTANTS
    Threads,
    ExecOnly,       \* those that use the calls that wait, and no execNoWait
    MaxId,          \* 0xFFFF, the last message id before 1 comes again
    NULL

ASSUME RcmClientAssumption ==
    /\ MaxId \in Nat \ {0}
    /\ ExecOnly \subseteq Threads
    /\ NULL \notin Threads \cup 1 .. MaxId

Messages == 1 .. MaxId

VARIABLES
    msgId,          \* obj->msgId, the last id given
    out,            \* messages that are allocated
    server,         \* messages the server has
    msgQue,         \* obj->msgQue
    newMail,        \* obj->newMail
    recipients,     \* obj->recipients; whom the code finds first is left open
    mail,           \* self.msg of each recipient
    event,          \* self.event has been posted
    mbxLock,        \* who has the mailbox lock
    queueLock,      \* who has the message queue lock: the mailman
    msgqMsg,        \* the message the mailman has received while he waited
    pc,
    wants,          \* the message a thread waits for
    sent,           \* messages a thread has sent and may wait for
    got             \* the message a thread has been returned

callVars == <<pc, wants, sent, got>>
mailboxVars == <<newMail, recipients, mail, event>>
lockVars == <<mbxLock, queueLock>>
queueVars == <<msgQue, server>>
allocVars == <<msgId, out>>
vars == <<callVars, mailboxVars, lockVars, queueVars, allocVars, msgqMsg>>

Init ==
  /\ msgId = MaxId /\ out = {}
  /\ server = {} /\ msgQue = <<>> /\ newMail = {}
  /\ recipients = {} /\ mbxLock = NULL /\ queueLock = NULL
  /\ mail = [t \in Threads |-> NULL] /\ event = [t \in Threads |-> FALSE]
  /\ msgqMsg = [t \in Threads |-> NULL]
  /\ pc = [t \in Threads |-> "idle"] /\ sent = [t \in Threads |-> {}]
  /\ wants = [t \in Threads |-> NULL] /\ got = [t \in Threads |-> NULL]

At(t, label) == pc[t] = label
Goto(t, label) == pc' = [pc EXCEPT ![t] = label]

-----------------------------------------------------------------------------
(* Sending.  A message and its id are private until the message is put. *)

\* (mutant) the id does not come round.
GenMsgIdOn == msgId + 1

GenMsgId == IF msgId = MaxId THEN 1 ELSE msgId + 1

\* The promise of the clients: no message is out for so long that its id comes
\* round again, 65535 messages later.
FreshId == GenMsgId \notin out

\* alloc and execNoWait.  exec, execDpc, getSymbolIndex, acquireJobId and
\* releaseJobId are the same followed by WaitUntilDone.
ExecNoWait(t) ==
  /\ At(t, "idle") /\ FreshId
  /\ t \in ExecOnly => sent[t] = {}
  /\ msgId' = GenMsgId /\ out' = out \cup {GenMsgId}
  /\ server' = server \cup {GenMsgId}
  /\ sent' = [sent EXCEPT ![t] = @ \cup {GenMsgId}]
  /\ UNCHANGED <<pc, wants, got, msgQue, mailboxVars, lockVars, msgqMsg>>

WaitUntilDone(t, m) ==
  /\ At(t, "idle") /\ m \in sent[t]
  /\ wants' = [wants EXCEPT ![t] = m]
  /\ Goto(t, "asks")
  /\ UNCHANGED <<sent, got, mailboxVars, lockVars, queueVars, allocVars, msgqMsg>>

\* The caller reads the status in the message and frees it.
Free(t) ==
  /\ At(t, "returned")
  /\ out' = out \ {got[t]}
  /\ got' = [got EXCEPT ![t] = NULL]
  /\ Goto(t, "idle")
  /\ UNCHANGED <<wants, sent, msgId, mailboxVars, lockVars, queueVars, msgqMsg>>

-----------------------------------------------------------------------------
(* RcmClient_getReturnMsg_P *)

\* The call returns message m.
Return(t, m) ==
  /\ got' = [got EXCEPT ![t] = m]
  /\ sent' = [sent EXCEPT ![t] = @ \ {m}]
  /\ wants' = [wants EXCEPT ![t] = NULL]
  /\ Goto(t, "returned")

\* The reply is in the mailbox already.
FindNewMail(t) ==
  /\ At(t, "asks") /\ mbxLock = NULL /\ wants[t] \in newMail
  /\ newMail' = newMail \ {wants[t]}
  /\ Return(t, wants[t])
  /\ UNCHANGED <<recipients, mail, event, lockVars, queueVars, allocVars, msgqMsg>>

NoNewMail(t) == At(t, "asks") /\ mbxLock = NULL /\ wants[t] \notin newMail

\* From here to QueueEmpty or TakeOwn the mailman keeps the mailbox lock.
BecomeMailman(t) ==
  /\ NoNewMail(t) /\ queueLock = NULL
  /\ mbxLock' = t /\ queueLock' = t
  /\ Goto(t, "delivers")
  /\ UNCHANGED <<wants, sent, got, mailboxVars, queueVars, allocVars, msgqMsg>>

BecomeRecipient(t) ==
  /\ NoNewMail(t) /\ queueLock # NULL
  /\ recipients' = recipients \cup {t}
  /\ mail' = [mail EXCEPT ![t] = NULL] /\ event' = [event EXCEPT ![t] = FALSE]
  /\ Goto(t, "waits")
  /\ UNCHANGED <<wants, sent, got, newMail, lockVars, queueVars, allocVars, msgqMsg>>

\* The mailman deals with m: the next of the queue or, with the mailbox lock
\* taken again, the one he has waited for.
Takes(t, m) ==
  \/ /\ At(t, "delivers") /\ msgQue # <<>> /\ m = Head(msgQue)
     /\ msgQue' = Tail(msgQue) /\ UNCHANGED msgqMsg
  \/ /\ At(t, "got") /\ mbxLock = NULL /\ m = msgqMsg[t]
     /\ msgqMsg' = [msgqMsg EXCEPT ![t] = NULL] /\ UNCHANGED msgQue

\* (mutant) the recipient gets no signal.
PostNobody(r) == UNCHANGED event

Post(r) == event' = [event EXCEPT ![r] = TRUE]

WithoutMail == {r \in recipients : mail[r] = NULL}

\* (mutant) the role is not passed on.
TakeOwnAndLeave(t) ==
  /\ Takes(t, wants[t])
  /\ mbxLock' = NULL /\ queueLock' = NULL
  /\ Return(t, wants[t])
  /\ UNCHANGED <<mailboxVars, server, allocVars>>

\* The mailman's own: he makes somebody who waits the new mailman and leaves.
TakeOwn(t) ==
  /\ Takes(t, wants[t])
  /\ \/ \E r \in WithoutMail : Post(r)
     \/ WithoutMail = {} /\ UNCHANGED event
  /\ mbxLock' = NULL /\ queueLock' = NULL
  /\ Return(t, wants[t])
  /\ UNCHANGED <<newMail, recipients, mail, server, allocVars>>

\* (mutant) whoever is first on the list gets the message.
AddresseesAny(m) == {r \in recipients : mail[r] = NULL}

Addressees(m) == {r \in recipients : wants[r] = m}

\* Somebody else's: to the recipient it is for, or to the mailbox.
Deliver(t, m) ==
  /\ Takes(t, m) /\ m # wants[t]
  /\ \/ \E r \in Addressees(m) :
          /\ mail' = [mail EXCEPT ![r] = m]
          /\ Post(r)
          /\ UNCHANGED newMail
     \/ /\ Addressees(m) = {}
        /\ newMail' = newMail \cup {m}
        /\ UNCHANGED <<mail, event>>
  /\ mbxLock' = t
  /\ Goto(t, "delivers")
  /\ UNCHANGED <<wants, sent, got, recipients, queueLock, server, allocVars>>

\* The mailman lets the mailbox go and waits for the next message.
QueueEmpty(t) ==
  /\ At(t, "delivers") /\ msgQue = <<>>
  /\ mbxLock' = NULL
  /\ Goto(t, "gets")
  /\ UNCHANGED <<wants, sent, got, mailboxVars, queueLock, queueVars, allocVars, msgqMsg>>

GetNext(t) ==
  /\ At(t, "gets") /\ msgQue # <<>>
  /\ msgqMsg' = [msgqMsg EXCEPT ![t] = Head(msgQue)]
  /\ msgQue' = Tail(msgQue)
  /\ Goto(t, "got")
  /\ UNCHANGED <<wants, sent, got, mailboxVars, lockVars, server, allocVars>>

\* MessageQ_get returns an error: the call returns "lost return message" and
\* gives back neither lock.  What the thread calls after that is left out.
GetFails(t) ==
  /\ At(t, "delivers") \/ At(t, "gets")
  /\ wants' = [wants EXCEPT ![t] = NULL]
  /\ Goto(t, "lost")
  /\ UNCHANGED <<sent, got, mailboxVars, lockVars, queueVars, allocVars, msgqMsg>>

\* The event is posted: off the list, with mail or to try for the role again.
PickUp(t) ==
  /\ At(t, "waits") /\ event[t] /\ mbxLock = NULL
  /\ recipients' = recipients \ {t}
  /\ \/ mail[t] # NULL /\ Return(t, mail[t])
     \/ mail[t] = NULL /\ Goto(t, "asks") /\ UNCHANGED <<wants, sent, got>>
  /\ mail' = [mail EXCEPT ![t] = NULL] /\ event' = [event EXCEPT ![t] = FALSE]
  /\ UNCHANGED <<newMail, lockVars, queueVars, allocVars, msgqMsg>>

-----------------------------------------------------------------------------
(* The server, external. *)
Answer(m) ==
  /\ m \in server
  /\ server' = server \ {m}
  /\ msgQue' = Append(msgQue, m)
  /\ UNCHANGED <<callVars, mailboxVars, lockVars, allocVars, msgqMsg>>

-----------------------------------------------------------------------------
GetReturnMsg(t) ==
  \/ FindNewMail(t) \/ BecomeMailman(t) \/ BecomeRecipient(t) \/ TakeOwn(t)
  \/ \E m \in Messages : Deliver(t, m)
  \/ QueueEmpty(t) \/ GetNext(t) \/ PickUp(t)

Call(t) ==
  \/ ExecNoWait(t) \/ Free(t)
  \/ \E m \in Messages : WaitUntilDone(t, m)

Next ==
  \/ \E t \in Threads : Call(t) \/ GetReturnMsg(t) \/ GetFails(t)
  \/ \E m \in Messages : Answer(m)

\* A thread inside getReturnMsg goes on; the semaphores serve who waits in turn.
Fairness == \A t \in Threads : SF_vars(GetReturnMsg(t))

Spec == Init /\ [][Next]_vars
FairSpec == Spec /\ Fairness

-----------------------------------------------------------------------------
(* Properties *)

Queued(que) == {que[i] : i \in 1 .. Len(que)}

TypeOK ==
  /\ msgId \in Messages /\ out \subseteq Messages
  /\ server \subseteq Messages /\ newMail \subseteq Messages
  /\ msgQue \in Seq(Messages)
  /\ recipients \subseteq Threads /\ event \in [Threads -> BOOLEAN]
  /\ mbxLock \in Threads \cup {NULL} /\ queueLock \in Threads \cup {NULL}
  /\ mail \in [Threads -> Messages \cup {NULL}]
  /\ msgqMsg \in [Threads -> Messages \cup {NULL}]
  /\ wants \in [Threads -> Messages \cup {NULL}]
  /\ got \in [Threads -> Messages \cup {NULL}]
  /\ sent \in [Threads -> SUBSET Messages]
  /\ pc \in [Threads -> {"idle", "asks", "delivers", "gets", "got", "waits", "returned",
                         "lost"}]

\* No thread waits on the list of recipients for a message that lies in the
\* mailbox: "a waiting recipient is released as soon as his message arrives".
MailIsNotMissed == \A r \in recipients : wants[r] \notin newMail

\* When nobody is mailman and recipients wait without mail, one of them has been
\* woken for the role, or a thread is about to take it that will not find its
\* own reply in the mailbox instead.
RoleIsOffered ==
  queueLock = NULL /\ WithoutMail # {} =>
    \/ \E r \in WithoutMail : event[r]
    \/ \E t \in Threads : At(t, "asks") /\ wants[t] \notin newMail

\* No recipient is forgotten: his mail is given to him, and the role is handed on.
MailmanIsFair == MailIsNotMissed /\ RoleIsOffered

\* The life of each message as its callers see it; no message is lost, and each
\* reply is returned once, to the thread that sent it.
InMailbox(m) ==
  \/ m \in Queued(msgQue) \cup newMail
  \/ \E t \in Threads : mail[t] = m \/ msgqMsg[t] = m
Stage(m) ==
  CASE m \notin out -> "free"
    [] m \in server -> "sent"
    [] \E t \in Threads : got[t] = m -> "returned"
    [] InMailbox(m) -> "answered"
    [] OTHER -> "lost"
Owns(t, m) == m \in sent[t] \/ got[t] = m
Owner(m) ==
  IF \E t \in Threads : Owns(t, m) THEN CHOOSE t \in Threads : Owns(t, m) ELSE NULL

Abstract == INSTANCE Calls WITH
  Nobody <- NULL,
  stage <- [m \in Messages |-> Stage(m)],
  owner <- [m \in Messages |-> Owner(m)]

ImplementsCalls == Abstract!Spec

MailmanLost == \E t \in Threads : At(t, "lost")

\* Once the server has answered, a thread that waits for the reply gets it,
\* whoever receives it and whatever the others wait for: "Message delivery is
\* never stalled waiting on an absent recipient."  A mailman whose MessageQ_get
\* failed does stall it: he keeps the message queue lock.
ReplyReachesCaller ==
  \A t \in Threads :
    wants[t] \notin server \cup {NULL} ~> wants[t] = NULL \/ MailmanLost
=============================================================================
