-------------------------- MODULE RcmClient_proofs --------------------------
(***************************************************************************)
(* For any number of threads and message ids: the role of mailman is never *)
(* lost while somebody waits for it, and no reply lies in the mailbox      *)
(* beside a thread that waits for it on the list of recipients.            *)
(***************************************************************************)
EXTENDS RcmClient, TLAPS

\* What a thread's place in getReturnMsg says of the locks and the lists.
RoleInv ==
  /\ \A t \in Threads : pc[t] = "delivers" => mbxLock = t
  /\ \A t \in Threads : pc[t] \in {"delivers", "gets", "got"} => queueLock = t
  /\ recipients = {t \in Threads : pc[t] = "waits"}
  /\ \A t \in Threads : msgqMsg[t] # NULL <=> pc[t] = "got"
  /\ \A t \in Threads : got[t] # NULL <=> pc[t] = "returned"
  /\ \A t \in Threads :
       wants[t] # NULL <=> pc[t] \in {"asks", "delivers", "gets", "got", "waits"}
  /\ \A t \in Threads : mail[t] # NULL => pc[t] = "waits" /\ mail[t] = wants[t]
  /\ \A t \in Threads : wants[t] # NULL => wants[t] \in sent[t]

-----------------------------------------------------------------------------
LEMMA HeadAndTail ==
  ASSUME NEW S, NEW s \in Seq(S), s # <<>>
  PROVE  Head(s) \in S /\ Tail(s) \in Seq(S)
  OBVIOUS

LEMMA TakesTypes ==
  ASSUME TypeOK, NEW t \in Threads, NEW m, Takes(t, m)
  PROVE  /\ m \in Messages \cup {NULL}
         /\ msgQue' \in Seq(Messages)
         /\ msgqMsg' \in [Threads -> Messages \cup {NULL}]
<1>1. CASE At(t, "delivers") /\ msgQue # <<>> /\ m = Head(msgQue)
           /\ msgQue' = Tail(msgQue) /\ UNCHANGED msgqMsg
  BY <1>1, HeadAndTail DEF TypeOK
<1>2. CASE m = msgqMsg[t] /\ msgqMsg' = [msgqMsg EXCEPT ![t] = NULL] /\ UNCHANGED msgQue
  BY <1>2 DEF TypeOK
<1> QED BY <1>1, <1>2 DEF Takes

LEMMA NullIsNoMessage == NULL \notin 1 .. MaxId
  BY RcmClientAssumption

LEMMA TypeInit ==
  ASSUME Init PROVE TypeOK
  BY RcmClientAssumption DEF Init, TypeOK, Messages

LEMMA TypeStep ==
  ASSUME TypeOK, [Next]_vars
  PROVE  TypeOK'
<1> USE RcmClientAssumption DEF At, Goto, Messages, TypeOK
<1>1. ASSUME NEW t \in Threads, ExecNoWait(t) PROVE TypeOK'
  BY <1>1, HeadAndTail DEF ExecNoWait, FreshId, GenMsgId, vars, callVars, mailboxVars,
      lockVars, queueVars, allocVars
<1>2. ASSUME NEW t \in Threads, Free(t) PROVE TypeOK'
  BY <1>2, HeadAndTail DEF Free, vars, callVars, mailboxVars, lockVars, queueVars,
      allocVars
<1>3. ASSUME NEW t \in Threads, NEW m \in Messages, WaitUntilDone(t, m) PROVE TypeOK'
  BY <1>3, HeadAndTail DEF WaitUntilDone, vars, callVars, mailboxVars, lockVars,
      queueVars, allocVars
<1>4. ASSUME NEW t \in Threads, FindNewMail(t) PROVE TypeOK'
  BY <1>4, HeadAndTail DEF FindNewMail, Return, vars, callVars, mailboxVars, lockVars,
      queueVars, allocVars
<1>5. ASSUME NEW t \in Threads, BecomeMailman(t) PROVE TypeOK'
  BY <1>5, HeadAndTail DEF BecomeMailman, NoNewMail, vars, callVars, mailboxVars,
      lockVars, queueVars, allocVars
<1>6. ASSUME NEW t \in Threads, BecomeRecipient(t) PROVE TypeOK'
  BY <1>6, HeadAndTail DEF BecomeRecipient, NoNewMail, vars, callVars, mailboxVars,
      lockVars, queueVars, allocVars
<1>7. ASSUME NEW t \in Threads, TakeOwn(t) PROVE TypeOK'
  <2>1. CASE \E r \in WithoutMail : Post(r)
    BY <1>7, <2>1, TakesTypes DEF TakeOwn, Return, Post, WithoutMail, vars, callVars,
        mailboxVars, lockVars, queueVars, allocVars
  <2>2. CASE WithoutMail = {} /\ UNCHANGED event
    BY <1>7, <2>2, TakesTypes DEF TakeOwn, Return, WithoutMail, vars, callVars,
        mailboxVars, lockVars, queueVars, allocVars
  <2> QED BY <1>7, <2>1, <2>2 DEF TakeOwn
<1>8. ASSUME NEW t \in Threads, NEW m \in Messages, Deliver(t, m) PROVE TypeOK'
  <2>1. CASE \E r \in Addressees(m) : mail' = [mail EXCEPT ![r] = m] /\ Post(r) /\ UNCHANGED newMail
    BY <1>8, <2>1, TakesTypes DEF Deliver, Post, Addressees, vars, callVars,
        mailboxVars, lockVars, queueVars, allocVars
  <2>2. CASE Addressees(m) = {} /\ newMail' = newMail \cup {m} /\ UNCHANGED <<mail,
      event>>
    BY <1>8, <2>2, TakesTypes DEF Deliver, Addressees, vars, callVars, mailboxVars,
        lockVars, queueVars, allocVars
  <2> QED BY <1>8, <2>1, <2>2 DEF Deliver
<1>9. ASSUME NEW t \in Threads, QueueEmpty(t) PROVE TypeOK'
  BY <1>9, HeadAndTail DEF QueueEmpty, vars, callVars, mailboxVars, lockVars,
      queueVars, allocVars
<1>10. ASSUME NEW t \in Threads, GetNext(t) PROVE TypeOK'
  BY <1>10, HeadAndTail DEF GetNext, vars, callVars, mailboxVars, lockVars, queueVars,
      allocVars
<1>11. ASSUME NEW t \in Threads, PickUp(t) PROVE TypeOK'
  <2>1. CASE mail[t] # NULL /\ Return(t, mail[t])
    BY <1>11, <2>1 DEF PickUp, Return, vars, callVars, mailboxVars, lockVars,
        queueVars, allocVars
  <2>2. CASE mail[t] = NULL /\ Goto(t, "asks") /\ UNCHANGED <<wants, sent, got>>
    BY <1>11, <2>2 DEF PickUp, vars, callVars, mailboxVars, lockVars, queueVars,
        allocVars
  <2> QED BY <1>11, <2>1, <2>2 DEF PickUp
<1>12. ASSUME NEW t \in Threads, GetFails(t) PROVE TypeOK'
  BY <1>12, HeadAndTail DEF GetFails, vars, callVars, mailboxVars, lockVars, queueVars,
      allocVars
<1>13. ASSUME NEW m \in Messages, Answer(m) PROVE TypeOK'
  BY <1>13, HeadAndTail DEF Answer, vars, callVars, mailboxVars, lockVars, queueVars,
      allocVars
<1>14. CASE UNCHANGED vars
  BY <1>14 DEF vars, callVars, mailboxVars, lockVars, queueVars, allocVars
<1> QED BY <1>1, <1>2, <1>3, <1>4, <1>5, <1>6, <1>7, <1>8, <1>9, <1>10, <1>11, <1>12,
    <1>13, <1>14 DEF Next, Call, GetReturnMsg

\* Every variable keeps its type.
THEOREM TypeCorrect == Spec => []TypeOK
<1>1. Init => TypeOK
  BY TypeInit
<1>2. TypeOK /\ [Next]_vars => TypeOK'
  BY TypeStep
<1> QED BY <1>1, <1>2, PTL DEF Spec

-----------------------------------------------------------------------------
LEMMA RoleInit ==
  ASSUME Init PROVE RoleInv
  BY DEF Init, RoleInv

LEMMA RoleStep ==
  ASSUME TypeOK, RoleInv, [Next]_vars
  PROVE  RoleInv'
<1> USE RcmClientAssumption DEF At, Goto, Messages, TypeOK, RoleInv
<1>1. ASSUME NEW t \in Threads, ExecNoWait(t) PROVE RoleInv'
  BY <1>1, HeadAndTail DEF ExecNoWait, FreshId, GenMsgId, vars, callVars, mailboxVars,
      lockVars, queueVars, allocVars
<1>2. ASSUME NEW t \in Threads, Free(t) PROVE RoleInv'
  BY <1>2, HeadAndTail DEF Free, vars, callVars, mailboxVars, lockVars, queueVars,
      allocVars
<1>3. ASSUME NEW t \in Threads, NEW m \in Messages, WaitUntilDone(t, m) PROVE RoleInv'
  BY <1>3, HeadAndTail DEF WaitUntilDone, vars, callVars, mailboxVars, lockVars,
      queueVars, allocVars
<1>4. ASSUME NEW t \in Threads, FindNewMail(t) PROVE RoleInv'
  BY <1>4, HeadAndTail DEF FindNewMail, Return, vars, callVars, mailboxVars, lockVars,
      queueVars, allocVars
<1>5. ASSUME NEW t \in Threads, BecomeMailman(t) PROVE RoleInv'
  BY <1>5, HeadAndTail DEF BecomeMailman, NoNewMail, vars, callVars, mailboxVars,
      lockVars, queueVars, allocVars
<1>6. ASSUME NEW t \in Threads, BecomeRecipient(t) PROVE RoleInv'
  BY <1>6, HeadAndTail DEF BecomeRecipient, NoNewMail, vars, callVars, mailboxVars,
      lockVars, queueVars, allocVars
<1>7. ASSUME NEW t \in Threads, TakeOwn(t) PROVE RoleInv'
  <2>1. CASE \E r \in WithoutMail : Post(r)
    BY <1>7, <2>1, TakesTypes DEF TakeOwn, Return, Post, WithoutMail, Takes, vars,
        callVars, mailboxVars, lockVars, queueVars, allocVars
  <2>2. CASE WithoutMail = {} /\ UNCHANGED event
    BY <1>7, <2>2, TakesTypes DEF TakeOwn, Return, WithoutMail, Takes, vars, callVars,
        mailboxVars, lockVars, queueVars, allocVars
  <2> QED BY <1>7, <2>1, <2>2 DEF TakeOwn
<1>8. ASSUME NEW t \in Threads, NEW m \in Messages, Deliver(t, m) PROVE RoleInv'
  <2>1. CASE \E r \in Addressees(m) : mail' = [mail EXCEPT ![r] = m] /\ Post(r) /\ UNCHANGED newMail
    BY <1>8, <2>1, TakesTypes DEF Deliver, Post, Addressees, Takes, vars, callVars,
        mailboxVars, lockVars, queueVars, allocVars
  <2>2. CASE Addressees(m) = {} /\ newMail' = newMail \cup {m} /\ UNCHANGED <<mail,
      event>>
    BY <1>8, <2>2, TakesTypes DEF Deliver, Addressees, Takes, vars, callVars,
        mailboxVars, lockVars, queueVars, allocVars
  <2> QED BY <1>8, <2>1, <2>2 DEF Deliver
<1>9. ASSUME NEW t \in Threads, QueueEmpty(t) PROVE RoleInv'
  BY <1>9, HeadAndTail DEF QueueEmpty, vars, callVars, mailboxVars, lockVars,
      queueVars, allocVars
<1>10. ASSUME NEW t \in Threads, GetNext(t) PROVE RoleInv'
  BY <1>10, HeadAndTail DEF GetNext, vars, callVars, mailboxVars, lockVars, queueVars,
      allocVars
<1>11. ASSUME NEW t \in Threads, PickUp(t) PROVE RoleInv'
  <2>1. CASE mail[t] # NULL /\ Return(t, mail[t])
    BY <1>11, <2>1 DEF PickUp, Return, vars, callVars, mailboxVars, lockVars,
        queueVars, allocVars
  <2>2. CASE mail[t] = NULL /\ Goto(t, "asks") /\ UNCHANGED <<wants, sent, got>>
    BY <1>11, <2>2 DEF PickUp, vars, callVars, mailboxVars, lockVars, queueVars,
        allocVars
  <2> QED BY <1>11, <2>1, <2>2 DEF PickUp
<1>12. ASSUME NEW t \in Threads, GetFails(t) PROVE RoleInv'
  BY <1>12, HeadAndTail DEF GetFails, vars, callVars, mailboxVars, lockVars, queueVars,
      allocVars
<1>13. ASSUME NEW m \in Messages, Answer(m) PROVE RoleInv'
  BY <1>13, HeadAndTail DEF Answer, vars, callVars, mailboxVars, lockVars, queueVars,
      allocVars
<1>14. CASE UNCHANGED vars
  BY <1>14 DEF vars, callVars, mailboxVars, lockVars, queueVars, allocVars
<1> QED BY <1>1, <1>2, <1>3, <1>4, <1>5, <1>6, <1>7, <1>8, <1>9, <1>10, <1>11, <1>12,
    <1>13, <1>14 DEF Next, Call, GetReturnMsg

LEMMA TakesRole ==
  ASSUME TypeOK, RoleInv, NEW t \in Threads, NEW m, Takes(t, m)
  PROVE  queueLock = t /\ t \notin recipients /\ queueLock # NULL
  BY RcmClientAssumption DEF TypeOK, RoleInv, Takes, At

-----------------------------------------------------------------------------
LEMMA MailInit ==
  ASSUME Init PROVE MailIsNotMissed
  BY DEF Init, MailIsNotMissed

LEMMA MailStep ==
  ASSUME TypeOK, RoleInv, MailIsNotMissed, [Next]_vars
  PROVE  MailIsNotMissed'
<1> USE RcmClientAssumption DEF At, Goto, Messages, TypeOK, RoleInv, MailIsNotMissed
<1>1. ASSUME NEW t \in Threads, ExecNoWait(t) PROVE MailIsNotMissed'
  BY <1>1, TakesRole DEF ExecNoWait, FreshId, GenMsgId, vars, callVars, mailboxVars,
      lockVars, queueVars, allocVars
<1>2. ASSUME NEW t \in Threads, Free(t) PROVE MailIsNotMissed'
  BY <1>2, TakesRole DEF Free, vars, callVars, mailboxVars, lockVars, queueVars,
      allocVars
<1>3. ASSUME NEW t \in Threads, NEW m \in Messages, WaitUntilDone(t,
    m) PROVE MailIsNotMissed'
  BY <1>3, TakesRole DEF WaitUntilDone, vars, callVars, mailboxVars, lockVars,
      queueVars, allocVars
<1>4. ASSUME NEW t \in Threads, FindNewMail(t) PROVE MailIsNotMissed'
  BY <1>4, TakesRole DEF FindNewMail, Return, vars, callVars, mailboxVars, lockVars,
      queueVars, allocVars
<1>5. ASSUME NEW t \in Threads, BecomeMailman(t) PROVE MailIsNotMissed'
  BY <1>5, TakesRole DEF BecomeMailman, NoNewMail, vars, callVars, mailboxVars,
      lockVars, queueVars, allocVars
<1>6. ASSUME NEW t \in Threads, BecomeRecipient(t) PROVE MailIsNotMissed'
  BY <1>6, TakesRole DEF BecomeRecipient, NoNewMail, vars, callVars, mailboxVars,
      lockVars, queueVars, allocVars
<1>7. ASSUME NEW t \in Threads, TakeOwn(t) PROVE MailIsNotMissed'
  <2>1. CASE \E r \in WithoutMail : Post(r)
    BY <1>7, <2>1, TakesRole DEF TakeOwn, Return, Post, WithoutMail, vars, callVars,
        mailboxVars, lockVars, queueVars, allocVars
  <2>2. CASE WithoutMail = {} /\ UNCHANGED event
    BY <1>7, <2>2, TakesRole DEF TakeOwn, Return, WithoutMail, vars, callVars,
        mailboxVars, lockVars, queueVars, allocVars
  <2> QED BY <1>7, <2>1, <2>2 DEF TakeOwn
<1>8. ASSUME NEW t \in Threads, NEW m \in Messages, Deliver(t, m) PROVE MailIsNotMissed'
  <2>1. CASE \E r \in Addressees(m) : mail' = [mail EXCEPT ![r] = m] /\ Post(r) /\ UNCHANGED newMail
    BY <1>8, <2>1, TakesRole DEF Deliver, Post, Addressees, vars, callVars,
        mailboxVars, lockVars, queueVars, allocVars
  <2>2. CASE Addressees(m) = {} /\ newMail' = newMail \cup {m} /\ UNCHANGED <<mail,
      event>>
    BY <1>8, <2>2, TakesRole DEF Deliver, Addressees, vars, callVars, mailboxVars,
        lockVars, queueVars, allocVars
  <2> QED BY <1>8, <2>1, <2>2 DEF Deliver
<1>9. ASSUME NEW t \in Threads, QueueEmpty(t) PROVE MailIsNotMissed'
  BY <1>9, TakesRole DEF QueueEmpty, vars, callVars, mailboxVars, lockVars, queueVars,
      allocVars
<1>10. ASSUME NEW t \in Threads, GetNext(t) PROVE MailIsNotMissed'
  BY <1>10, TakesRole DEF GetNext, vars, callVars, mailboxVars, lockVars, queueVars,
      allocVars
<1>11. ASSUME NEW t \in Threads, PickUp(t) PROVE MailIsNotMissed'
  <2>1. CASE mail[t] # NULL /\ Return(t, mail[t])
    BY <1>11, <2>1 DEF PickUp, Return, vars, callVars, mailboxVars, lockVars,
        queueVars, allocVars
  <2>2. CASE mail[t] = NULL /\ Goto(t, "asks") /\ UNCHANGED <<wants, sent, got>>
    BY <1>11, <2>2 DEF PickUp, vars, callVars, mailboxVars, lockVars, queueVars,
        allocVars
  <2> QED BY <1>11, <2>1, <2>2 DEF PickUp
<1>12. ASSUME NEW t \in Threads, GetFails(t) PROVE MailIsNotMissed'
  BY <1>12, TakesRole DEF GetFails, vars, callVars, mailboxVars, lockVars, queueVars,
      allocVars
<1>13. ASSUME NEW m \in Messages, Answer(m) PROVE MailIsNotMissed'
  BY <1>13, TakesRole DEF Answer, vars, callVars, mailboxVars, lockVars, queueVars,
      allocVars
<1>14. CASE UNCHANGED vars
  BY <1>14 DEF vars, callVars, mailboxVars, lockVars, queueVars, allocVars
<1> QED BY <1>1, <1>2, <1>3, <1>4, <1>5, <1>6, <1>7, <1>8, <1>9, <1>10, <1>11, <1>12,
    <1>13, <1>14 DEF Next, Call, GetReturnMsg

LEMMA OfferInit ==
  ASSUME Init PROVE RoleIsOffered
  BY DEF Init, RoleIsOffered, WithoutMail

LEMMA OfferStep ==
  ASSUME TypeOK, RoleInv, MailIsNotMissed, RoleIsOffered, [Next]_vars
  PROVE  RoleIsOffered'
<1> USE RcmClientAssumption DEF At, Goto, Messages, TypeOK, RoleInv, MailIsNotMissed,
    RoleIsOffered, WithoutMail
<1>1. ASSUME NEW t \in Threads, ExecNoWait(t) PROVE RoleIsOffered'
  BY <1>1, TakesRole DEF ExecNoWait, FreshId, GenMsgId, vars, callVars, mailboxVars,
      lockVars, queueVars, allocVars
<1>2. ASSUME NEW t \in Threads, Free(t) PROVE RoleIsOffered'
  BY <1>2, TakesRole DEF Free, vars, callVars, mailboxVars, lockVars, queueVars,
      allocVars
<1>3. ASSUME NEW t \in Threads, NEW m \in Messages, WaitUntilDone(t,
    m) PROVE RoleIsOffered'
  BY <1>3, TakesRole DEF WaitUntilDone, vars, callVars, mailboxVars, lockVars,
      queueVars, allocVars
<1>4. ASSUME NEW t \in Threads, FindNewMail(t) PROVE RoleIsOffered'
  BY <1>4, TakesRole DEF FindNewMail, Return, vars, callVars, mailboxVars, lockVars,
      queueVars, allocVars
<1>5. ASSUME NEW t \in Threads, BecomeMailman(t) PROVE RoleIsOffered'
  BY <1>5, TakesRole DEF BecomeMailman, NoNewMail, vars, callVars, mailboxVars,
      lockVars, queueVars, allocVars
<1>6. ASSUME NEW t \in Threads, BecomeRecipient(t) PROVE RoleIsOffered'
  BY <1>6, TakesRole DEF BecomeRecipient, NoNewMail, vars, callVars, mailboxVars,
      lockVars, queueVars, allocVars
<1>7. ASSUME NEW t \in Threads, TakeOwn(t) PROVE RoleIsOffered'
  <2>1. CASE \E r \in WithoutMail : Post(r)
    BY <1>7, <2>1, TakesRole DEF TakeOwn, Return, Post, WithoutMail, vars, callVars,
        mailboxVars, lockVars, queueVars, allocVars
  <2>2. CASE WithoutMail = {} /\ UNCHANGED event
    BY <1>7, <2>2, TakesRole DEF TakeOwn, Return, WithoutMail, vars, callVars,
        mailboxVars, lockVars, queueVars, allocVars
  <2> QED BY <1>7, <2>1, <2>2 DEF TakeOwn
<1>8. ASSUME NEW t \in Threads, NEW m \in Messages, Deliver(t, m) PROVE RoleIsOffered'
  <2>1. queueLock' # NULL
    BY <1>8, TakesRole DEF Deliver
  <2> QED BY <2>1
<1>9. ASSUME NEW t \in Threads, QueueEmpty(t) PROVE RoleIsOffered'
  BY <1>9, TakesRole DEF QueueEmpty, vars, callVars, mailboxVars, lockVars, queueVars,
      allocVars
<1>10. ASSUME NEW t \in Threads, GetNext(t) PROVE RoleIsOffered'
  BY <1>10, TakesRole DEF GetNext, vars, callVars, mailboxVars, lockVars, queueVars,
      allocVars
<1>11. ASSUME NEW t \in Threads, PickUp(t) PROVE RoleIsOffered'
  <2>1. CASE mail[t] # NULL /\ Return(t, mail[t])
    BY <1>11, <2>1 DEF PickUp, Return, vars, callVars, mailboxVars, lockVars,
        queueVars, allocVars
  <2>2. CASE mail[t] = NULL /\ Goto(t, "asks") /\ UNCHANGED <<wants, sent, got>>
    BY <1>11, <2>2 DEF PickUp, vars, callVars, mailboxVars, lockVars, queueVars,
        allocVars
  <2> QED BY <1>11, <2>1, <2>2 DEF PickUp
<1>12. ASSUME NEW t \in Threads, GetFails(t) PROVE RoleIsOffered'
  BY <1>12, TakesRole DEF GetFails, vars, callVars, mailboxVars, lockVars, queueVars,
      allocVars
<1>13. ASSUME NEW m \in Messages, Answer(m) PROVE RoleIsOffered'
  BY <1>13, TakesRole DEF Answer, vars, callVars, mailboxVars, lockVars, queueVars,
      allocVars
<1>14. CASE UNCHANGED vars
  BY <1>14 DEF vars, callVars, mailboxVars, lockVars, queueVars, allocVars
<1> QED BY <1>1, <1>2, <1>3, <1>4, <1>5, <1>6, <1>7, <1>8, <1>9, <1>10, <1>11, <1>12,
    <1>13, <1>14 DEF Next, Call, GetReturnMsg

\* A thread that waits on the list of recipients does not miss a reply that is
\* in the mailbox, and the role of mailman is offered while anybody waits.
THEOREM MailmanTheorem == Spec => []MailmanIsFair
<1> DEFINE IInv == TypeOK /\ RoleInv /\ MailIsNotMissed /\ RoleIsOffered
<1>1. Init => IInv
  BY TypeInit, RoleInit, MailInit, OfferInit
<1>2. IInv /\ [Next]_vars => IInv'
  BY TypeStep, RoleStep, MailStep, OfferStep
<1>3. IInv => MailmanIsFair
  BY DEF MailmanIsFair
<1> QED BY <1>1, <1>2, <1>3, PTL DEF Spec


----------------------------------------------------------------------------
(***************************************************************************)
(* RcmClient implements Calls, for any number of threads and message ids.  *)
(*                                                                         *)
(* The argument is that every message that is out is in one place only:    *)
(* with the server, in the queue, in the mailbox, with a recipient, in the *)
(* mailman's hand or with the caller it was returned to; and that one      *)
(* thread has sent it.                                                     *)
(***************************************************************************)

Places == {"heap", "server", "queue", "newMail", "mail", "hand", "returned"}

HeapIs(place) == \A m \in Messages : m \notin out <=> place[m] = "heap"
ServerIs(place) == \A m \in Messages : m \in server <=> place[m] = "server"
QueueIs(place) == \A m \in Messages : m \in Queued(msgQue) <=> place[m] = "queue"
NewMailIs(place) == \A m \in Messages : m \in newMail <=> place[m] = "newMail"
MailIs(place) ==
  \A m \in Messages : (\E t \in Threads : mail[t] = m) <=> place[m] = "mail"
HandIs(place) ==
  \A m \in Messages : (\E t \in Threads : msgqMsg[t] = m) <=> place[m] = "hand"
GotIs(place) ==
  \A m \in Messages : (\E t \in Threads : got[t] = m) <=> place[m] = "returned"
SentIs(place) ==
  \A m \in Messages :
    (\E t \in Threads : m \in sent[t]) <=> place[m] \notin {"heap", "returned"}

Kept(place) ==
  /\ HeapIs(place) /\ ServerIs(place) /\ QueueIs(place) /\ NewMailIs(place)
  /\ MailIs(place) /\ HandIs(place) /\ GotIs(place) /\ SentIs(place)

NoRepeats(s) == \A i, j \in 1 .. Len(s) : s[i] = s[j] => i = j

OneOwner ==
  \A t, u \in Threads, m \in Messages : Owns(t, m) /\ Owns(u, m) => t = u

PlaceInv ==
  /\ \E place \in [Messages -> Places] : Kept(place)
  /\ NoRepeats(msgQue) /\ OneOwner

\* How a step changes the owners of messages.
OwnsSame == \A t \in Threads, m \in Messages : Owns(t, m)' <=> Owns(t, m)
Gains(u, n) ==
  \A t \in Threads, m \in Messages :
    Owns(t, m)' <=> Owns(t, m) \/ (t = u /\ m = n)
Loses(u, n) ==
  \A t \in Threads, m \in Messages :
    Owns(t, m)' <=> Owns(t, m) /\ ~(t = u /\ m = n)

Answered == {"queue", "newMail", "mail", "hand"}

\* The steps of Calls, and those it does not see, as moves of one message.
Sends(t, m, before, after) ==
  /\ before[m] = "heap" /\ after = [before EXCEPT ![m] = "server"]
  /\ Gains(t, m)
IsAnswered(m, before, after) ==
  /\ before[m] = "server" /\ after = [before EXCEPT ![m] = "queue"]
  /\ OwnsSame
Passes(m, before, after) ==
  /\ before[m] \in Answered
  /\ \E there \in Answered : after = [before EXCEPT ![m] = there]
  /\ OwnsSame
Returns(t, m, before, after) ==
  /\ Owns(t, m)
  /\ before[m] \in Answered /\ after = [before EXCEPT ![m] = "returned"]
  /\ OwnsSame
Frees(t, m, before, after) ==
  /\ Owns(t, m)
  /\ before[m] = "returned" /\ after = [before EXCEPT ![m] = "heap"]
  /\ Loses(t, m)
Stays(before, after) == after = before /\ OwnsSame

Moves(before, after) ==
  \/ Stays(before, after)
  \/ \E m \in Messages :
       \/ IsAnswered(m, before, after) \/ Passes(m, before, after)
       \/ \E t \in Threads :
            \/ Sends(t, m, before, after) \/ Returns(t, m, before, after)
            \/ Frees(t, m, before, after)

Inv == TypeOK /\ RoleInv

-----------------------------------------------------------------------------
(* What the queue holds when its head is taken, or a message is put. *)
LEMMA QueuedTail ==
  ASSUME NEW S, NEW s \in Seq(S), s # <<>>, NoRepeats(s)
  PROVE  /\ Queued(Tail(s)) = Queued(s) \ {Head(s)}
         /\ NoRepeats(Tail(s))
         /\ Head(s) \in Queued(s)
<1>1. Len(Tail(s)) = Len(s) - 1 /\ Len(s) \in Nat \ {0} /\ Head(s) = s[1]
  OBVIOUS
<1>2. \A i \in 1 .. Len(s) - 1 : Tail(s)[i] = s[i + 1]
  OBVIOUS
<1>3. NoRepeats(Tail(s))
  BY <1>1, <1>2 DEF NoRepeats
<1>4. ASSUME NEW x \in Queued(Tail(s)) PROVE x \in Queued(s) \ {Head(s)}
  <2>1. PICK i \in 1 .. Len(s) - 1 : x = s[i + 1]
    BY <1>1, <1>2, <1>4 DEF Queued
  <2>2. i + 1 \in 1 .. Len(s) /\ i + 1 # 1 /\ 1 \in 1 .. Len(s)
    BY <1>1, <2>1
  <2> QED BY <1>1, <2>1, <2>2 DEF Queued, NoRepeats
<1>5. ASSUME NEW x \in Queued(s) \ {Head(s)} PROVE x \in Queued(Tail(s))
  <2>1. PICK i \in 1 .. Len(s) : x = s[i]
    BY <1>5 DEF Queued
  <2>2. i - 1 \in 1 .. Len(s) - 1
    BY <1>1, <1>5, <2>1
  <2>3. Tail(s)[i - 1] = s[i]
    BY <1>2, <2>2
  <2> QED BY <1>1, <2>1, <2>2, <2>3 DEF Queued
<1>6. Head(s) \in Queued(s)
  BY <1>1 DEF Queued
<1> QED BY <1>3, <1>4, <1>5, <1>6

LEMMA QueuedAppend ==
  ASSUME NEW S, NEW s \in Seq(S), NEW x \in S, x \notin Queued(s), NoRepeats(s)
  PROVE  Queued(Append(s, x)) = Queued(s) \cup {x} /\ NoRepeats(Append(s, x))
<1>1. Len(Append(s, x)) = Len(s) + 1 /\ Len(s) \in Nat
  OBVIOUS
<1>2. /\ \A i \in 1 .. Len(s) : Append(s, x)[i] = s[i]
      /\ Append(s, x)[Len(s) + 1] = x
  OBVIOUS
<1>3. 1 .. Len(s) + 1 = (1 .. Len(s)) \cup {Len(s) + 1}
  BY <1>1
<1>4. Queued(Append(s, x)) = Queued(s) \cup {x}
  BY <1>1, <1>2, <1>3 DEF Queued
<1>5. NoRepeats(Append(s, x))
  BY <1>1, <1>2, <1>3 DEF Queued, NoRepeats
<1> QED BY <1>4, <1>5

LEMMA TakesFrom ==
  ASSUME Inv, NoRepeats(msgQue), NEW t \in Threads, NEW m, Takes(t, m)
  PROVE  /\ m \in Messages /\ NoRepeats(msgQue)'
         /\ \/ /\ m \in Queued(msgQue) /\ Queued(msgQue)' = Queued(msgQue) \ {m}
               /\ msgqMsg' = msgqMsg
            \/ /\ msgqMsg[t] = m /\ msgqMsg' = [msgqMsg EXCEPT ![t] = NULL]
               /\ Queued(msgQue)' = Queued(msgQue)
<1>1. CASE At(t, "delivers") /\ msgQue # <<>> /\ m = Head(msgQue)
           /\ msgQue' = Tail(msgQue) /\ UNCHANGED msgqMsg
  BY <1>1, QueuedTail, HeadAndTail DEF Inv, TypeOK
<1>2. CASE /\ At(t, "got") /\ m = msgqMsg[t]
           /\ msgqMsg' = [msgqMsg EXCEPT ![t] = NULL] /\ UNCHANGED msgQue
  BY <1>2 DEF Inv, TypeOK, RoleInv, At, Queued, NoRepeats
<1> QED BY <1>1, <1>2 DEF Takes

-----------------------------------------------------------------------------
(* Where the message goes in each action: the place function after the step. *)

LEMMA ExecNoWaitPlace ==
  ASSUME Inv, NEW place \in [Messages -> Places], Kept(place), NoRepeats(msgQue),
         OneOwner, NEW t \in Threads, NEW m,
         m = GenMsgId, ExecNoWait(t)
  PROVE  \E after \in [Messages -> Places] :
           Kept(after)' /\ Moves(place, after) /\ NoRepeats(msgQue)'
<1> USE RcmClientAssumption, NullIsNoMessage DEF Messages, At, Goto,
        ExecNoWait, FreshId, GenMsgId, callVars, mailboxVars, lockVars, queueVars,
            allocVars
<1> DEFINE after == [place EXCEPT ![m] = "server"]
<1>1. Kept(place) /\ TypeOK /\ RoleInv
  BY DEF Inv
<1>2. m \in Messages
  BY <1>1 DEF TypeOK
<1>3. after \in [Messages -> Places]
  BY DEF Places
<1>4. HeapIs(after)'
  BY <1>1, <1>2 DEF Kept, HeapIs, ServerIs, QueueIs, NewMailIs, MailIs, HandIs, GotIs,
      SentIs, TypeOK, RoleInv
<1>5. ServerIs(after)'
  BY <1>1, <1>2 DEF Kept, HeapIs, ServerIs, QueueIs, NewMailIs, MailIs, HandIs, GotIs,
      SentIs, TypeOK, RoleInv
<1>6. QueueIs(after)'
  <2>1. Queued(msgQue)' = Queued(msgQue)
    BY DEF Queued
  <2> QED BY <1>1, <2>1, <1>2 DEF Kept, HeapIs, ServerIs, QueueIs, NewMailIs, MailIs,
      HandIs, GotIs, SentIs
<1>7. NewMailIs(after)'
  BY <1>1, <1>2 DEF Kept, HeapIs, ServerIs, QueueIs, NewMailIs, MailIs, HandIs, GotIs,
      SentIs, TypeOK, RoleInv
<1>8. MailIs(after)'
  BY <1>1, <1>2 DEF Kept, HeapIs, ServerIs, QueueIs, NewMailIs, MailIs, HandIs, GotIs,
      SentIs, TypeOK, RoleInv, OneOwner, Owns
<1>9. HandIs(after)'
  BY <1>1, <1>2 DEF Kept, HeapIs, ServerIs, QueueIs, NewMailIs, MailIs, HandIs, GotIs,
      SentIs, TypeOK, RoleInv, OneOwner, Owns
<1>10. GotIs(after)'
  BY <1>1, <1>2 DEF Kept, HeapIs, ServerIs, QueueIs, NewMailIs, MailIs, HandIs, GotIs,
      SentIs, TypeOK, RoleInv, OneOwner, Owns
<1>11. SentIs(after)'
  BY <1>1, <1>2 DEF Kept, HeapIs, ServerIs, QueueIs, NewMailIs, MailIs, HandIs, GotIs,
      SentIs, TypeOK, RoleInv, OneOwner, Owns
<1>12. NoRepeats(msgQue)'
  BY DEF NoRepeats
<1>13. Sends(t, m, place, after)
  BY <1>1, <1>2 DEF Kept, HeapIs, ServerIs, QueueIs, NewMailIs, MailIs, HandIs, GotIs,
      SentIs, TypeOK, RoleInv, Sends, Answered, OwnsSame, Gains, Loses, Owns, OneOwner
<1>14. Moves(place, after)
  BY <1>2, <1>13 DEF Moves
<1>15. Kept(after)'
  BY <1>4, <1>5, <1>6, <1>7, <1>8, <1>9, <1>10, <1>11 DEF Kept
<1> QED BY <1>3, <1>12, <1>14, <1>15

LEMMA FreePlace ==
  ASSUME Inv, NEW place \in [Messages -> Places], Kept(place), NoRepeats(msgQue),
         OneOwner, NEW t \in Threads, NEW m,
         m = got[t], Free(t)
  PROVE  \E after \in [Messages -> Places] :
           Kept(after)' /\ Moves(place, after) /\ NoRepeats(msgQue)'
<1> USE RcmClientAssumption, NullIsNoMessage DEF Messages, At, Goto,
        Free, callVars, mailboxVars, lockVars, queueVars, allocVars
<1> DEFINE after == [place EXCEPT ![m] = "heap"]
<1>1. Kept(place) /\ TypeOK /\ RoleInv
  BY DEF Inv
<1>2. m \in Messages
  BY <1>1 DEF TypeOK, RoleInv
<1>3. after \in [Messages -> Places]
  BY DEF Places
<1>4. HeapIs(after)'
  BY <1>1, <1>2 DEF Kept, HeapIs, ServerIs, QueueIs, NewMailIs, MailIs, HandIs, GotIs,
      SentIs, TypeOK, RoleInv
<1>5. ServerIs(after)'
  BY <1>1, <1>2 DEF Kept, HeapIs, ServerIs, QueueIs, NewMailIs, MailIs, HandIs, GotIs,
      SentIs, TypeOK, RoleInv
<1>6. QueueIs(after)'
  <2>1. Queued(msgQue)' = Queued(msgQue)
    BY DEF Queued
  <2> QED BY <1>1, <2>1, <1>2 DEF Kept, HeapIs, ServerIs, QueueIs, NewMailIs, MailIs,
      HandIs, GotIs, SentIs
<1>7. NewMailIs(after)'
  BY <1>1, <1>2 DEF Kept, HeapIs, ServerIs, QueueIs, NewMailIs, MailIs, HandIs, GotIs,
      SentIs, TypeOK, RoleInv
<1>8. MailIs(after)'
  BY <1>1, <1>2 DEF Kept, HeapIs, ServerIs, QueueIs, NewMailIs, MailIs, HandIs, GotIs,
      SentIs, TypeOK, RoleInv, OneOwner, Owns
<1>9. HandIs(after)'
  BY <1>1, <1>2 DEF Kept, HeapIs, ServerIs, QueueIs, NewMailIs, MailIs, HandIs, GotIs,
      SentIs, TypeOK, RoleInv, OneOwner, Owns
<1>10. GotIs(after)'
  BY <1>1, <1>2 DEF Kept, HeapIs, ServerIs, QueueIs, NewMailIs, MailIs, HandIs, GotIs,
      SentIs, TypeOK, RoleInv, OneOwner, Owns
<1>11. SentIs(after)'
  BY <1>1, <1>2 DEF Kept, HeapIs, ServerIs, QueueIs, NewMailIs, MailIs, HandIs, GotIs,
      SentIs, TypeOK, RoleInv, OneOwner, Owns
<1>12. NoRepeats(msgQue)'
  BY DEF NoRepeats
<1>13. Frees(t, m, place, after)
  BY <1>1, <1>2 DEF Kept, HeapIs, ServerIs, QueueIs, NewMailIs, MailIs, HandIs, GotIs,
      SentIs, TypeOK, RoleInv, Frees, Answered, OwnsSame, Gains, Loses, Owns, OneOwner
<1>14. Moves(place, after)
  BY <1>2, <1>13 DEF Moves
<1>15. Kept(after)'
  BY <1>4, <1>5, <1>6, <1>7, <1>8, <1>9, <1>10, <1>11 DEF Kept
<1> QED BY <1>3, <1>12, <1>14, <1>15

LEMMA WaitUntilDonePlace ==
  ASSUME Inv, NEW place \in [Messages -> Places], Kept(place), NoRepeats(msgQue),
         OneOwner, NEW t \in Threads, NEW m \in Messages,
         WaitUntilDone(t, m)
  PROVE  \E after \in [Messages -> Places] :
           Kept(after)' /\ Moves(place, after) /\ NoRepeats(msgQue)'
<1> USE RcmClientAssumption, NullIsNoMessage DEF Messages, At, Goto,
        WaitUntilDone, callVars, mailboxVars, lockVars, queueVars, allocVars
<1> DEFINE after == place
<1>1. Kept(place) /\ TypeOK /\ RoleInv
  BY DEF Inv
<1>2. after \in [Messages -> Places]
  BY DEF Places
<1>3. HeapIs(after)'
  BY <1>1 DEF Kept, HeapIs, ServerIs, QueueIs, NewMailIs, MailIs, HandIs, GotIs,
      SentIs, TypeOK, RoleInv
<1>4. ServerIs(after)'
  BY <1>1 DEF Kept, HeapIs, ServerIs, QueueIs, NewMailIs, MailIs, HandIs, GotIs,
      SentIs, TypeOK, RoleInv
<1>5. QueueIs(after)'
  <2>1. Queued(msgQue)' = Queued(msgQue)
    BY DEF Queued
  <2> QED BY <1>1, <2>1 DEF Kept, HeapIs, ServerIs, QueueIs, NewMailIs, MailIs, HandIs,
      GotIs, SentIs
<1>6. NewMailIs(after)'
  BY <1>1 DEF Kept, HeapIs, ServerIs, QueueIs, NewMailIs, MailIs, HandIs, GotIs,
      SentIs, TypeOK, RoleInv
<1>7. MailIs(after)'
  BY <1>1 DEF Kept, HeapIs, ServerIs, QueueIs, NewMailIs, MailIs, HandIs, GotIs,
      SentIs, TypeOK, RoleInv, OneOwner, Owns
<1>8. HandIs(after)'
  BY <1>1 DEF Kept, HeapIs, ServerIs, QueueIs, NewMailIs, MailIs, HandIs, GotIs,
      SentIs, TypeOK, RoleInv, OneOwner, Owns
<1>9. GotIs(after)'
  BY <1>1 DEF Kept, HeapIs, ServerIs, QueueIs, NewMailIs, MailIs, HandIs, GotIs,
      SentIs, TypeOK, RoleInv, OneOwner, Owns
<1>10. SentIs(after)'
  BY <1>1 DEF Kept, HeapIs, ServerIs, QueueIs, NewMailIs, MailIs, HandIs, GotIs,
      SentIs, TypeOK, RoleInv, OneOwner, Owns
<1>11. NoRepeats(msgQue)'
  BY DEF NoRepeats
<1>12. Stays(place, after)
  BY <1>1 DEF Kept, HeapIs, ServerIs, QueueIs, NewMailIs, MailIs, HandIs, GotIs,
      SentIs, TypeOK, RoleInv, Stays, Answered, OwnsSame, Gains, Loses, Owns, OneOwner
<1>13. Moves(place, after)
  BY <1>12 DEF Moves
<1>14. Kept(after)'
  BY <1>3, <1>4, <1>5, <1>6, <1>7, <1>8, <1>9, <1>10 DEF Kept
<1> QED BY <1>2, <1>11, <1>13, <1>14

LEMMA FindNewMailPlace ==
  ASSUME Inv, NEW place \in [Messages -> Places], Kept(place), NoRepeats(msgQue),
         OneOwner, NEW t \in Threads, NEW m,
         m = wants[t], FindNewMail(t)
  PROVE  \E after \in [Messages -> Places] :
           Kept(after)' /\ Moves(place, after) /\ NoRepeats(msgQue)'
<1> USE RcmClientAssumption, NullIsNoMessage DEF Messages, At, Goto,
        FindNewMail, Return, callVars, mailboxVars, lockVars, queueVars, allocVars
<1> DEFINE after == [place EXCEPT ![m] = "returned"]
<1>1. Kept(place) /\ TypeOK /\ RoleInv
  BY DEF Inv
<1>2. m \in Messages
  BY <1>1 DEF TypeOK
<1>3. after \in [Messages -> Places]
  BY DEF Places
<1>4. HeapIs(after)'
  BY <1>1, <1>2 DEF Kept, HeapIs, ServerIs, QueueIs, NewMailIs, MailIs, HandIs, GotIs,
      SentIs, TypeOK, RoleInv
<1>5. ServerIs(after)'
  BY <1>1, <1>2 DEF Kept, HeapIs, ServerIs, QueueIs, NewMailIs, MailIs, HandIs, GotIs,
      SentIs, TypeOK, RoleInv
<1>6. QueueIs(after)'
  <2>1. Queued(msgQue)' = Queued(msgQue)
    BY DEF Queued
  <2> QED BY <1>1, <2>1, <1>2 DEF Kept, HeapIs, ServerIs, QueueIs, NewMailIs, MailIs,
      HandIs, GotIs, SentIs
<1>7. NewMailIs(after)'
  BY <1>1, <1>2 DEF Kept, HeapIs, ServerIs, QueueIs, NewMailIs, MailIs, HandIs, GotIs,
      SentIs, TypeOK, RoleInv
<1>8. MailIs(after)'
  BY <1>1, <1>2 DEF Kept, HeapIs, ServerIs, QueueIs, NewMailIs, MailIs, HandIs, GotIs,
      SentIs, TypeOK, RoleInv, OneOwner, Owns
<1>9. HandIs(after)'
  BY <1>1, <1>2 DEF Kept, HeapIs, ServerIs, QueueIs, NewMailIs, MailIs, HandIs, GotIs,
      SentIs, TypeOK, RoleInv, OneOwner, Owns
<1>10. GotIs(after)'
  BY <1>1, <1>2 DEF Kept, HeapIs, ServerIs, QueueIs, NewMailIs, MailIs, HandIs, GotIs,
      SentIs, TypeOK, RoleInv, OneOwner, Owns
<1>11. SentIs(after)'
  BY <1>1, <1>2 DEF Kept, HeapIs, ServerIs, QueueIs, NewMailIs, MailIs, HandIs, GotIs,
      SentIs, TypeOK, RoleInv, OneOwner, Owns
<1>12. NoRepeats(msgQue)'
  BY DEF NoRepeats
<1>13. Returns(t, m, place, after)
  <2>1. place[m] \in Answered
    BY <1>1, <1>2 DEF Kept, QueueIs, NewMailIs, MailIs, HandIs, Answered
  <2>2. OwnsSame
    BY <1>1, <1>2 DEF TypeOK, RoleInv, OwnsSame, Owns
  <2>3. Owns(t, m)
    BY <1>1, <1>2 DEF RoleInv, Owns
  <2> QED BY <2>1, <2>2, <2>3 DEF Returns
<1>14. Moves(place, after)
  BY <1>2, <1>13 DEF Moves
<1>15. Kept(after)'
  BY <1>4, <1>5, <1>6, <1>7, <1>8, <1>9, <1>10, <1>11 DEF Kept
<1> QED BY <1>3, <1>12, <1>14, <1>15

LEMMA BecomeMailmanPlace ==
  ASSUME Inv, NEW place \in [Messages -> Places], Kept(place), NoRepeats(msgQue),
         OneOwner, NEW t \in Threads, 
         BecomeMailman(t)
  PROVE  \E after \in [Messages -> Places] :
           Kept(after)' /\ Moves(place, after) /\ NoRepeats(msgQue)'
<1> USE RcmClientAssumption, NullIsNoMessage DEF Messages, At, Goto,
        BecomeMailman, NoNewMail, callVars, mailboxVars, lockVars, queueVars, allocVars
<1> DEFINE after == place
<1>1. Kept(place) /\ TypeOK /\ RoleInv
  BY DEF Inv
<1>2. after \in [Messages -> Places]
  BY DEF Places
<1>3. HeapIs(after)'
  BY <1>1 DEF Kept, HeapIs, ServerIs, QueueIs, NewMailIs, MailIs, HandIs, GotIs,
      SentIs, TypeOK, RoleInv
<1>4. ServerIs(after)'
  BY <1>1 DEF Kept, HeapIs, ServerIs, QueueIs, NewMailIs, MailIs, HandIs, GotIs,
      SentIs, TypeOK, RoleInv
<1>5. QueueIs(after)'
  <2>1. Queued(msgQue)' = Queued(msgQue)
    BY DEF Queued
  <2> QED BY <1>1, <2>1 DEF Kept, HeapIs, ServerIs, QueueIs, NewMailIs, MailIs, HandIs,
      GotIs, SentIs
<1>6. NewMailIs(after)'
  BY <1>1 DEF Kept, HeapIs, ServerIs, QueueIs, NewMailIs, MailIs, HandIs, GotIs,
      SentIs, TypeOK, RoleInv
<1>7. MailIs(after)'
  BY <1>1 DEF Kept, HeapIs, ServerIs, QueueIs, NewMailIs, MailIs, HandIs, GotIs,
      SentIs, TypeOK, RoleInv, OneOwner, Owns
<1>8. HandIs(after)'
  BY <1>1 DEF Kept, HeapIs, ServerIs, QueueIs, NewMailIs, MailIs, HandIs, GotIs,
      SentIs, TypeOK, RoleInv, OneOwner, Owns
<1>9. GotIs(after)'
  BY <1>1 DEF Kept, HeapIs, ServerIs, QueueIs, NewMailIs, MailIs, HandIs, GotIs,
      SentIs, TypeOK, RoleInv, OneOwner, Owns
<1>10. SentIs(after)'
  BY <1>1 DEF Kept, HeapIs, ServerIs, QueueIs, NewMailIs, MailIs, HandIs, GotIs,
      SentIs, TypeOK, RoleInv, OneOwner, Owns
<1>11. NoRepeats(msgQue)'
  BY DEF NoRepeats
<1>12. Stays(place, after)
  BY <1>1 DEF Kept, HeapIs, ServerIs, QueueIs, NewMailIs, MailIs, HandIs, GotIs,
      SentIs, TypeOK, RoleInv, Stays, Answered, OwnsSame, Gains, Loses, Owns, OneOwner
<1>13. Moves(place, after)
  BY <1>12 DEF Moves
<1>14. Kept(after)'
  BY <1>3, <1>4, <1>5, <1>6, <1>7, <1>8, <1>9, <1>10 DEF Kept
<1> QED BY <1>2, <1>11, <1>13, <1>14

LEMMA BecomeRecipientPlace ==
  ASSUME Inv, NEW place \in [Messages -> Places], Kept(place), NoRepeats(msgQue),
         OneOwner, NEW t \in Threads, 
         BecomeRecipient(t)
  PROVE  \E after \in [Messages -> Places] :
           Kept(after)' /\ Moves(place, after) /\ NoRepeats(msgQue)'
<1> USE RcmClientAssumption, NullIsNoMessage DEF Messages, At, Goto,
        BecomeRecipient, NoNewMail, callVars, mailboxVars, lockVars, queueVars,
            allocVars
<1> DEFINE after == place
<1>1. Kept(place) /\ TypeOK /\ RoleInv
  BY DEF Inv
<1>2. after \in [Messages -> Places]
  BY DEF Places
<1>3. HeapIs(after)'
  BY <1>1 DEF Kept, HeapIs, ServerIs, QueueIs, NewMailIs, MailIs, HandIs, GotIs,
      SentIs, TypeOK, RoleInv
<1>4. ServerIs(after)'
  BY <1>1 DEF Kept, HeapIs, ServerIs, QueueIs, NewMailIs, MailIs, HandIs, GotIs,
      SentIs, TypeOK, RoleInv
<1>5. QueueIs(after)'
  <2>1. Queued(msgQue)' = Queued(msgQue)
    BY DEF Queued
  <2> QED BY <1>1, <2>1 DEF Kept, HeapIs, ServerIs, QueueIs, NewMailIs, MailIs, HandIs,
      GotIs, SentIs
<1>6. NewMailIs(after)'
  BY <1>1 DEF Kept, HeapIs, ServerIs, QueueIs, NewMailIs, MailIs, HandIs, GotIs,
      SentIs, TypeOK, RoleInv
<1>7. MailIs(after)'
  BY <1>1 DEF Kept, HeapIs, ServerIs, QueueIs, NewMailIs, MailIs, HandIs, GotIs,
      SentIs, TypeOK, RoleInv, OneOwner, Owns
<1>8. HandIs(after)'
  BY <1>1 DEF Kept, HeapIs, ServerIs, QueueIs, NewMailIs, MailIs, HandIs, GotIs,
      SentIs, TypeOK, RoleInv, OneOwner, Owns
<1>9. GotIs(after)'
  BY <1>1 DEF Kept, HeapIs, ServerIs, QueueIs, NewMailIs, MailIs, HandIs, GotIs,
      SentIs, TypeOK, RoleInv, OneOwner, Owns
<1>10. SentIs(after)'
  BY <1>1 DEF Kept, HeapIs, ServerIs, QueueIs, NewMailIs, MailIs, HandIs, GotIs,
      SentIs, TypeOK, RoleInv, OneOwner, Owns
<1>11. NoRepeats(msgQue)'
  BY DEF NoRepeats
<1>12. Stays(place, after)
  BY <1>1 DEF Kept, HeapIs, ServerIs, QueueIs, NewMailIs, MailIs, HandIs, GotIs,
      SentIs, TypeOK, RoleInv, Stays, Answered, OwnsSame, Gains, Loses, Owns, OneOwner
<1>13. Moves(place, after)
  BY <1>12 DEF Moves
<1>14. Kept(after)'
  BY <1>3, <1>4, <1>5, <1>6, <1>7, <1>8, <1>9, <1>10 DEF Kept
<1> QED BY <1>2, <1>11, <1>13, <1>14

LEMMA TakeOwnPlace ==
  ASSUME Inv, NEW place \in [Messages -> Places], Kept(place), NoRepeats(msgQue),
         OneOwner, NEW t \in Threads, NEW m,
         m = wants[t], Takes(t, m), TakeOwn(t)
  PROVE  \E after \in [Messages -> Places] :
           Kept(after)' /\ Moves(place, after) /\ NoRepeats(msgQue)'
<1> USE RcmClientAssumption, NullIsNoMessage DEF Messages, At, Goto,
        TakeOwn, Return, WithoutMail, callVars, mailboxVars, lockVars, queueVars,
            allocVars
<1> DEFINE after == [place EXCEPT ![m] = "returned"]
<1>1. Kept(place) /\ TypeOK /\ RoleInv
  BY DEF Inv
<1>2. m \in Messages
  BY <1>1, TakesFrom
<1>3. /\ \/ /\ m \in Queued(msgQue) /\ Queued(msgQue)' = Queued(msgQue) \ {m}
            /\ msgqMsg' = msgqMsg
         \/ /\ msgqMsg[t] = m /\ msgqMsg' = [msgqMsg EXCEPT ![t] = NULL]
            /\ Queued(msgQue)' = Queued(msgQue)
      /\ NoRepeats(msgQue)' /\ pc[t] \in {"delivers", "got"} /\ queueLock = t
      /\ wants[t] \in sent[t]
  BY <1>1, TakesFrom, TakesRole DEF Takes, TypeOK, RoleInv
<1>4. after \in [Messages -> Places]
  BY DEF Places
<1>5. HeapIs(after)'
  BY <1>1, <1>2, <1>3 DEF Kept, HeapIs, ServerIs, QueueIs, NewMailIs, MailIs, HandIs,
      GotIs, SentIs, TypeOK, RoleInv
<1>6. ServerIs(after)'
  BY <1>1, <1>2, <1>3, SMTT(60) DEF Kept, HeapIs, ServerIs, QueueIs, NewMailIs, MailIs, HandIs,
      GotIs, SentIs, TypeOK, RoleInv
<1>7. QueueIs(after)'
  BY <1>1, <1>2, <1>3 DEF Kept, HeapIs, ServerIs, QueueIs, NewMailIs, MailIs, HandIs,
      GotIs, SentIs, TypeOK, RoleInv
<1>8. NewMailIs(after)'
  BY <1>1, <1>2, <1>3, SMTT(60) DEF Kept, HeapIs, ServerIs, QueueIs, NewMailIs, MailIs, HandIs,
      GotIs, SentIs, TypeOK, RoleInv
<1>9. MailIs(after)'
  BY <1>1, <1>2, <1>3 DEF Kept, HeapIs, ServerIs, QueueIs, NewMailIs, MailIs, HandIs,
      GotIs, SentIs, TypeOK, RoleInv, OneOwner, Owns
<1>10. HandIs(after)'
  BY <1>1, <1>2, <1>3 DEF Kept, HeapIs, ServerIs, QueueIs, NewMailIs, MailIs, HandIs,
      GotIs, SentIs, TypeOK, RoleInv, OneOwner, Owns
<1>11. GotIs(after)'
  BY <1>1, <1>2, <1>3 DEF Kept, HeapIs, ServerIs, QueueIs, NewMailIs, MailIs, HandIs,
      GotIs, SentIs, TypeOK, RoleInv, OneOwner, Owns
<1>12. SentIs(after)'
  BY <1>1, <1>2, <1>3 DEF Kept, HeapIs, ServerIs, QueueIs, NewMailIs, MailIs, HandIs,
      GotIs, SentIs, TypeOK, RoleInv, OneOwner, Owns
<1>13. NoRepeats(msgQue)'
  BY <1>3
<1>14. Returns(t, m, place, after)
  <2>1. place[m] \in Answered
    BY <1>1, <1>2, <1>3 DEF Kept, QueueIs, NewMailIs, MailIs, HandIs, Answered
  <2>2. OwnsSame
    BY <1>1, <1>2, <1>3 DEF TypeOK, RoleInv, OwnsSame, Owns
  <2>3. Owns(t, m)
    BY <1>1, <1>2, <1>3 DEF RoleInv, Owns
  <2> QED BY <2>1, <2>2, <2>3 DEF Returns
<1>15. Moves(place, after)
  BY <1>2, <1>14 DEF Moves
<1>16. Kept(after)'
  BY <1>5, <1>6, <1>7, <1>8, <1>9, <1>10, <1>11, <1>12 DEF Kept
<1> QED BY <1>4, <1>13, <1>15, <1>16

LEMMA DeliverToRecipientPlace ==
  ASSUME Inv, NEW place \in [Messages -> Places], Kept(place), NoRepeats(msgQue),
         OneOwner, NEW t \in Threads, NEW m, Deliver(t, m), Takes(t, m),
             NEW r \in Addressees(m),
         mail' = [mail EXCEPT ![r] = m], UNCHANGED newMail
  PROVE  \E after \in [Messages -> Places] :
           Kept(after)' /\ Moves(place, after) /\ NoRepeats(msgQue)'
<1> USE RcmClientAssumption, NullIsNoMessage DEF Messages, At, Goto,
        Addressees, callVars, mailboxVars, lockVars, queueVars, allocVars
<1> DEFINE after == [place EXCEPT ![m] = "mail"]
<1>1. Kept(place) /\ TypeOK /\ RoleInv
  BY DEF Inv
<1>2. m \in Messages
  BY <1>1, TakesFrom
<1>3. /\ \/ /\ m \in Queued(msgQue) /\ Queued(msgQue)' = Queued(msgQue) \ {m}
            /\ msgqMsg' = msgqMsg
         \/ /\ msgqMsg[t] = m /\ msgqMsg' = [msgqMsg EXCEPT ![t] = NULL]
            /\ Queued(msgQue)' = Queued(msgQue)
      /\ NoRepeats(msgQue)' /\ pc[t] \in {"delivers", "got"} /\ queueLock = t
      /\ wants[t] \in sent[t]
      /\ UNCHANGED <<wants, sent, got, server, out>>
  BY <1>1, TakesFrom, TakesRole DEF Deliver, Takes, TypeOK, RoleInv
<1>4. after \in [Messages -> Places]
  BY DEF Places
<1>5. HeapIs(after)'
  BY <1>1, <1>2, <1>3 DEF Kept, HeapIs, ServerIs, QueueIs, NewMailIs, MailIs, HandIs,
      GotIs, SentIs, TypeOK, RoleInv
<1>6. ServerIs(after)'
  BY <1>1, <1>2, <1>3 DEF Kept, HeapIs, ServerIs, QueueIs, NewMailIs, MailIs, HandIs,
      GotIs, SentIs, TypeOK, RoleInv
<1>7. QueueIs(after)'
  BY <1>1, <1>2, <1>3 DEF Kept, HeapIs, ServerIs, QueueIs, NewMailIs, MailIs, HandIs,
      GotIs, SentIs, TypeOK, RoleInv
<1>8. NewMailIs(after)'
  BY <1>1, <1>2, <1>3 DEF Kept, HeapIs, ServerIs, QueueIs, NewMailIs, MailIs, HandIs,
      GotIs, SentIs, TypeOK, RoleInv
<1>9. MailIs(after)'
  BY <1>1, <1>2, <1>3 DEF Kept, HeapIs, ServerIs, QueueIs, NewMailIs, MailIs, HandIs,
      GotIs, SentIs, TypeOK, RoleInv, OneOwner, Owns
<1>10. HandIs(after)'
  BY <1>1, <1>2, <1>3 DEF Kept, HeapIs, ServerIs, QueueIs, NewMailIs, MailIs, HandIs,
      GotIs, SentIs, TypeOK, RoleInv, OneOwner, Owns
<1>11. GotIs(after)'
  BY <1>1, <1>2, <1>3 DEF Kept, HeapIs, ServerIs, QueueIs, NewMailIs, MailIs, HandIs,
      GotIs, SentIs, TypeOK, RoleInv, OneOwner, Owns
<1>12. SentIs(after)'
  BY <1>1, <1>2, <1>3 DEF Kept, HeapIs, ServerIs, QueueIs, NewMailIs, MailIs, HandIs,
      GotIs, SentIs, TypeOK, RoleInv, OneOwner, Owns
<1>13. NoRepeats(msgQue)'
  BY <1>3
<1>14. Passes(m, place, after)
  BY <1>1, <1>2, <1>3 DEF Kept, HeapIs, ServerIs, QueueIs, NewMailIs, MailIs, HandIs,
      GotIs, SentIs, TypeOK, RoleInv, Passes, Answered, OwnsSame, Gains, Loses, Owns,
      OneOwner
<1>15. Moves(place, after)
  BY <1>2, <1>14 DEF Moves
<1>16. Kept(after)'
  BY <1>5, <1>6, <1>7, <1>8, <1>9, <1>10, <1>11, <1>12 DEF Kept
<1> QED BY <1>4, <1>13, <1>15, <1>16

LEMMA DeliverToMailboxPlace ==
  ASSUME Inv, NEW place \in [Messages -> Places], Kept(place), NoRepeats(msgQue),
         OneOwner, NEW t \in Threads, NEW m, Deliver(t, m), Takes(t, m),
         newMail' = newMail \cup {m}, UNCHANGED mail
  PROVE  \E after \in [Messages -> Places] :
           Kept(after)' /\ Moves(place, after) /\ NoRepeats(msgQue)'
<1> USE RcmClientAssumption, NullIsNoMessage DEF Messages, At, Goto,
        callVars, mailboxVars, lockVars, queueVars, allocVars
<1> DEFINE after == [place EXCEPT ![m] = "newMail"]
<1>1. Kept(place) /\ TypeOK /\ RoleInv
  BY DEF Inv
<1>2. m \in Messages
  BY <1>1, TakesFrom
<1>3. /\ \/ /\ m \in Queued(msgQue) /\ Queued(msgQue)' = Queued(msgQue) \ {m}
            /\ msgqMsg' = msgqMsg
         \/ /\ msgqMsg[t] = m /\ msgqMsg' = [msgqMsg EXCEPT ![t] = NULL]
            /\ Queued(msgQue)' = Queued(msgQue)
      /\ NoRepeats(msgQue)' /\ pc[t] \in {"delivers", "got"} /\ queueLock = t
      /\ wants[t] \in sent[t]
      /\ UNCHANGED <<wants, sent, got, server, out>>
  BY <1>1, TakesFrom, TakesRole DEF Deliver, Takes, TypeOK, RoleInv
<1>4. after \in [Messages -> Places]
  BY DEF Places
<1>5. HeapIs(after)'
  BY <1>1, <1>2, <1>3 DEF Kept, HeapIs, ServerIs, QueueIs, NewMailIs, MailIs, HandIs,
      GotIs, SentIs, TypeOK, RoleInv
<1>6. ServerIs(after)'
  BY <1>1, <1>2, <1>3 DEF Kept, HeapIs, ServerIs, QueueIs, NewMailIs, MailIs, HandIs,
      GotIs, SentIs, TypeOK, RoleInv
<1>7. QueueIs(after)'
  BY <1>1, <1>2, <1>3 DEF Kept, HeapIs, ServerIs, QueueIs, NewMailIs, MailIs, HandIs,
      GotIs, SentIs, TypeOK, RoleInv
<1>8. NewMailIs(after)'
  BY <1>1, <1>2, <1>3 DEF Kept, HeapIs, ServerIs, QueueIs, NewMailIs, MailIs, HandIs,
      GotIs, SentIs, TypeOK, RoleInv
<1>9. MailIs(after)'
  BY <1>1, <1>2, <1>3 DEF Kept, HeapIs, ServerIs, QueueIs, NewMailIs, MailIs, HandIs,
      GotIs, SentIs, TypeOK, RoleInv, OneOwner, Owns
<1>10. HandIs(after)'
  BY <1>1, <1>2, <1>3 DEF Kept, HandIs, QueueIs, TypeOK, RoleInv, OneOwner, Owns
<1>11. GotIs(after)'
  BY <1>1, <1>2, <1>3 DEF Kept, HeapIs, ServerIs, QueueIs, NewMailIs, MailIs, HandIs,
      GotIs, SentIs, TypeOK, RoleInv, OneOwner, Owns
<1>12. SentIs(after)'
  BY <1>1, <1>2, <1>3 DEF Kept, HeapIs, ServerIs, QueueIs, NewMailIs, MailIs, HandIs,
      GotIs, SentIs, TypeOK, RoleInv, OneOwner, Owns
<1>13. NoRepeats(msgQue)'
  BY <1>3
<1>14. Passes(m, place, after)
  BY <1>1, <1>2, <1>3 DEF Kept, HeapIs, ServerIs, QueueIs, NewMailIs, MailIs, HandIs,
      GotIs, SentIs, TypeOK, RoleInv, Passes, Answered, OwnsSame, Gains, Loses, Owns,
      OneOwner
<1>15. Moves(place, after)
  BY <1>2, <1>14 DEF Moves
<1>16. Kept(after)'
  BY <1>5, <1>6, <1>7, <1>8, <1>9, <1>10, <1>11, <1>12 DEF Kept
<1> QED BY <1>4, <1>13, <1>15, <1>16

LEMMA QueueEmptyPlace ==
  ASSUME Inv, NEW place \in [Messages -> Places], Kept(place), NoRepeats(msgQue),
         OneOwner, NEW t \in Threads, 
         QueueEmpty(t)
  PROVE  \E after \in [Messages -> Places] :
           Kept(after)' /\ Moves(place, after) /\ NoRepeats(msgQue)'
<1> USE RcmClientAssumption, NullIsNoMessage DEF Messages, At, Goto,
        QueueEmpty, callVars, mailboxVars, lockVars, queueVars, allocVars
<1> DEFINE after == place
<1>1. Kept(place) /\ TypeOK /\ RoleInv
  BY DEF Inv
<1>2. after \in [Messages -> Places]
  BY DEF Places
<1>3. HeapIs(after)'
  BY <1>1 DEF Kept, HeapIs, ServerIs, QueueIs, NewMailIs, MailIs, HandIs, GotIs,
      SentIs, TypeOK, RoleInv
<1>4. ServerIs(after)'
  BY <1>1 DEF Kept, HeapIs, ServerIs, QueueIs, NewMailIs, MailIs, HandIs, GotIs,
      SentIs, TypeOK, RoleInv
<1>5. QueueIs(after)'
  <2>1. Queued(msgQue)' = Queued(msgQue)
    BY DEF Queued
  <2> QED BY <1>1, <2>1 DEF Kept, HeapIs, ServerIs, QueueIs, NewMailIs, MailIs, HandIs,
      GotIs, SentIs
<1>6. NewMailIs(after)'
  BY <1>1 DEF Kept, HeapIs, ServerIs, QueueIs, NewMailIs, MailIs, HandIs, GotIs,
      SentIs, TypeOK, RoleInv
<1>7. MailIs(after)'
  BY <1>1 DEF Kept, HeapIs, ServerIs, QueueIs, NewMailIs, MailIs, HandIs, GotIs,
      SentIs, TypeOK, RoleInv, OneOwner, Owns
<1>8. HandIs(after)'
  BY <1>1 DEF Kept, HeapIs, ServerIs, QueueIs, NewMailIs, MailIs, HandIs, GotIs,
      SentIs, TypeOK, RoleInv, OneOwner, Owns
<1>9. GotIs(after)'
  BY <1>1 DEF Kept, HeapIs, ServerIs, QueueIs, NewMailIs, MailIs, HandIs, GotIs,
      SentIs, TypeOK, RoleInv, OneOwner, Owns
<1>10. SentIs(after)'
  BY <1>1 DEF Kept, HeapIs, ServerIs, QueueIs, NewMailIs, MailIs, HandIs, GotIs,
      SentIs, TypeOK, RoleInv, OneOwner, Owns
<1>11. NoRepeats(msgQue)'
  BY DEF NoRepeats
<1>12. Stays(place, after)
  BY <1>1 DEF Kept, HeapIs, ServerIs, QueueIs, NewMailIs, MailIs, HandIs, GotIs,
      SentIs, TypeOK, RoleInv, Stays, Answered, OwnsSame, Gains, Loses, Owns, OneOwner
<1>13. Moves(place, after)
  BY <1>12 DEF Moves
<1>14. Kept(after)'
  BY <1>3, <1>4, <1>5, <1>6, <1>7, <1>8, <1>9, <1>10 DEF Kept
<1> QED BY <1>2, <1>11, <1>13, <1>14

LEMMA GetNextPlace ==
  ASSUME Inv, NEW place \in [Messages -> Places], Kept(place), NoRepeats(msgQue),
         OneOwner, NEW t \in Threads, NEW m,
         m = Head(msgQue), GetNext(t)
  PROVE  \E after \in [Messages -> Places] :
           Kept(after)' /\ Moves(place, after) /\ NoRepeats(msgQue)'
<1> USE RcmClientAssumption, NullIsNoMessage DEF Messages, At, Goto,
        GetNext, callVars, mailboxVars, lockVars, queueVars, allocVars
<1> DEFINE after == [place EXCEPT ![m] = "hand"]
<1>1. Kept(place) /\ TypeOK /\ RoleInv
  BY DEF Inv
<1>2. m \in Messages
  BY <1>1, HeadAndTail DEF TypeOK
<1>3. /\ m \in Queued(msgQue) /\ Queued(msgQue)' = Queued(msgQue) \ {m}
      /\ NoRepeats(msgQue)'
  BY <1>1, QueuedTail DEF TypeOK
<1>4. after \in [Messages -> Places]
  BY DEF Places
<1>5. HeapIs(after)'
  BY <1>1, <1>2, <1>3 DEF Kept, HeapIs, ServerIs, QueueIs, NewMailIs, MailIs, HandIs,
      GotIs, SentIs, TypeOK, RoleInv
<1>6. ServerIs(after)'
  BY <1>1, <1>2, <1>3 DEF Kept, HeapIs, ServerIs, QueueIs, NewMailIs, MailIs, HandIs,
      GotIs, SentIs, TypeOK, RoleInv
<1>7. QueueIs(after)'
  BY <1>1, <1>2, <1>3, SMTT(60) DEF Kept, HeapIs, ServerIs, QueueIs, NewMailIs, MailIs, HandIs,
      GotIs, SentIs, TypeOK, RoleInv
<1>8. NewMailIs(after)'
  BY <1>1, <1>2, <1>3 DEF Kept, HeapIs, ServerIs, QueueIs, NewMailIs, MailIs, HandIs,
      GotIs, SentIs, TypeOK, RoleInv
<1>9. MailIs(after)'
  BY <1>1, <1>2, <1>3 DEF Kept, HeapIs, ServerIs, QueueIs, NewMailIs, MailIs, HandIs,
      GotIs, SentIs, TypeOK, RoleInv, OneOwner, Owns
<1>10. HandIs(after)'
  BY <1>1, <1>2, <1>3 DEF Kept, HeapIs, ServerIs, QueueIs, NewMailIs, MailIs, HandIs,
      GotIs, SentIs, TypeOK, RoleInv, OneOwner, Owns
<1>11. GotIs(after)'
  BY <1>1, <1>2, <1>3 DEF Kept, HeapIs, ServerIs, QueueIs, NewMailIs, MailIs, HandIs,
      GotIs, SentIs, TypeOK, RoleInv, OneOwner, Owns
<1>12. SentIs(after)'
  BY <1>1, <1>2, <1>3 DEF Kept, HeapIs, ServerIs, QueueIs, NewMailIs, MailIs, HandIs,
      GotIs, SentIs, TypeOK, RoleInv, OneOwner, Owns
<1>13. NoRepeats(msgQue)'
  BY <1>3
<1>14. Passes(m, place, after)
  BY <1>1, <1>2, <1>3 DEF Kept, HeapIs, ServerIs, QueueIs, NewMailIs, MailIs, HandIs,
      GotIs, SentIs, TypeOK, RoleInv, Passes, Answered, OwnsSame, Gains, Loses, Owns,
      OneOwner
<1>15. Moves(place, after)
  BY <1>2, <1>14 DEF Moves
<1>16. Kept(after)'
  BY <1>5, <1>6, <1>7, <1>8, <1>9, <1>10, <1>11, <1>12 DEF Kept
<1> QED BY <1>4, <1>13, <1>15, <1>16

LEMMA PickUpMailPlace ==
  ASSUME Inv, NEW place \in [Messages -> Places], Kept(place), NoRepeats(msgQue),
         OneOwner, NEW t \in Threads, NEW m,
         m = mail[t], m # NULL, Return(t, m), PickUp(t)
  PROVE  \E after \in [Messages -> Places] :
           Kept(after)' /\ Moves(place, after) /\ NoRepeats(msgQue)'
<1> USE RcmClientAssumption, NullIsNoMessage DEF Messages, At, Goto,
        PickUp, Return, callVars, mailboxVars, lockVars, queueVars, allocVars
<1> DEFINE after == [place EXCEPT ![m] = "returned"]
<1>1. Kept(place) /\ TypeOK /\ RoleInv
  BY DEF Inv
<1>2. m \in Messages
  BY <1>1 DEF TypeOK
<1>3. after \in [Messages -> Places]
  BY DEF Places
<1>4. HeapIs(after)'
  BY <1>1, <1>2 DEF Kept, HeapIs, ServerIs, QueueIs, NewMailIs, MailIs, HandIs, GotIs,
      SentIs, TypeOK, RoleInv
<1>5. ServerIs(after)'
  BY <1>1, <1>2 DEF Kept, HeapIs, ServerIs, QueueIs, NewMailIs, MailIs, HandIs, GotIs,
      SentIs, TypeOK, RoleInv
<1>6. QueueIs(after)'
  <2>1. Queued(msgQue)' = Queued(msgQue)
    BY DEF Queued
  <2> QED BY <1>1, <2>1, <1>2 DEF Kept, HeapIs, ServerIs, QueueIs, NewMailIs, MailIs,
      HandIs, GotIs, SentIs
<1>7. NewMailIs(after)'
  BY <1>1, <1>2 DEF Kept, HeapIs, ServerIs, QueueIs, NewMailIs, MailIs, HandIs, GotIs,
      SentIs, TypeOK, RoleInv
<1>8. MailIs(after)'
  BY <1>1, <1>2 DEF Kept, HeapIs, ServerIs, QueueIs, NewMailIs, MailIs, HandIs, GotIs,
      SentIs, TypeOK, RoleInv, OneOwner, Owns
<1>9. HandIs(after)'
  BY <1>1, <1>2 DEF Kept, HeapIs, ServerIs, QueueIs, NewMailIs, MailIs, HandIs, GotIs,
      SentIs, TypeOK, RoleInv, OneOwner, Owns
<1>10. GotIs(after)'
  BY <1>1, <1>2 DEF Kept, HeapIs, ServerIs, QueueIs, NewMailIs, MailIs, HandIs, GotIs,
      SentIs, TypeOK, RoleInv, OneOwner, Owns
<1>11. SentIs(after)'
  BY <1>1, <1>2 DEF Kept, HeapIs, ServerIs, QueueIs, NewMailIs, MailIs, HandIs, GotIs,
      SentIs, TypeOK, RoleInv, OneOwner, Owns
<1>12. NoRepeats(msgQue)'
  BY DEF NoRepeats
<1>13. Returns(t, m, place, after)
  <2>1. place[m] \in Answered
    BY <1>1, <1>2 DEF Kept, QueueIs, NewMailIs, MailIs, HandIs, Answered
  <2>2. OwnsSame
    BY <1>1, <1>2 DEF TypeOK, RoleInv, OwnsSame, Owns
  <2>3. Owns(t, m)
    BY <1>1, <1>2 DEF RoleInv, Owns
  <2> QED BY <2>1, <2>2, <2>3 DEF Returns
<1>14. Moves(place, after)
  BY <1>2, <1>13 DEF Moves
<1>15. Kept(after)'
  BY <1>4, <1>5, <1>6, <1>7, <1>8, <1>9, <1>10, <1>11 DEF Kept
<1> QED BY <1>3, <1>12, <1>14, <1>15

LEMMA PickUpRolePlace ==
  ASSUME Inv, NEW place \in [Messages -> Places], Kept(place), NoRepeats(msgQue),
         OneOwner, NEW t \in Threads, 
         mail[t] = NULL, PickUp(t), UNCHANGED <<wants, sent, got>>
  PROVE  \E after \in [Messages -> Places] :
           Kept(after)' /\ Moves(place, after) /\ NoRepeats(msgQue)'
<1> USE RcmClientAssumption, NullIsNoMessage DEF Messages, At, Goto,
        PickUp, callVars, mailboxVars, lockVars, queueVars, allocVars
<1> DEFINE after == place
<1>1. Kept(place) /\ TypeOK /\ RoleInv
  BY DEF Inv
<1>2. after \in [Messages -> Places]
  BY DEF Places
<1>3. HeapIs(after)'
  BY <1>1 DEF Kept, HeapIs, ServerIs, QueueIs, NewMailIs, MailIs, HandIs, GotIs,
      SentIs, TypeOK, RoleInv
<1>4. ServerIs(after)'
  BY <1>1 DEF Kept, HeapIs, ServerIs, QueueIs, NewMailIs, MailIs, HandIs, GotIs,
      SentIs, TypeOK, RoleInv
<1>5. QueueIs(after)'
  <2>1. Queued(msgQue)' = Queued(msgQue)
    BY DEF Queued
  <2> QED BY <1>1, <2>1 DEF Kept, HeapIs, ServerIs, QueueIs, NewMailIs, MailIs, HandIs,
      GotIs, SentIs
<1>6. NewMailIs(after)'
  BY <1>1 DEF Kept, HeapIs, ServerIs, QueueIs, NewMailIs, MailIs, HandIs, GotIs,
      SentIs, TypeOK, RoleInv
<1>7. MailIs(after)'
  BY <1>1 DEF Kept, HeapIs, ServerIs, QueueIs, NewMailIs, MailIs, HandIs, GotIs,
      SentIs, TypeOK, RoleInv, OneOwner, Owns
<1>8. HandIs(after)'
  BY <1>1 DEF Kept, HeapIs, ServerIs, QueueIs, NewMailIs, MailIs, HandIs, GotIs,
      SentIs, TypeOK, RoleInv, OneOwner, Owns
<1>9. GotIs(after)'
  BY <1>1 DEF Kept, HeapIs, ServerIs, QueueIs, NewMailIs, MailIs, HandIs, GotIs,
      SentIs, TypeOK, RoleInv, OneOwner, Owns
<1>10. SentIs(after)'
  BY <1>1 DEF Kept, HeapIs, ServerIs, QueueIs, NewMailIs, MailIs, HandIs, GotIs,
      SentIs, TypeOK, RoleInv, OneOwner, Owns
<1>11. NoRepeats(msgQue)'
  BY DEF NoRepeats
<1>12. Stays(place, after)
  BY <1>1 DEF Kept, HeapIs, ServerIs, QueueIs, NewMailIs, MailIs, HandIs, GotIs,
      SentIs, TypeOK, RoleInv, Stays, Answered, OwnsSame, Gains, Loses, Owns, OneOwner
<1>13. Moves(place, after)
  BY <1>12 DEF Moves
<1>14. Kept(after)'
  BY <1>3, <1>4, <1>5, <1>6, <1>7, <1>8, <1>9, <1>10 DEF Kept
<1> QED BY <1>2, <1>11, <1>13, <1>14

LEMMA GetFailsPlace ==
  ASSUME Inv, NEW place \in [Messages -> Places], Kept(place), NoRepeats(msgQue),
         OneOwner, NEW t \in Threads, 
         GetFails(t)
  PROVE  \E after \in [Messages -> Places] :
           Kept(after)' /\ Moves(place, after) /\ NoRepeats(msgQue)'
<1> USE RcmClientAssumption, NullIsNoMessage DEF Messages, At, Goto,
        GetFails, callVars, mailboxVars, lockVars, queueVars, allocVars
<1> DEFINE after == place
<1>1. Kept(place) /\ TypeOK /\ RoleInv
  BY DEF Inv
<1>2. after \in [Messages -> Places]
  BY DEF Places
<1>3. HeapIs(after)'
  BY <1>1 DEF Kept, HeapIs, ServerIs, QueueIs, NewMailIs, MailIs, HandIs, GotIs,
      SentIs, TypeOK, RoleInv
<1>4. ServerIs(after)'
  BY <1>1 DEF Kept, HeapIs, ServerIs, QueueIs, NewMailIs, MailIs, HandIs, GotIs,
      SentIs, TypeOK, RoleInv
<1>5. QueueIs(after)'
  <2>1. Queued(msgQue)' = Queued(msgQue)
    BY DEF Queued
  <2> QED BY <1>1, <2>1 DEF Kept, HeapIs, ServerIs, QueueIs, NewMailIs, MailIs, HandIs,
      GotIs, SentIs
<1>6. NewMailIs(after)'
  BY <1>1 DEF Kept, HeapIs, ServerIs, QueueIs, NewMailIs, MailIs, HandIs, GotIs,
      SentIs, TypeOK, RoleInv
<1>7. MailIs(after)'
  BY <1>1 DEF Kept, HeapIs, ServerIs, QueueIs, NewMailIs, MailIs, HandIs, GotIs,
      SentIs, TypeOK, RoleInv, OneOwner, Owns
<1>8. HandIs(after)'
  BY <1>1 DEF Kept, HeapIs, ServerIs, QueueIs, NewMailIs, MailIs, HandIs, GotIs,
      SentIs, TypeOK, RoleInv, OneOwner, Owns
<1>9. GotIs(after)'
  BY <1>1 DEF Kept, HeapIs, ServerIs, QueueIs, NewMailIs, MailIs, HandIs, GotIs,
      SentIs, TypeOK, RoleInv, OneOwner, Owns
<1>10. SentIs(after)'
  BY <1>1 DEF Kept, HeapIs, ServerIs, QueueIs, NewMailIs, MailIs, HandIs, GotIs,
      SentIs, TypeOK, RoleInv, OneOwner, Owns
<1>11. NoRepeats(msgQue)'
  BY DEF NoRepeats
<1>12. Stays(place, after)
  BY <1>1 DEF Kept, HeapIs, ServerIs, QueueIs, NewMailIs, MailIs, HandIs, GotIs,
      SentIs, TypeOK, RoleInv, Stays, Answered, OwnsSame, Gains, Loses, Owns, OneOwner
<1>13. Moves(place, after)
  BY <1>12 DEF Moves
<1>14. Kept(after)'
  BY <1>3, <1>4, <1>5, <1>6, <1>7, <1>8, <1>9, <1>10 DEF Kept
<1> QED BY <1>2, <1>11, <1>13, <1>14

LEMMA AnswerPlace ==
  ASSUME Inv, NEW place \in [Messages -> Places], Kept(place), NoRepeats(msgQue),
         OneOwner, NEW m \in Messages,
         Answer(m)
  PROVE  \E after \in [Messages -> Places] :
           Kept(after)' /\ Moves(place, after) /\ NoRepeats(msgQue)'
<1> USE RcmClientAssumption, NullIsNoMessage DEF Messages, At, Goto,
        Answer, callVars, mailboxVars, lockVars, queueVars, allocVars
<1> DEFINE after == [place EXCEPT ![m] = "queue"]
<1>1. Kept(place) /\ TypeOK /\ RoleInv
  BY DEF Inv
<1>2. m \in Messages
  OBVIOUS
<1>3. Queued(msgQue)' = Queued(msgQue) \cup {m} /\ NoRepeats(msgQue)'
  <2>1. m \notin Queued(msgQue)
    BY <1>1 DEF Kept, ServerIs, QueueIs
  <2>2. msgQue \in Seq(Messages) /\ msgQue' = Append(msgQue, m)
    BY <1>1 DEF TypeOK
  <2> QED BY <2>1, <2>2, QueuedAppend
<1>4. after \in [Messages -> Places]
  BY DEF Places
<1>5. HeapIs(after)'
  BY <1>1, <1>2, <1>3 DEF Kept, HeapIs, ServerIs, QueueIs, NewMailIs, MailIs, HandIs,
      GotIs, SentIs, TypeOK, RoleInv
<1>6. ServerIs(after)'
  BY <1>1, <1>2, <1>3 DEF Kept, HeapIs, ServerIs, QueueIs, NewMailIs, MailIs, HandIs,
      GotIs, SentIs, TypeOK, RoleInv
<1>7. QueueIs(after)'
  BY <1>1, <1>2, <1>3 DEF Kept, HeapIs, ServerIs, QueueIs, NewMailIs, MailIs, HandIs,
      GotIs, SentIs, TypeOK, RoleInv
<1>8. NewMailIs(after)'
  BY <1>1, <1>2, <1>3 DEF Kept, HeapIs, ServerIs, QueueIs, NewMailIs, MailIs, HandIs,
      GotIs, SentIs, TypeOK, RoleInv
<1>9. MailIs(after)'
  BY <1>1, <1>2, <1>3 DEF Kept, HeapIs, ServerIs, QueueIs, NewMailIs, MailIs, HandIs,
      GotIs, SentIs, TypeOK, RoleInv, OneOwner, Owns
<1>10. HandIs(after)'
  BY <1>1, <1>2, <1>3 DEF Kept, HeapIs, ServerIs, QueueIs, NewMailIs, MailIs, HandIs,
      GotIs, SentIs, TypeOK, RoleInv, OneOwner, Owns
<1>11. GotIs(after)'
  BY <1>1, <1>2, <1>3 DEF Kept, HeapIs, ServerIs, QueueIs, NewMailIs, MailIs, HandIs,
      GotIs, SentIs, TypeOK, RoleInv, OneOwner, Owns
<1>12. SentIs(after)'
  BY <1>1, <1>2, <1>3 DEF Kept, HeapIs, ServerIs, QueueIs, NewMailIs, MailIs, HandIs,
      GotIs, SentIs, TypeOK, RoleInv, OneOwner, Owns
<1>13. NoRepeats(msgQue)'
  BY <1>3
<1>14. IsAnswered(m, place, after)
  BY <1>1, <1>2, <1>3 DEF Kept, HeapIs, ServerIs, QueueIs, NewMailIs, MailIs, HandIs,
      GotIs, SentIs, TypeOK, RoleInv, IsAnswered, Answered, OwnsSame, Gains, Loses,
      Owns, OneOwner
<1>15. Moves(place, after)
  BY <1>2, <1>14 DEF Moves
<1>16. Kept(after)'
  BY <1>5, <1>6, <1>7, <1>8, <1>9, <1>10, <1>11, <1>12 DEF Kept
<1> QED BY <1>4, <1>13, <1>15, <1>16

-----------------------------------------------------------------------------
LEMMA PlaceInit ==
  ASSUME Init
  PROVE  PlaceInv
<1> DEFINE place == [m \in Messages |-> "heap"]
<1>1. Queued(msgQue) = {} /\ NoRepeats(msgQue)
  BY DEF Init, Queued, NoRepeats
<1>2. Kept(place)
  BY <1>1, RcmClientAssumption
  DEF Init, Messages, Kept, HeapIs, ServerIs, QueueIs, NewMailIs, MailIs, HandIs,
      GotIs, SentIs
<1>3. OneOwner
  BY RcmClientAssumption DEF Init, OneOwner, Owns, Messages
<1>4. place \in [Messages -> Places]
  BY DEF Places
<1> QED BY <1>1, <1>2, <1>3, <1>4 DEF PlaceInv

LEMMA PlaceStep ==
  ASSUME Inv, NEW place \in [Messages -> Places], Kept(place), NoRepeats(msgQue),
         OneOwner, [Next]_vars
  PROVE  \E after \in [Messages -> Places] :
           Kept(after)' /\ Moves(place, after) /\ NoRepeats(msgQue)'
<1> DEFINE Goal == \E after \in [Messages -> Places] :
                     Kept(after)' /\ Moves(place, after) /\ NoRepeats(msgQue)'
<1>1. ASSUME NEW t \in Threads, Call(t) PROVE Goal
  <2>1. CASE ExecNoWait(t)
    BY <2>1, ExecNoWaitPlace
  <2>2. CASE Free(t)
    BY <2>2, FreePlace
  <2>3. ASSUME NEW m \in Messages, WaitUntilDone(t, m) PROVE Goal
    BY <2>3, WaitUntilDonePlace
  <2> QED BY <1>1, <2>1, <2>2, <2>3 DEF Call
<1>2. ASSUME NEW t \in Threads, GetReturnMsg(t) PROVE Goal
  <2>1. CASE FindNewMail(t)
    BY <2>1, FindNewMailPlace
  <2>2. CASE BecomeMailman(t)
    BY <2>2, BecomeMailmanPlace
  <2>3. CASE BecomeRecipient(t)
    BY <2>3, BecomeRecipientPlace
  <2>4. CASE TakeOwn(t)
    <3>1. Takes(t, wants[t])
      BY <2>4 DEF TakeOwn
    <3> QED BY <2>4, <3>1, TakeOwnPlace
  <2>5. ASSUME NEW m \in Messages, Deliver(t, m) PROVE Goal
    <3>1. Takes(t, m)
      BY <2>5 DEF Deliver
    <3>2. ASSUME NEW r \in Addressees(m),
                 mail' = [mail EXCEPT ![r] = m], UNCHANGED newMail
          PROVE Goal
      BY <2>5, <3>1, <3>2, DeliverToRecipientPlace
    <3>3. CASE newMail' = newMail \cup {m} /\ UNCHANGED mail
      BY <2>5, <3>1, <3>3, DeliverToMailboxPlace
    <3> QED BY <2>5, <3>2, <3>3 DEF Deliver
  <2>6. CASE QueueEmpty(t)
    BY <2>6, QueueEmptyPlace
  <2>7. CASE GetNext(t)
    BY <2>7, GetNextPlace
  <2>8. CASE PickUp(t)
    <3>1. CASE mail[t] # NULL /\ Return(t, mail[t])
      BY <2>8, <3>1, PickUpMailPlace
    <3>2. CASE mail[t] = NULL /\ UNCHANGED <<wants, sent, got>>
      BY <2>8, <3>2, PickUpRolePlace
    <3> QED BY <2>8, <3>1, <3>2 DEF PickUp
  <2> QED BY <1>2, <2>1, <2>2, <2>3, <2>4, <2>5, <2>6, <2>7, <2>8 DEF GetReturnMsg
<1>3. ASSUME NEW t \in Threads, GetFails(t) PROVE Goal
  BY <1>3, GetFailsPlace
<1>4. ASSUME NEW m \in Messages, Answer(m) PROVE Goal
  BY <1>4, AnswerPlace
<1>5. CASE UNCHANGED vars
  <2> USE <1>5 DEF vars, callVars, mailboxVars, lockVars, queueVars, allocVars
  <2>1. Queued(msgQue)' = Queued(msgQue)
    BY DEF Queued
  <2>2. Kept(place)'
    BY <2>1 DEF Kept, HeapIs, ServerIs, QueueIs, NewMailIs, MailIs, HandIs, GotIs,
        SentIs
  <2>3. Stays(place, place) /\ NoRepeats(msgQue)'
    BY DEF Stays, OwnsSame, Owns, NoRepeats
  <2> QED BY <2>2, <2>3 DEF Moves
<1> QED BY <1>1, <1>2, <1>3, <1>4, <1>5 DEF Next

\* A message gets an owner only when it has none.
LEMMA OwnerStep ==
  ASSUME NEW place \in [Messages -> Places], Kept(place), OneOwner,
         NEW after, Moves(place, after)
  PROVE  OneOwner'
<1>1. CASE OwnsSame
  BY <1>1 DEF OneOwner, OwnsSame
<1>2. ASSUME NEW t \in Threads, NEW m \in Messages, Sends(t, m, place, after)
      PROVE OneOwner'
  <2>1. \A u \in Threads : ~Owns(u, m)
    BY <1>2 DEF Sends, Owns, Kept, SentIs, GotIs
  <2> QED BY <1>2, <2>1 DEF Sends, Gains, OneOwner
<1>3. ASSUME NEW t \in Threads, NEW m \in Messages, Frees(t, m, place, after)
      PROVE OneOwner'
  BY <1>3 DEF Frees, Loses, OneOwner
<1> QED BY <1>1, <1>2, <1>3 DEF Moves, Stays, IsAnswered, Passes, Returns

-----------------------------------------------------------------------------
\* What Calls sees of a place, and of the owners.
StageAt(where) ==
  CASE where = "heap" -> "free"
    [] where = "server" -> "sent"
    [] where = "returned" -> "returned"
    [] OTHER -> "answered"

StagesAre ==
  \A place \in [Messages -> Places] : Kept(place) =>
    \A m \in Messages : Stage(m) = StageAt(place[m])
OwnersAre ==
  OneOwner =>
    \A m \in Messages :
      /\ \A t \in Threads : Owns(t, m) => Owner(m) = t
      /\ (\A t \in Threads : ~Owns(t, m)) => Owner(m) = NULL

LEMMA StageIs == StagesAre
<1> SUFFICES ASSUME NEW place \in [Messages -> Places], Kept(place),
                    NEW m \in Messages
             PROVE  Stage(m) = StageAt(place[m])
  BY DEF StagesAre
<1>1. InMailbox(m) <=> place[m] \in Answered
  BY DEF InMailbox, Kept, QueueIs, NewMailIs, MailIs, HandIs, Answered
<1>2. /\ m \notin out <=> place[m] = "heap"
      /\ m \in server <=> place[m] = "server"
      /\ (\E t \in Threads : got[t] = m) <=> place[m] = "returned"
  BY DEF Kept, HeapIs, ServerIs, GotIs
<1>3. place[m] \in Places
  OBVIOUS
<1> HIDE DEF InMailbox
<1> QED BY <1>1, <1>2, <1>3 DEF Stage, StageAt, Places, Answered

LEMMA OwnerIs == OwnersAre
<1> SUFFICES ASSUME OneOwner, NEW m \in Messages
             PROVE  /\ \A t \in Threads : Owns(t, m) => Owner(m) = t
                    /\ (\A t \in Threads : ~Owns(t, m)) => Owner(m) = NULL
  BY DEF OwnersAre
<1>1. ASSUME NEW t \in Threads, Owns(t, m) PROVE Owner(m) = t
  <2> DEFINE chosen == CHOOSE u \in Threads : Owns(u, m)
  <2>1. chosen \in Threads /\ Owns(chosen, m)
    BY <1>1
  <2>2. chosen = t
    BY <1>1, <2>1 DEF OneOwner
  <2> QED BY <1>1, <2>2 DEF Owner
<1>2. ASSUME \A t \in Threads : ~Owns(t, m) PROVE Owner(m) = NULL
  BY <1>2 DEF Owner
<1> QED BY <1>1, <1>2

LEMMA CallsInit ==
  ASSUME Init, PlaceInv PROVE Abstract!Init
<1>1. PICK place \in [Messages -> Places] : Kept(place)
  BY DEF PlaceInv
<1>2. \A m \in Messages : place[m] = "heap"
  BY <1>1 DEF Init, Kept, HeapIs
<1>3. \A m \in Messages : Stage(m) = "free"
  BY <1>1, <1>2, StageIs DEF StagesAre, StageAt
<1>4. \A m \in Messages : Owner(m) = NULL
  BY OwnerIs, RcmClientAssumption DEF OwnersAre, PlaceInv, Init, Owns, Messages
<1> QED BY <1>3, <1>4 DEF Abstract!Init

LEMMA CallsStep ==
  ASSUME NEW place \in [Messages -> Places], Kept(place), OneOwner,
         NEW after \in [Messages -> Places], Kept(after)', OneOwner',
         Moves(place, after)
  PROVE  [Abstract!Next]_Abstract!vars
<1> DEFINE stage == [m \in Messages |-> Stage(m)]
           owner == [m \in Messages |-> Owner(m)]
<1>1. StagesAre' /\ OwnersAre'
  BY StageIs, OwnerIs, PTL
<1>2. \A m \in Messages : Stage(m) = StageAt(place[m]) /\ Stage(m)' = StageAt(after[m])
  BY <1>1, StageIs DEF StagesAre
<1>3. \A m \in Messages :
        /\ \A t \in Threads : Owns(t, m) => Owner(m) = t
        /\ (\A t \in Threads : ~Owns(t, m)) => Owner(m) = NULL
  BY OwnerIs DEF OwnersAre
<1>4. \A m \in Messages :
        /\ \A t \in Threads : Owns(t, m)' => Owner(m)' = t
        /\ (\A t \in Threads : ~Owns(t, m)') => Owner(m)' = NULL
  BY <1>1 DEF OwnersAre
<1>5. ASSUME NEW m \in Messages, NEW where, after = [place EXCEPT ![m] = where]
      PROVE  stage' = [stage EXCEPT ![m] = StageAt(where)]
  BY <1>2, <1>5
<1>6. ASSUME OwnsSame PROVE owner' = owner
  BY <1>3, <1>4, <1>6 DEF OwnsSame
<1>7. CASE Stays(place, after)
  BY <1>2, <1>6, <1>7 DEF Stays, Abstract!vars
<1>8. ASSUME NEW m \in Messages, IsAnswered(m, place, after)
      PROVE  Abstract!Answer(m)
  <2>1. stage[m] = "sent" /\ stage' = [stage EXCEPT ![m] = "answered"]
    BY <1>2, <1>5, <1>8 DEF IsAnswered, StageAt
  <2> QED BY <1>6, <1>8, <2>1 DEF IsAnswered, Abstract!Answer, Abstract!Move
<1>9. ASSUME NEW m \in Messages, Passes(m, place, after)
      PROVE  UNCHANGED Abstract!vars
  <2>1. PICK there \in Answered : after = [place EXCEPT ![m] = there]
    BY <1>9 DEF Passes
  <2>2. stage' = [stage EXCEPT ![m] = "answered"]
    BY <1>5, <2>1 DEF StageAt, Answered
  <2>3. stage[m] = "answered"
    BY <1>2, <1>9 DEF Passes, StageAt, Answered
  <2> QED BY <1>6, <1>9, <2>2, <2>3 DEF Passes, Abstract!vars
<1>10. ASSUME NEW m \in Messages, NEW t \in Threads, Returns(t, m, place, after)
       PROVE  Abstract!Return(t, m)
  <2>1. stage[m] = "answered" /\ stage' = [stage EXCEPT ![m] = "returned"]
    BY <1>2, <1>5, <1>10 DEF Returns, StageAt, Answered
  <2>2. owner[m] = t /\ owner' = owner
    BY <1>3, <1>6, <1>10 DEF Returns
  <2> QED BY <2>1, <2>2 DEF Abstract!Return, Abstract!Move
<1>11. ASSUME NEW m \in Messages, NEW t \in Threads, Sends(t, m, place, after)
       PROVE  Abstract!Send(t, m)
  <2>1. stage[m] = "free" /\ stage' = [stage EXCEPT ![m] = "sent"]
    BY <1>2, <1>5, <1>11 DEF Sends, StageAt
  <2>2. \A x \in Messages : Owner(x)' = IF x = m THEN t ELSE Owner(x)
    BY <1>3, <1>4, <1>11 DEF Sends, Gains
  <2> QED BY <2>1, <2>2 DEF Abstract!Send, Abstract!Move, Abstract!GiveTo
<1>12. ASSUME NEW m \in Messages, NEW t \in Threads, Frees(t, m, place, after)
       PROVE  Abstract!Free(t, m)
  <2>1. stage[m] = "returned" /\ stage' = [stage EXCEPT ![m] = "free"]
    BY <1>2, <1>5, <1>12 DEF Frees, StageAt
  <2>2. \A x \in Messages : Owner(x)' = IF x = m THEN NULL ELSE Owner(x)
    BY <1>3, <1>4, <1>12 DEF Frees, Loses, OneOwner
  <2>3. owner[m] = t
    BY <1>3, <1>12 DEF Frees
  <2> QED BY <2>1, <2>2, <2>3 DEF Abstract!Free, Abstract!Move, Abstract!GiveTo
<1> HIDE DEF stage, owner
<1> QED BY <1>7, <1>8, <1>9, <1>10, <1>11, <1>12 DEF Moves, Abstract!Next

-----------------------------------------------------------------------------
LEMMA InvStep ==
  ASSUME Inv, PlaceInv, [Next]_vars
  PROVE  Inv' /\ PlaceInv' /\ [Abstract!Next]_Abstract!vars
<1>1. Inv'
  BY TypeStep, RoleStep DEF Inv
<1>2. PICK place \in [Messages -> Places] : Kept(place)
  BY DEF PlaceInv
<1>3. NoRepeats(msgQue) /\ OneOwner
  BY DEF PlaceInv
<1>4. PICK after \in [Messages -> Places] :
        Kept(after)' /\ Moves(place, after) /\ NoRepeats(msgQue)'
  BY <1>2, <1>3, PlaceStep
<1>5. OneOwner'
  BY <1>2, <1>3, <1>4, OwnerStep
<1>6. PlaceInv'
  BY <1>4, <1>5 DEF PlaceInv
<1> QED BY <1>1, <1>2, <1>3, <1>4, <1>5, <1>6, CallsStep

\* Every reply is returned once, to the thread that sent the message, whatever
\* the order of the replies and whoever takes them off the queue: getReturnMsg
\* implements Calls.
THEOREM RcmClientImplementsCalls == Spec => ImplementsCalls
<1>1. Init => Inv /\ PlaceInv /\ Abstract!Init
  BY TypeInit, RoleInit, PlaceInit, CallsInit DEF Inv
<1>2. Inv /\ PlaceInv /\ [Next]_vars
        => Inv' /\ PlaceInv' /\ [Abstract!Next]_Abstract!vars
  BY InvStep
<1> QED BY <1>1, <1>2, PTL DEF Spec, ImplementsCalls, Abstract!Spec

=============================================================================
