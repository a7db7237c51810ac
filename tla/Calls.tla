------------------------------- MODULE Calls -------------------------------
(***************************************************************************)
(* What RcmClient promises the threads that share an instance: the reply   *)
(* to a message goes to the thread that sent it, once, whatever the order  *)
(* in which the replies arrive and the threads ask for them.               *)
(***************************************************************************)
CONSTANTS Threads, Messages, Nobody

VARIABLES
    stage,      \* where each message is in its life
    owner       \* the thread a message will go, or has gone, to

vars == <<stage, owner>>

Stages == {"free", "sent", "answered", "returned"}

Init == stage = [m \in Messages |-> "free"] /\ owner = [m \in Messages |-> Nobody]

Move(m, from, to) == stage[m] = from /\ stage' = [stage EXCEPT ![m] = to]
GiveTo(m, t) == owner' = [owner EXCEPT ![m] = t]

Send(t, m) == Move(m, "free", "sent") /\ GiveTo(m, t)
Answer(m) == Move(m, "sent", "answered") /\ UNCHANGED owner
Return(t, m) == owner[m] = t /\ Move(m, "answered", "returned") /\ UNCHANGED owner
Free(t, m) == owner[m] = t /\ Move(m, "returned", "free") /\ GiveTo(m, Nobody)

Next ==
  \E m \in Messages :
    \/ Answer(m)
    \/ \E t \in Threads : Send(t, m) \/ Return(t, m) \/ Free(t, m)

Spec == Init /\ [][Next]_vars
=============================================================================
