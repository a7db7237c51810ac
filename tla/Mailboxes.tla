----------------------------- MODULE Mailboxes -----------------------------
(***************************************************************************)
(* What MessageQCopy promises the users of local endpoints: an endpoint is *)
(* a FIFO of payloads that exists from create to delete.  "Multiple        *)
(* writers, single reader" (MessageQCopy.h:38); what is queued when the    *)
(* endpoint is deleted "will be lost" (MessageQCopy.h:250).                *)
(***************************************************************************)
EXTENDS Sequences, Naturals

CONSTANTS Endpoints, Data, Closed

VARIABLE box      \* the payloads of each endpoint, oldest first, or Closed

Init == box = [e \in Endpoints |-> Closed]

Open(e) == box[e] = Closed /\ box' = [box EXCEPT ![e] = <<>>]

Close(e) == box[e] # Closed /\ box' = [box EXCEPT ![e] = Closed]

Deliver(e, d) == box[e] # Closed /\ box' = [box EXCEPT ![e] = Append(@, d)]

Receive(e) ==
  /\ box[e] \notin {Closed, <<>>}
  /\ box' = [box EXCEPT ![e] = Tail(@)]

Next ==
  \E e \in Endpoints :
    \/ Open(e) \/ Close(e) \/ Receive(e)
    \/ \E d \in Data : Deliver(e, d)

Spec == Init /\ [][Next]_box
=============================================================================
