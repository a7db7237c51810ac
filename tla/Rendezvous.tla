------------------------------ MODULE Rendezvous ------------------------------
(***************************************************************************)
(* What a barrier promises to the benchmark kernels: the n-th call of a    *)
(* participant returns only when every participant has made its n-th call. *)
(***************************************************************************)
EXTENDS Naturals

CONSTANT Participants

VARIABLES
    arrived,    \* how many calls each participant has made
    left        \* how many of them have returned

rvars == <<arrived, left>>

RInit ==
    /\ arrived = [p \in Participants |-> 0]
    /\ left = [p \in Participants |-> 0]

Arrive(p) ==
    /\ arrived[p] = left[p]
    /\ arrived' = [arrived EXCEPT ![p] = @ + 1]
    /\ UNCHANGED left

AllHere(p) == \A q \in Participants : arrived[q] >= arrived[p]

Leave(p) ==
    /\ left[p] < arrived[p]
    /\ AllHere(p)
    /\ left' = [left EXCEPT ![p] = @ + 1]
    /\ UNCHANGED arrived

RNext == \E p \in Participants : Arrive(p) \/ Leave(p)

RSpec == RInit /\ [][RNext]_rvars
===============================================================================
