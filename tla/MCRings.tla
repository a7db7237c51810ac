------------------------------ MODULE MCRings ------------------------------
(***************************************************************************)
(* The two virtqueues of the transport for TLC, with the code that uses    *)
(* each.  They share nothing, so that a behaviour is one of either.        *)
(***************************************************************************)
EXTENDS RxPath, TxPath

ringVars == <<which, vars, rxVars, txVars>>

Starts(ring) == Init /\ RxInit /\ TxInit /\ which = ring

Host ==
  \/ \E h \in Heads : HostAddAvail(h)
  \/ HostKick \/ HostPoll

RingsNext ==
  \/ RxNext /\ UNCHANGED <<which, txVars>>
  \/ TxNext /\ UNCHANGED <<which, rxVars>>
  \/ Host /\ UNCHANGED <<which, rxVars, txVars>>

\* The host serves its mailbox and, for the senders, offers again every buffer
\* it has back.
HostFairness ==
  /\ WF_vars(HostKick) /\ SF_vars(HostPoll)
  /\ SF_vars(which = "toHost" /\ \E h \in Heads : HostAddAvail(h))

RxSpec ==
  /\ Starts("fromHost")
  /\ [][RingsNext]_ringVars
  /\ RxFairness /\ HostFairness

TxSpec ==
  /\ Starts("toHost")
  /\ [][RingsNext]_ringVars
  /\ TxFairness /\ HostFairness

-----------------------------------------------------------------------------
\* Every buffer has one owner across all wraps of the indices, which stay in
\* their ranges.
BuffersAreOwned == TypeOK /\ RxTypeOK /\ OneOwner
=============================================================================
