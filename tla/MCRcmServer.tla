---------------------------- MODULE MCRcmServer ----------------------------
(***************************************************************************)
(* Instances of RcmServer, RcmSymbols, Services, RcmCommands and           *)
(* RcmInstances for TLC.  The first two share nothing but the gate, the    *)
(* third uses servers as they are created and deleted, and the others are  *)
(* about calls that come before or after, so that their steps need not be  *)
(* interleaved: a behaviour is one of a single part.                       *)
(***************************************************************************)
EXTENDS RcmServer, RcmSymbols, Services, RcmCommands, RcmInstances

CONSTANTS w1, w2

Kind(type, pool, job, fxn) == [type |-> type, pool |-> pool, job |-> job, fxn |-> fxn]

\* Of every type, all for the default pool but one.
InBand ==
  {Kind("jobAcq", 0, 0, "ok"), Kind("jobRel", 0, 1, "ok"), Kind("jobRel", 0, 2, "ok"),
   Kind("msg", 0, 1, "fails"), Kind("cmd", 0, 0, "invalid"), Kind("cmd", 0, 0, "ok"),
   Kind("msg", NoPool, 0, "ok"), Kind("dpc", 0, 0, "ok"), Kind("symIdx", 0, 0, "invalid"),
   Kind("symIdx", 0, 0, "ok"), Kind("other", 0, 0, "ok")}

\* Jobs, and messages that have none, for the workers.
InPools ==
  {Kind("jobAcq", 0, 0, "ok"), Kind("jobRel", 0, 1, "ok"), Kind("msg", 1, 1, "ok"),
   Kind("msg", 1, 2, "ok"), Kind("msg", 1, 0, "fails"), Kind("cmd", 1, 0, "ok")}

AcrossPools ==
  {Kind("jobAcq", 0, 0, "ok"), Kind("jobRel", 1, 1, "ok"), Kind("msg", 0, 1, "ok"),
   Kind("msg", 1, 1, "ok")}

\* The server of this repository; two workers in a pool of jobs; a worker in
\* each pool.
MCConfigs ==
  {[copies |-> TRUE, poolOf |-> [w \in Workers |-> NoPool], kinds |-> InBand, max |-> 3],
   [copies |-> FALSE, poolOf |-> [w \in Workers |-> 1], kinds |-> InPools, max |-> 3],
   [copies |-> FALSE, poolOf |-> [w \in Workers |-> IF w = w1 THEN 0 ELSE 1],
    kinds |-> AcrossPools, max |-> 4]}

Ends == <<2>>

VARIABLE part

restVars == <<srvVars, cmdVars, instVars>>
mcVars == <<part, serverVars, symbolVars, restVars>>

MCInit ==
  /\ part \in {"server", "symbols", "services", "commands", "instances"}
  /\ ServerInit /\ SymbolInit /\ SrvInit /\ CmdInit /\ InstInit
  /\ part # "server" => config.copies
  /\ part # "instances" => kind = "client" /\ ~embedded /\ ~notify

Services(step) ==
  part = "services" /\ step /\ UNCHANGED <<part, serverVars, symbolVars, cmdVars, instVars>>
Commands(step) ==
  part = "commands" /\ step /\ UNCHANGED <<part, serverVars, symbolVars, srvVars, instVars>>

MCNext ==
  \/ part = "server" /\ ServerNext /\ UNCHANGED <<part, symbolVars, restVars>>
  \/ part = "symbols" /\ SymbolNext /\ UNCHANGED <<part, serverVars, restVars>>
  \/ Services(SrvNext) \/ Commands(CmdNext)
  \/ /\ part = "instances" /\ InstNext
     /\ UNCHANGED <<part, serverVars, symbolVars, srvVars, cmdVars>>

\* One condition may stand for a process of each of two parts.
FairOne == Services(ConnRuns("omx")) \/ Commands(ServeSome)
FairTwo == Services(ConnRuns("A")) \/ Commands(GetReply)

MCSpec ==
  /\ MCInit /\ [][MCNext]_mcVars
  /\ ServerFairness /\ WF_mcVars(FairOne) /\ WF_mcVars(FairTwo)

(* What RcmClient.h says of a message that exec has returned: it "can be     *)
(* either reused for another call to exec or it can be freed".               *)
ExecRunsAgain ==
  [][\A p \in Packets :
       (place[p] = "client" /\ sentAs[p] = "exec" /\ place'[p] = "server" /\ sentAs'[p] = "exec")
         => desc'[p] = TypeOf.exec]_mcVars

\* The property of one channel, where the others are like it.
DeleteOfAReturns == ChannelDeleteReturns("A")

\* What is asked for is answered, and what is deleted goes: messages, servers,
\* channels and commands.
EveryoneIsServed ==
  EveryMessageIsAnswered /\ DeleteReturns /\ DeleteOfAReturns /\ CommandsReturn
=============================================================================
