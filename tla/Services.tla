------------------------------ MODULE Services ------------------------------
(***************************************************************************)
(* Services that the host connects to: ServiceMgr with its tables, the     *)
(* connection server OmxSrvMgr, the channels of OmapRpc, and NameMap.  All *)
(* their tasks have the same priority on one processor (the build without  *)
(* SMP): a step is what one of them does between two points where it may   *)
(* block.                                                                  *)
(*                                                                         *)
(* Of RcmServer it needs that a server is created, with an endpoint of its *)
(* own, started and deleted (RcmServer.tla).  The host is external.        *)
(***************************************************************************)
EXTENDS Naturals, Sequences, FiniteSets, SequencesExt

CONSTANTS
  Channels,         \* a name each, and a port reserved for it
  NumDefs,          \* ServiceMgr_NUMSERVICETYPES
  MaxTuples,        \* MAX_TUPLES
  Endpoints,        \* left for servers by MAXMESSAGEQOBJECTS
  MaxServers,       \* bound: servers created in all
  NoService

\* "omx" is the task of OmxSrvMgr; the other tasks are those of channels.
ConnTasks == Channels \cup {"omx"}
FreeTuple == [key |-> 0, value |-> 0]
NoRequest == [op |-> "none", name |-> NoService, addr |-> 0]

ASSUME ServicesAssumption ==
  /\ MaxTuples \in Nat /\ NumDefs \in Nat
  /\ Endpoints \subseteq Nat \ {0} /\ IsFiniteSet(Endpoints)
  /\ Cardinality(Endpoints) <= MaxTuples
  /\ NoService \notin Channels /\ "omx" \notin Channels

VARIABLES
  serviceDefs,      \* the names registered, in order
  Tuples,           \* endpoint and server of each connection
  servers,          \* [handle, endpt, started] of each RcmServer
  lastHandle,       \* servers created so far
  connPc, request,  \* where each task is, and what it has received
  newAddr,          \* the address it puts into its answer
  inbox,            \* of each task: what the host sent
  known,            \* the services the client of each task is connected to
  hostNames,        \* what NameMap has told the host
  chanPc,           \* where the owner of each channel is
  ports,            \* channels whose endpoint is open
  chanShutdown, unblocked, exitSem

tableVars == <<serviceDefs, Tuples, servers, lastHandle>>
chanVars == <<chanPc, ports, chanShutdown, unblocked, exitSem>>
clientVars == <<inbox, known>>
srvVars == <<tableVars, connPc, request, newAddr, clientVars, hostNames, chanVars>>

SrvInit ==
  /\ serviceDefs = <<>> /\ Tuples = [i \in 1 .. MaxTuples |-> FreeTuple]
  /\ servers = {} /\ lastHandle = 0
  /\ connPc = [t \in ConnTasks |-> "none"] /\ request = [t \in ConnTasks |-> NoRequest]
  /\ newAddr = [t \in ConnTasks |-> 0]
  /\ inbox = [t \in ConnTasks |-> <<>>]
  /\ known = [t \in ConnTasks |-> {}] /\ hostNames = {}
  /\ chanPc = [c \in Channels |-> "none"] /\ ports = {}
  /\ chanShutdown = [c \in Channels |-> FALSE] /\ unblocked = [c \in Channels |-> FALSE]
  /\ exitSem = [c \in Channels |-> 0]

ConnGoto(t, pc) == connPc' = [connPc EXCEPT ![t] = pc]
ChanGoto(c, pc) == chanPc' = [chanPc EXCEPT ![c] = pc]

-----------------------------------------------------------------------------
(* The service manager                                                     *)

\* ServiceMgr_register: the first slot that is not taken.
ServiceRegister(name) ==
  serviceDefs' = IF Len(serviceDefs) < NumDefs THEN Append(serviceDefs, name) ELSE serviceDefs

FreeSlots == {i \in 1 .. MaxTuples : Tuples[i] = FreeTuple}

\* (mutant) the slot is not looked for.
StoreTupleOver(key, value) ==
  Tuples' = [Tuples EXCEPT ![1] = [key |-> key, value |-> value]]

\* storeTuple searches and fills in one step: it cannot block in between, and
\* without SMP a task of equal priority does not run.
StoreTuple(key, value) ==
  LET i == CHOOSE k \in FreeSlots : \A j \in FreeSlots : k <= j IN
  Tuples' = [Tuples EXCEPT ![i] = [key |-> key, value |-> value]]

Found(key) == {i \in 1 .. MaxTuples : Tuples[i].key = key /\ key # 0}

\* The answer; who is told of a new service is connected to it.
Respond(t, status, addr) ==
  /\ known' = [known EXCEPT ![t] =
       IF request[t].op = "conn" /\ status = "success" THEN @ \cup {addr} ELSE @]
  /\ request' = [request EXCEPT ![t] = NoRequest]
  /\ ConnGoto(t, "loop")

\* MessageQCopy_create takes the highest endpoint that is free.
Open == Endpoints \ {s.endpt : s \in servers}

(* createService: RcmServer_create.  A failure leaves *endpt as it was,    *)
(* which for OmxSrvMgr is the address in its last answer.                  *)
CreateRefused(t) ==
  /\ connPc[t] = "serve" /\ request[t].op = "conn"
  /\ Respond(t, IF request[t].name \in Range(serviceDefs) THEN "fail" ELSE "notsupp", newAddr[t])
  /\ UNCHANGED <<tableVars, newAddr, inbox, hostNames, chanVars>>

CreateServer(t) ==
  /\ connPc[t] = "serve" /\ request[t].op = "conn"
  /\ request[t].name \in Range(serviceDefs) /\ lastHandle < MaxServers
  /\ Open # {}
  /\ LET e == CHOOSE x \in Open : \A y \in Open : y <= x IN
     /\ servers' = servers \cup {[handle |-> lastHandle + 1, endpt |-> e, started |-> FALSE]}
     /\ newAddr' = [newAddr EXCEPT ![t] = e]
  /\ lastHandle' = lastHandle + 1
  /\ ConnGoto(t, "store")
  /\ UNCHANGED <<serviceDefs, Tuples, request, clientVars, hostNames, chanVars>>

(* storeTuple and RcmServer_start.  Without a free tuple the server is     *)
(* deleted before it has been started, which never returns.                *)
CreateStore(t) ==
  /\ connPc[t] = "store"
  /\ LET s == CHOOSE x \in servers : x.endpt = newAddr[t] IN
     IF FreeSlots = {}
     THEN ConnGoto(t, "hung") /\ UNCHANGED <<Tuples, servers, request, known>>
     ELSE /\ StoreTuple(newAddr[t], s.handle)
          /\ servers' = (servers \ {s}) \cup {[s EXCEPT !.started = TRUE]}
          /\ Respond(t, "success", newAddr[t])
  /\ UNCHANGED <<serviceDefs, lastHandle, newAddr, inbox, hostNames, chanVars>>

\* deleteService; OmxSrvMgr sends no answer, which tells its client nothing new.
DeleteNotFound(t) ==
  /\ connPc[t] = "serve" /\ request[t].op = "disc" /\ Found(request[t].addr) = {}
  /\ Respond(t, "fail", request[t].addr)
  /\ UNCHANGED <<tableVars, newAddr, inbox, hostNames, chanVars>>

\* (mutant) the tuple that was found is not freed.
RemoveTupleNot(i) == UNCHANGED Tuples

\* removeTuple frees the one that it has found.
RemoveTuple(i) == Tuples' = [Tuples EXCEPT ![i] = FreeTuple]

\* The functions that the user may have for a disconnection (srvDelCB before,
\* ServiceMgr_disconnectUserFxn after it) are not in the model: they are taken to
\* leave the services alone.
DeleteRemove(t) ==
  /\ connPc[t] = "serve" /\ request[t].op = "disc"
  /\ \E i \in Found(request[t].addr) :
       /\ \A j \in Found(request[t].addr) : i <= j
       /\ RemoveTuple(i)
  /\ ConnGoto(t, "delete")
  /\ UNCHANGED <<serviceDefs, servers, lastHandle, request, newAddr, clientVars, hostNames, chanVars>>

\* RcmServer_delete: it waits for the threads of the server.
DeleteServer(t) ==
  /\ connPc[t] = "delete"
  /\ servers' = {s \in servers : s.endpt # request[t].addr}
  /\ Respond(t, "success", request[t].addr)
  /\ UNCHANGED <<serviceDefs, Tuples, lastHandle, newAddr, inbox, hostNames, chanVars>>

-----------------------------------------------------------------------------
(* The tasks                                                               *)

\* OmxSrvMgr_Module_startup registers the task, ServiceMgr_start creates it.
SrvStart ==
  /\ connPc["omx"] = "none"
  /\ ConnGoto("omx", "announce")
  /\ UNCHANGED <<tableVars, request, newAddr, clientVars, hostNames, chanVars>>

\* NameMap_register
Announce(t) ==
  /\ connPc[t] = "announce"
  /\ hostNames' = hostNames \cup {t}
  /\ ConnGoto(t, "loop")
  /\ UNCHANGED <<tableVars, request, newAddr, clientVars, chanVars>>

Down(t) == t \in Channels /\ chanShutdown[t]

\* MessageQCopy_recv: with a message, or because it is unblocked.
Receive(t) ==
  /\ connPc[t] = "loop" /\ ~Down(t) /\ inbox[t] # <<>>
  /\ ~(t \in Channels /\ unblocked[t])
  /\ request' = [request EXCEPT ![t] = Head(inbox[t])]
  /\ inbox' = [inbox EXCEPT ![t] = Tail(@)]
  /\ newAddr' = [newAddr EXCEPT ![t] = IF t = "omx" THEN @ ELSE 0]
  /\ ConnGoto(t, "serve")
  /\ UNCHANGED <<tableVars, known, hostNames, chanVars>>

\* OmapRpc answers a query; other messages are refused, and answered as well.
ServeOther(t) ==
  /\ connPc[t] = "serve" /\ request[t].op \in {"query", "other"}
  /\ Respond(t, IF request[t].op = "query" /\ t # "omx" THEN "success" ELSE "notsupp", 0)
  /\ UNCHANGED <<tableVars, newAddr, inbox, hostNames, chanVars>>

\* The loop ends when the channel is shut down: NameMap_unregister,
Leave(c) ==
  /\ connPc[c] = "loop" /\ chanShutdown[c]
  /\ hostNames' = hostNames \ {c}
  /\ ConnGoto(c, "signal")
  /\ UNCHANGED <<tableVars, request, newAddr, clientVars, chanVars>>

\* and the signal to the owner.
SignalExit(c) ==
  /\ connPc[c] = "signal"
  /\ exitSem' = [exitSem EXCEPT ![c] = @ + 1]
  /\ ConnGoto(c, "none")
  /\ UNCHANGED <<tableVars, request, newAddr, clientVars, hostNames, chanPc, ports,
                 chanShutdown, unblocked>>

-----------------------------------------------------------------------------
(* OmapRpc_createChannel: what may fail are the endpoint, the semaphore    *)
(* and the task.                                                           *)
CreateChannel(c) ==
  /\ chanPc[c] = "none"
  /\ ServiceRegister(c)
  /\ chanShutdown' = [chanShutdown EXCEPT ![c] = FALSE]
  /\ ChanGoto(c, IF Len(serviceDefs) < NumDefs THEN "msgq" ELSE "deaf")
  /\ UNCHANGED <<Tuples, servers, lastHandle, connPc, request, newAddr, clientVars,
                 hostNames, ports, unblocked, exitSem>>

ChanMsgQ(c) ==
  /\ chanPc[c] = "msgq"
  /\ IF c \in ports THEN ChanGoto(c, "none") /\ UNCHANGED <<ports, unblocked>>
     ELSE /\ ports' = ports \cup {c} /\ unblocked' = [unblocked EXCEPT ![c] = FALSE]
          /\ ChanGoto(c, "sem")
  /\ UNCHANGED <<tableVars, connPc, request, newAddr, clientVars, hostNames, chanShutdown, exitSem>>

\* Without its semaphore a channel is given up, and its endpoint stays open.
ChanSem(c) ==
  /\ chanPc[c] = "sem"
  /\ exitSem' = [exitSem EXCEPT ![c] = 0]
  /\ \/ ChanGoto(c, "task") /\ UNCHANGED <<chanShutdown, unblocked>>
     \/ /\ ChanGoto(c, "none")
        /\ chanShutdown' = [chanShutdown EXCEPT ![c] = TRUE]
        /\ unblocked' = [unblocked EXCEPT ![c] = TRUE]
  /\ UNCHANGED <<tableVars, connPc, request, newAddr, clientVars, hostNames, ports>>

\* Without its task it waits for ever for the task's signal.
ChanTask(c) ==
  /\ chanPc[c] = "task"
  /\ \/ ChanGoto(c, "open") /\ ConnGoto(c, "announce") /\ UNCHANGED <<chanShutdown, unblocked>>
     \/ /\ ChanGoto(c, "hung") /\ UNCHANGED connPc
        /\ chanShutdown' = [chanShutdown EXCEPT ![c] = TRUE]
        /\ unblocked' = [unblocked EXCEPT ![c] = TRUE]
  /\ UNCHANGED <<tableVars, request, newAddr, clientVars, hostNames, ports, exitSem>>

\* (mutant) the task is not told why it is unblocked.
DeleteChannelOnly(c) ==
  /\ chanPc[c] = "open"
  /\ ChanGoto(c, "unblock")
  /\ UNCHANGED <<tableVars, connPc, request, newAddr, clientVars, hostNames, ports, chanShutdown,
                 unblocked, exitSem>>

\* OmapRpc_deleteChannel, of one that has a task,
DeleteChannel(c) ==
  /\ chanPc[c] = "open"
  /\ chanShutdown' = [chanShutdown EXCEPT ![c] = TRUE]
  /\ ChanGoto(c, "unblock")
  /\ UNCHANGED <<tableVars, connPc, request, newAddr, clientVars, hostNames, ports,
                 unblocked, exitSem>>

DeleteUnblock(c) ==
  /\ chanPc[c] = "unblock"
  /\ unblocked' = [unblocked EXCEPT ![c] = TRUE]
  /\ ChanGoto(c, "wait")
  /\ UNCHANGED <<tableVars, connPc, request, newAddr, clientVars, hostNames, ports,
                 chanShutdown, exitSem>>

DeleteFree(c) ==
  /\ chanPc[c] = "wait" /\ exitSem[c] > 0
  /\ exitSem' = [exitSem EXCEPT ![c] = 0]
  /\ ports' = ports \ {c} /\ inbox' = [inbox EXCEPT ![c] = <<>>]
  /\ connPc' = [connPc EXCEPT ![c] = "none"]
  /\ ChanGoto(c, "none")
  /\ UNCHANGED <<tableVars, request, newAddr, known, hostNames, chanShutdown, unblocked>>

\* and of one that had no room among the services, and so has nothing.
DeleteDeaf(c) ==
  /\ chanPc[c] = "deaf"
  /\ ChanGoto(c, "none")
  /\ UNCHANGED <<tableVars, connPc, request, newAddr, clientVars, hostNames, ports,
                 chanShutdown, unblocked, exitSem>>

-----------------------------------------------------------------------------
(* The host: one client at each task, with one request at a time.  It      *)
(* gives up the services that it knows, and no others.                     *)
Asks(t) ==
  [op : {"conn"}, name : Channels, addr : {0}]
    \cup [op : {"disc"}, name : {NoService}, addr : known[t] \cup {0}]
    \cup [op : {IF t = "omx" THEN "other" ELSE "query"}, name : {NoService}, addr : {0}]

HostAsk(t, r) ==
  /\ t \in hostNames /\ (t \in Channels => t \in ports)
  /\ inbox[t] = <<>> /\ request[t] = NoRequest
  /\ inbox' = [inbox EXCEPT ![t] = <<r>>]
  /\ known' = [known EXCEPT ![t] = @ \ {r.addr}]
  /\ UNCHANGED <<tableVars, connPc, request, newAddr, hostNames, chanVars>>

-----------------------------------------------------------------------------
ConnStep(t) ==
  \/ Announce(t) \/ Receive(t) \/ ServeOther(t)
  \/ CreateRefused(t) \/ CreateServer(t) \/ CreateStore(t)
  \/ DeleteNotFound(t) \/ DeleteRemove(t) \/ DeleteServer(t)
  \/ t \in Channels /\ (Leave(t) \/ SignalExit(t))

Deleting(c) == DeleteUnblock(c) \/ DeleteFree(c)

SrvNext ==
  \/ SrvStart
  \/ \E t \in ConnTasks :
       ConnStep(t) \/ \E r \in Asks(t) : HostAsk(t, r)
  \/ \E c \in Channels :
       \/ CreateChannel(c) \/ ChanMsgQ(c) \/ ChanSem(c) \/ ChanTask(c)
       \/ DeleteChannel(c) \/ Deleting(c) \/ DeleteDeaf(c)

SrvSpec == SrvInit /\ [][SrvNext]_srvVars

\* Every task gets its turn.
ConnRuns(t) == ConnStep(t) \/ (t \in Channels /\ Deleting(t))

SrvTypeOK ==
  /\ Range(serviceDefs) \subseteq Channels /\ Len(serviceDefs) <= NumDefs
  /\ \A i \in 1 .. MaxTuples : Tuples[i].key \in Endpoints \cup {0}
  /\ \A s \in servers : s.handle \in 1 .. lastHandle /\ s.endpt \in Endpoints
  /\ connPc \in [ConnTasks -> {"none", "announce", "loop", "serve", "store", "delete", "signal"}]
  /\ hostNames \subseteq ConnTasks /\ ports \subseteq Channels
  /\ exitSem \in [Channels -> 0 .. 1]

(* A service that a client was told of is there, belongs to no other client  *)
(* and has the one tuple by which it can be taken down; a tuple names a      *)
(* server that runs, at the address it is stored under (createService,       *)
(* deleteService).  Tasks create and delete in between.                      *)
TuplesNameServers ==
  /\ \A t \in ConnTasks : \A a \in known[t] :
       /\ Cardinality(Found(a)) = 1
       /\ \A u \in ConnTasks \ {t} : a \notin known[u]
  /\ \A i \in 1 .. MaxTuples \ FreeSlots :
       \E s \in servers : s.started /\ s.endpt = Tuples[i].key /\ s.handle = Tuples[i].value

(* What the host may connect to is open: a channel takes its name back       *)
(* before its endpoint goes (omapRpcTask, deleteChannel).                    *)
NamesAreOpen == hostNames \cap Channels \subseteq ports

(* deleteChannel of a channel that could be created returns, whatever the    *)
(* channel's task is doing when it is shut down.                             *)
ChannelDeleteReturns(c) == chanPc[c] = "unblock" ~> chanPc[c] = "none"

(* Clients and host know of no service, server or channel that is not there. *)
ServicesAreKnown == SrvTypeOK /\ TuplesNameServers /\ NamesAreOpen
=============================================================================
