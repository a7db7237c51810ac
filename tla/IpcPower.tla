------------------------------ MODULE IpcPower ------------------------------
(***************************************************************************)
(* Power management of the BIOS images, one per processor: hibernation     *)
(* locks, wake locks, the suspend task, the callbacks around a suspend,    *)
(* and the module's init and exit (pm/IpcPower.c without SMP, and          *)
(* pm/IpcPowerDsp.c, which has no wake locks).  Power_suspend of SYS/BIOS  *)
(* is external: it returns when the processor is woken.                    *)
(***************************************************************************)
EXTENDS Naturals, Sequences, FiniteSets, SequencesExt

CONSTANTS
  Cpus,
  Nodes,            \* [callback, event]: what tasks register
  MaxLocks,         \* bound: locks of a kind held at a time
  MaxPosts,         \* bound: requests that wait
  NoNode            \* the end of the callback list

Events == {"SUSPEND", "RESUME"}

ASSUME IpcPowerAssumption ==
  NoNode \notin Nodes /\ (\A n \in Nodes : n.event \in Events) /\ {MaxLocks, MaxPosts} \subseteq Nat

VARIABLES
  hibLocks,         \* IpcPower_hibLocks[core]
  wakeLocks,        \* refWakeLockCnt
  deepSleep,        \* IpcPower_deepSleep
  semSuspend,       \* IpcPower_semSuspend
  suspPc,           \* where the suspend task is
  node,             \* the node it stands on in callUserFxns
  event,            \* and for which event
  callbackList,     \* IpcPower_callbackList
  curInit,          \* the module is initialised
  exiting,          \* a task is in IpcPower_exit
  standing, called  \* nodes in the list since the walk began; those called

lockCounts == <<hibLocks, wakeLocks, deepSleep>>
walkVars == <<node, event, standing, called>>
powerVars == <<lockCounts, semSuspend, suspPc, walkVars, callbackList, curInit, exiting>>

PowerInit ==
  /\ hibLocks = [c \in Cpus |-> 0] /\ wakeLocks = [c \in Cpus |-> 0]
  /\ deepSleep = [c \in Cpus |-> TRUE]
  /\ semSuspend = [c \in Cpus |-> 0]
  /\ suspPc = [c \in Cpus |-> "pend"]
  /\ node = [c \in Cpus |-> NoNode] /\ event = [c \in Cpus |-> "SUSPEND"]
  /\ callbackList = [c \in Cpus |-> <<>>]
  /\ curInit = [c \in Cpus |-> TRUE] /\ exiting = [c \in Cpus |-> FALSE]
  /\ standing = [c \in Cpus |-> {}] /\ called = [c \in Cpus |-> {}]

-----------------------------------------------------------------------------
(* Locks, taken and given back by tasks with the Hwis off.                 *)
HibernateLock(c) ==
  /\ hibLocks[c] < MaxLocks
  /\ hibLocks' = [hibLocks EXCEPT ![c] = @ + 1]
  /\ UNCHANGED <<wakeLocks, deepSleep, semSuspend, suspPc, walkVars, callbackList, curInit, exiting>>

HibernateUnlock(c) ==
  /\ hibLocks' = [hibLocks EXCEPT ![c] = IF @ > 0 THEN @ - 1 ELSE @]
  /\ UNCHANGED <<wakeLocks, deepSleep, semSuspend, suspPc, walkVars, callbackList, curInit, exiting>>

WakeLock(c) ==
  /\ wakeLocks[c] < MaxLocks
  /\ wakeLocks' = [wakeLocks EXCEPT ![c] = @ + 1]
  /\ deepSleep' = [deepSleep EXCEPT ![c] = FALSE]
  /\ UNCHANGED <<hibLocks, semSuspend, suspPc, walkVars, callbackList, curInit, exiting>>

\* The case falls through into the one that sets deep sleep.
WakeUnlock(c) ==
  /\ wakeLocks' = [wakeLocks EXCEPT ![c] = IF @ > 0 THEN @ - 1 ELSE @]
  /\ deepSleep' = [deepSleep EXCEPT ![c] = @ \/ wakeLocks'[c] = 0]
  /\ UNCHANGED <<hibLocks, semSuspend, suspPc, walkVars, callbackList, curInit, exiting>>

\* IpcPower_canHibernate, with the locks of all processors that sleep together.
CanHibernate(group) == \A c \in group : hibLocks[c] = 0

-----------------------------------------------------------------------------
(* Callbacks                                                               *)
Listed(c) == Range(callbackList[c])

Register(c, n) ==
  /\ n \notin Listed(c)
  /\ callbackList' = [callbackList EXCEPT ![c] = Append(@, n)]
  /\ UNCHANGED <<lockCounts, semSuspend, suspPc, walkVars, curInit, exiting>>

\* The promise of the clients: no node is freed while the walk stands on it.
Unregister(c, n) ==
  /\ node[c] # n
  /\ \E i \in DOMAIN callbackList[c] :
       callbackList[c][i] = n /\ callbackList' = [callbackList EXCEPT ![c] = RemoveAt(@, i)]
  /\ standing' = [standing EXCEPT ![c] = @ \ {n}]
  /\ UNCHANGED <<lockCounts, semSuspend, suspPc, node, event, called, curInit, exiting>>

First(list) == IF list = <<>> THEN NoNode ELSE Head(list)

\* (mutant) the last node is not gone to.
NodeAfterButLast(list, n) ==
  IF \E i \in 1 .. Len(list) - 2 : list[i] = n
  THEN list[1 + CHOOSE i \in 1 .. Len(list) - 2 : list[i] = n] ELSE NoNode

\* node->next
NodeAfter(list, n) ==
  IF \E i \in 1 .. Len(list) - 1 : list[i] = n
  THEN list[1 + CHOOSE i \in 1 .. Len(list) - 1 : list[i] = n] ELSE NoNode

\* callUserFxns begins.
BeginWalk(cs, e) ==
  /\ suspPc' = [c \in Cpus |-> IF c \in cs THEN "walk" ELSE suspPc[c]]
  /\ event' = [c \in Cpus |-> IF c \in cs THEN e ELSE event[c]]
  /\ node' = [c \in Cpus |-> IF c \in cs THEN First(callbackList[c]) ELSE node[c]]
  /\ standing' = [c \in Cpus |->
       IF c \in cs THEN {n \in Listed(c) : n.event = e} ELSE standing[c]]
  /\ called' = [c \in Cpus |-> IF c \in cs THEN {} ELSE called[c]]

\* One node; the function may block, so that other tasks run.
Visit(c) ==
  /\ suspPc[c] = "walk" /\ node[c] # NoNode
  /\ called' = [called EXCEPT ![c] = IF node[c].event = event[c] THEN @ \cup {node[c]} ELSE @]
  /\ node' = [node EXCEPT ![c] = NodeAfter(callbackList[c], node[c])]
  /\ UNCHANGED <<lockCounts, semSuspend, suspPc, event, standing, callbackList, curInit, exiting>>

-----------------------------------------------------------------------------
(* The suspend task                                                        *)

\* IpcPower_suspend: the body, for a caller with other variables to change.
PostSuspend(c) == semSuspend' = [semSuspend EXCEPT ![c] = @ + 1]

Suspend(c) ==
  /\ curInit[c] /\ semSuspend[c] < MaxPosts
  /\ PostSuspend(c)
  /\ UNCHANGED <<lockCounts, suspPc, walkVars, callbackList, curInit, exiting>>

TaskPend(c) ==
  /\ suspPc[c] = "pend" /\ semSuspend[c] > 0
  /\ semSuspend' = [semSuspend EXCEPT ![c] = @ - 1]
  /\ IF curInit[c] THEN BeginWalk({c}, "SUSPEND")
     ELSE suspPc' = [suspPc EXCEPT ![c] = "ended"] /\ UNCHANGED walkVars
  /\ UNCHANGED <<lockCounts, callbackList, curInit, exiting>>

\* The Swi outranks the task: it runs when it is posted.
TaskSleep(c) ==
  /\ suspPc[c] = "walk" /\ event[c] = "SUSPEND" /\ node[c] = NoNode
  /\ suspPc' = [suspPc EXCEPT ![c] = "asleep"]
  /\ UNCHANGED <<lockCounts, semSuspend, walkVars, callbackList, curInit, exiting>>

\* Power_suspend returns, to all the processors that were suspended together.
Wake(group) ==
  /\ \A c \in group : suspPc[c] = "asleep"
  /\ deepSleep' = [c \in Cpus |-> deepSleep[c] \/ (c \in group /\ wakeLocks[c] = 0)]
  /\ BeginWalk(group, "RESUME")
  /\ UNCHANGED <<hibLocks, wakeLocks, semSuspend, callbackList, curInit, exiting>>

TaskLoop(c) ==
  /\ suspPc[c] = "walk" /\ event[c] = "RESUME" /\ node[c] = NoNode
  /\ suspPc' = [suspPc EXCEPT ![c] = IF curInit[c] THEN "pend" ELSE "ended"]
  /\ UNCHANGED <<lockCounts, semSuspend, walkVars, callbackList, curInit, exiting>>

-----------------------------------------------------------------------------
(* The last IpcPower_exit, and the first IpcPower_init after it.           *)
ExitCall(c) ==
  /\ curInit[c]
  /\ curInit' = [curInit EXCEPT ![c] = FALSE]
  /\ PostSuspend(c)
  /\ exiting' = [exiting EXCEPT ![c] = TRUE]
  /\ UNCHANGED <<lockCounts, suspPc, walkVars, callbackList>>

ExitReturn(c) ==
  /\ exiting[c] /\ suspPc[c] = "ended"
  /\ exiting' = [exiting EXCEPT ![c] = FALSE]
  /\ UNCHANGED <<lockCounts, semSuspend, suspPc, walkVars, callbackList, curInit>>

InitAgain(c) ==
  /\ ~curInit[c] /\ ~exiting[c]
  /\ curInit' = [curInit EXCEPT ![c] = TRUE]
  /\ hibLocks' = [hibLocks EXCEPT ![c] = 0] /\ wakeLocks' = [wakeLocks EXCEPT ![c] = 0]
  /\ deepSleep' = [deepSleep EXCEPT ![c] = TRUE]
  /\ semSuspend' = [semSuspend EXCEPT ![c] = 0]
  /\ suspPc' = [suspPc EXCEPT ![c] = "pend"]
  /\ UNCHANGED <<walkVars, callbackList, exiting>>

-----------------------------------------------------------------------------
Registering(c) == \E n \in Nodes : Register(c, n) \/ Unregister(c, n)
SuspendTask(c) == TaskPend(c) \/ Visit(c) \/ TaskSleep(c) \/ TaskLoop(c)

\* A processor for itself, with the tasks that use the module.
PowerNext(c) ==
  \/ WakeLock(c) \/ WakeUnlock(c) \/ Registering(c)
  \/ Suspend(c) \/ SuspendTask(c) \/ Wake({c})
  \/ ExitCall(c) \/ ExitReturn(c) \/ InitAgain(c)

PowerSpec ==
  PowerInit /\ [][\/ \E c \in Cpus : PowerNext(c) \/ HibernateLock(c) \/ HibernateUnlock(c)
                 \/ \E group \in SUBSET Cpus : Wake(group)]_powerVars

(* The suspend task has the highest priority; who is asleep is woken, and    *)
(* who waits for the end of the task goes on.                                *)
PowerRuns(c) == SuspendTask(c) \/ Wake({c}) \/ ExitReturn(c)

PowerTypeOK ==
  /\ hibLocks \in [Cpus -> 0 .. MaxLocks] /\ wakeLocks \in [Cpus -> 0 .. MaxLocks]
  /\ deepSleep \in [Cpus -> BOOLEAN] /\ \A c \in Cpus : deepSleep[c] <=> wakeLocks[c] = 0
  /\ semSuspend \in [Cpus -> Nat]
  /\ suspPc \in [Cpus -> {"pend", "walk", "asleep", "ended"}]
  /\ node \in [Cpus -> Nodes \cup {NoNode}] /\ event \in [Cpus -> Events]
  /\ \A c \in Cpus : node[c] # NoNode => node[c] \in Listed(c)
  /\ curInit \in [Cpus -> BOOLEAN] /\ exiting \in [Cpus -> BOOLEAN]

(* Every function that was registered for an event before the walk and is    *)
(* still registered at its end has been called, whatever other tasks have    *)
(* added and removed meanwhile (callUserFxns takes no lock).                 *)
ListenersAreCalled ==
  \A c \in Cpus : (suspPc[c] = "walk" /\ node[c] = NoNode) => standing[c] \subseteq called[c]

(* Suspends and resumes reach all who listen for them, and deep sleep is     *)
(* allowed exactly when nobody holds a wake lock.                            *)
PowerIsSound == PowerTypeOK /\ ListenersAreCalled

(* IpcPower_exit returns, also when it is called while the task is asleep,   *)
(* runs a callback or has requests to serve, unless tasks register functions *)
(* for ever, behind the one that is being called.                            *)
ExitReturns(c) ==
  \/ []<><<\E n \in Nodes : Register(c, n)>>_powerVars
  \/ exiting[c] ~> ~exiting[c]
=============================================================================
