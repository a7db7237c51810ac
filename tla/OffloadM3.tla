----------------------------- MODULE OffloadM3 -----------------------------
(***************************************************************************)
(* Functions that AppM3 has SysM3 run (ipc/rpmsg/OffloadM3.c): a mailbox   *)
(* message posts a semaphore, for which a worker waits, or one of the two  *)
(* tasks that create and delete the workers.                               *)
(*                                                                         *)
(* AppM3's side is not in the repository.  It learns of nothing but the    *)
(* status of its payloads, so that the promise the code relies on is       *)
(* stated in Ask: work is sent while the workers exist (a post to a        *)
(* semaphore that is not there is left out), they are deleted, and the     *)
(* module is initialised again, when no work is out.                       *)
(***************************************************************************)
EXTENDS Naturals

CONSTANTS
  Workers,          \* OFFLOAD_AC_IDX .. OFFLOAD_MM_IDX
  MaxAsks           \* bound: messages that wait for a task

Makers == {"create", "delete"}
Indices == Makers \cup Workers

ASSUME OffloadM3Assumption ==
  MaxAsks \in Nat /\ Workers \cap Makers = {}

VARIABLES
  offCreated,          \* module.created
  offSems, offTasks,      \* which of module.semaphores and module.tasks exist
  offCount,            \* of each semaphore
  offMutex,            \* module.mutex
  offPc,           \* where each task is
  offLeft,         \* an exit has left workers, or parts of them, behind
  offStatus            \* of each payload: "none", "asked" or "done"

offVars == <<offCreated, offSems, offTasks, offCount, offMutex, offPc, offLeft, offStatus>>

OffInit ==
  /\ offCreated = FALSE
  /\ offSems = {} /\ offTasks = {} /\ offCount = [i \in Indices |-> 0]
  /\ offMutex = 0 /\ offPc = [i \in Indices |-> "pend"]
  /\ offLeft = FALSE /\ offStatus = [w \in Workers |-> "none"]

OffGoto(i, pc) == offPc' = [offPc EXCEPT ![i] = pc]

OffloadInit ==
  /\ offSems \cap Makers = {} /\ \A w \in Workers : offStatus[w] # "asked"
  /\ offSems' = offSems \cup Makers /\ offTasks' = offTasks \cup Makers
  /\ offMutex' = 1 /\ offCreated' = FALSE
  /\ UNCHANGED <<offCount, offPc, offLeft, offStatus>>

(* OffloadM3_exit, whatever is asked of its tasks or half created: the       *)
(* workers stay, and so does `created`.  Its caller does not run between two *)
(* steps of the deletion, whose task has the highest priority.               *)
OffloadExit ==
  /\ Makers \subseteq offTasks /\ offPc["delete"] # "sems"
  /\ offSems' = offSems \ Makers /\ offTasks' = offTasks \ Makers
  /\ offCount' = [i \in Indices |-> IF i \in Makers THEN 0 ELSE offCount[i]]
  /\ offPc' = [i \in Indices |-> IF i \in Makers THEN "pend" ELSE offPc[i]]
  /\ offMutex' = 0
  /\ offLeft' = (offLeft \/ Workers \cap (offSems \cup offTasks) # {})
  /\ UNCHANGED <<offCreated, offStatus>>

\* The message of AppM3, and OffloadM3_processSysM3Tasks in SysM3's ISR.
Ask(i) ==
  /\ i \in offSems /\ offCount[i] < MaxAsks
  /\ i \in Workers =>
       /\ offCreated /\ offStatus[i] # "asked"
       /\ offCount["delete"] = 0 /\ offPc["delete"] = "pend"
  /\ i = "delete" => \A w \in Workers : offStatus[w] # "asked"
  /\ offCount' = [offCount EXCEPT ![i] = @ + 1]
  /\ offStatus' = [w \in Workers |-> IF w = i THEN "asked" ELSE offStatus[w]]
  /\ UNCHANGED <<offCreated, offSems, offTasks, offMutex, offPc, offLeft>>

OffPend(i) ==
  /\ i \in offTasks /\ offPc[i] = "pend" /\ offCount[i] > 0
  /\ offCount' = [offCount EXCEPT ![i] = @ - 1]
  /\ OffGoto(i, IF i \in Workers THEN "run" ELSE "enter")
  /\ UNCHANGED <<offCreated, offSems, offTasks, offMutex, offLeft, offStatus>>

\* payload->fxn, which may block, and the status.
WorkerRun(w) ==
  /\ w \in offTasks /\ offPc[w] = "run"
  /\ offStatus' = [offStatus EXCEPT ![w] = "done"]
  /\ OffGoto(w, "pend")
  /\ UNCHANGED <<offCreated, offSems, offTasks, offCount, offMutex, offLeft>>

-----------------------------------------------------------------------------
\* What an exit has left is forgotten when the workers are created again: their
\* handles are overwritten.
MutexEnter(i) ==
  /\ i \in Makers /\ offPc[i] = "enter" /\ offMutex > 0
  /\ offMutex' = offMutex - 1
  /\ OffGoto(i, IF offCreated = (i = "delete") THEN "sems" ELSE "leave")
  /\ IF i = "create" /\ ~offCreated
     THEN offSems' = offSems \ Workers /\ offTasks' = offTasks \ Workers
     ELSE UNCHANGED <<offSems, offTasks>>
  /\ UNCHANGED <<offCreated, offCount, offLeft, offStatus>>

\* One semaphore after the other, then the tasks.
CreateSem(w) ==
  /\ offPc["create"] = "sems" /\ w \notin offSems
  /\ offSems' = offSems \cup {w} /\ offCount' = [offCount EXCEPT ![w] = 0]
  /\ UNCHANGED <<offCreated, offTasks, offMutex, offPc, offLeft, offStatus>>

CreateWorker(w) ==
  /\ offPc["create"] = "sems" /\ Workers \subseteq offSems /\ w \notin offTasks
  /\ offTasks' = offTasks \cup {w} /\ OffGoto(w, "pend")
  /\ UNCHANGED <<offCreated, offSems, offCount, offMutex, offLeft, offStatus>>

DeleteWorker(w) ==
  /\ offPc["delete"] = "sems" /\ w \in offTasks
  /\ offTasks' = offTasks \ {w} /\ offSems' = offSems \ {w}
  /\ UNCHANGED <<offCreated, offCount, offMutex, offPc, offLeft, offStatus>>

\* (mutant) what was created is not noted.
AllMadeOnly(i) ==
  /\ offPc[i] = "sems"
  /\ IF i = "create" THEN Workers \subseteq offTasks ELSE Workers \cap offTasks = {}
  /\ OffGoto(i, "leave")
  /\ UNCHANGED <<offCreated, offSems, offTasks, offCount, offMutex, offLeft, offStatus>>

AllMade(i) ==
  /\ offPc[i] = "sems"
  /\ IF i = "create" THEN Workers \subseteq offTasks ELSE Workers \cap offTasks = {}
  /\ offCreated' = (i = "create")
  /\ OffGoto(i, "leave")
  /\ UNCHANGED <<offSems, offTasks, offCount, offMutex, offLeft, offStatus>>

MutexLeave(i) ==
  /\ offPc[i] = "leave"
  /\ offMutex' = offMutex + 1 /\ OffGoto(i, "pend")
  /\ UNCHANGED <<offCreated, offSems, offTasks, offCount, offLeft, offStatus>>

-----------------------------------------------------------------------------
OffTask(i) ==
  \/ OffPend(i)
  \/ i \in Workers /\ (WorkerRun(i) \/ CreateSem(i) \/ CreateWorker(i) \/ DeleteWorker(i))
  \/ i \in Makers /\ (MutexEnter(i) \/ AllMade(i) \/ MutexLeave(i))

OffNext ==
  \/ OffloadInit \/ OffloadExit
  \/ \E i \in Indices : Ask(i) \/ OffTask(i)

OffSpec == OffInit /\ [][OffNext]_offVars

(* Each worker gets the processor, which the functions of the others leave   *)
(* to it when they block, and its own function returns.                      *)
WorkerRuns(w) == OffPend(w) \/ WorkerRun(w)

OffTypeOK ==
  /\ offCreated \in BOOLEAN /\ offLeft \in BOOLEAN /\ offMutex \in 0 .. 1
  /\ offSems \subseteq Indices /\ offTasks \subseteq Indices
  /\ offCount \in [Indices -> 0 .. MaxAsks]
  /\ offPc \in [Indices -> {"pend", "run", "enter", "sems", "leave"}]
  /\ offStatus \in [Workers -> {"none", "asked", "done"}]

(* Whenever nobody is at it, all workers exist with their semaphores if      *)
(* `created` says so, and none if it does not, or it is those that an exit   *)
(* has left: the create task and the delete task, which has the higher       *)
(* priority and may run at any point of the other, each find the work of the *)
(* other whole (OffloadM3.c:134 and :177), also after another start.         *)
OffloadIsWhole ==
  (\A i \in Makers : offPc[i] \notin {"sems", "leave"}) =>
    /\ offCreated => Workers \subseteq offSems \cap offTasks
    /\ offCreated \/ offLeft \/ Workers \cap (offSems \cup offTasks) = {}

(* What the create and the delete task share is whole and in its range.      *)
OffloadIsSound == OffTypeOK /\ OffloadIsWhole
=============================================================================
