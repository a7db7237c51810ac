--------------------------- MODULE RcmInstances ---------------------------
(***************************************************************************)
(* The life of an instance of RcmClient or RcmServer: what create or       *)
(* construct acquires, one thing after another, what finalize gives back   *)
(* when one of them fails or the instance is deleted, and what finalize    *)
(* touches that was never set up.  The server has the default pool and one *)
(* static pool, with a worker each, and static functions.  MessageQ, memory*)
(* and the system's objects are external: any of them may fail.            *)
(*                                                                         *)
(* An instance is deleted when its users have left it; that the server     *)
(* thread and the workers come to an end is in RcmServer.tla.              *)
(***************************************************************************)
EXTENDS Integers, Sequences, SequencesExt

\* What is acquired, in the order of the code.  "notify" and "heapId" of the
\* client and "poolLimit" of the server are only checks.
ClientLadder ==
  <<"gate", "sync", "msgQue", "errorMsgQue", "serverMsgQ", "notify", "heapId",
    "mbxLock", "queueLock", "recipients", "newMail">>
StaticTable == <<"fxnTab", "fxnNames">>
PoolTable == <<"poolLimit", "poolMap", "poolNames", "sem0", "sem1">>
WorkerThreads == <<"worker0", "thread0", "worker1", "thread1">>
ServerThread == <<"run", "serverQue", "serverThread">>
ServerLadder ==
  <<"gate", "jobList">> \o StaticTable \o PoolTable \o WorkerThreads \o ServerThread

\* What finalize goes through.
ClientFinalize ==
  <<"newMail", "recipients", "queueLock", "mbxLock", "serverMsgQ", "errorMsgQue", "msgQue",
    "sync", "gate">>
PoolsFinalize ==
  <<"thread0", "worker0", "sem0", "thread1", "worker1", "sem1", "poolNames", "poolMap">>
RestFinalize == <<"serverQue", "run", "fxnNames", "fxnTab", "gate">>
ServerFinalize == <<"serverThread", "jobList">> \o PoolsFinalize \o RestFinalize

Ladder(k) == IF k = "client" THEN ClientLadder ELSE ServerLadder
Finalize(k) == IF k = "client" THEN ClientFinalize ELSE ServerFinalize
Checks == {"notify", "heapId", "poolLimit"}
Whole(k) == ToSet(Ladder(k)) \ Checks

VARIABLES
    kind,           \* "client" or "server"
    phase,          \* "none", "init", "built", "finalize", "gone", "wild"
    at,             \* the place in the ladder, or in finalize
    has,            \* what the instance has acquired
    embedded,       \* construct: the memory of the object is the caller's
    memory,         \* the memory of the object is allocated
    failed,         \* what could not be acquired
    notify,         \* the client asks for callbacks
    openFailed      \* MessageQ_open failed with another error than "not found"

instVars == <<kind, phase, at, has, embedded, memory, failed, notify, openFailed>>

InstInit ==
  /\ kind \in {"client", "server"} /\ embedded \in BOOLEAN
  /\ notify \in {FALSE, kind = "client"}
  /\ phase = "none" /\ at = 1 /\ has = {} /\ memory = FALSE
  /\ failed = "nothing" /\ openFailed = FALSE

\* create and construct; create may find no memory for the object.
CreateInstance ==
  /\ phase = "none"
  /\ memory' = ~embedded /\ phase' = "init"
  /\ UNCHANGED <<kind, at, has, embedded, failed, notify, openFailed>>

Thing == Ladder(kind)[at]

\* Instance_init has the next thing; after the last the instance is built.
NextThing ==
  IF at = Len(Ladder(kind)) THEN phase' = "built" /\ at' = 1
  ELSE at' = at + 1 /\ UNCHANGED phase

Acquire ==
  /\ phase = "init" /\ Thing # "notify"
  /\ has' = IF Thing \in Checks THEN has ELSE has \cup {Thing}
  /\ NextThing
  /\ UNCHANGED <<kind, embedded, memory, failed, notify, openFailed>>

\* An error ends init, and what there is is given back.
AcquireFails ==
  /\ phase = "init" /\ Thing # "notify"
  /\ failed' = Thing /\ phase' = "finalize" /\ at' = 1
  /\ UNCHANGED <<kind, has, embedded, memory, notify, openFailed>>

\* The result of MessageQ_open is tested for "not found", and then status, which
\* nobody has set, instead of it.
OpenFails ==
  /\ phase = "init" /\ Thing = "serverMsgQ"
  /\ openFailed' = TRUE /\ NextThing
  /\ UNCHANGED <<kind, has, embedded, memory, failed, notify>>

\* Callbacks are "Not Implemented": init stops there, without an error.
Notify ==
  /\ phase = "init" /\ Thing = "notify"
  /\ IF notify THEN phase' = "built" /\ at' = 1 ELSE NextThing
  /\ UNCHANGED <<kind, has, embedded, memory, failed, notify, openFailed>>

DeleteInstance ==
  /\ phase = "built"
  /\ phase' = "finalize"
  /\ UNCHANGED <<kind, at, has, embedded, memory, failed, notify, openFailed>>

-----------------------------------------------------------------------------
(* Instance_finalize: handles that are NULL are passed over, except that *)
Position(thing) == SelectInSeq(ServerLadder, LAMBDA t : t = thing)

\* poolMap0Len is set: the pools are visited.
PoolsAreCounted == failed = "nothing" \/ Position(failed) > Position("poolLimit")

\* the list of jobs is emptied whether there is one or not, the pools are visited
\* when they are not there or not set up, and a worker is joined whose thread
\* could not be created; the gate is destructed in any case.
Untouched(thing) ==
  CASE thing \in {"jobList", "gate"} -> thing \notin has
    [] thing = "thread0" -> PoolsAreCounted /\ ("sem0" \notin has \/ failed = "thread0")
    [] thing = "thread1" -> PoolsAreCounted /\ ("sem1" \notin has \/ failed = "thread1")
    [] OTHER -> FALSE

\* (mutant) a pool is left with its semaphore.
ReleasesAllBut(thing) == has \ ({thing} \ {"sem1"})

Releases(thing) == has \ {thing}

Release ==
  /\ phase = "finalize" /\ at <= Len(Finalize(kind))
  /\ LET thing == Finalize(kind)[at] IN
     IF Untouched(thing) THEN phase' = "wild" /\ UNCHANGED <<at, has>>
     ELSE has' = Releases(thing) /\ at' = at + 1 /\ UNCHANGED phase
  /\ UNCHANGED <<kind, embedded, memory, failed, notify, openFailed>>

\* create, after an error, and delete free the object.
Finalized ==
  /\ phase = "finalize" /\ at > Len(Finalize(kind))
  /\ memory' = FALSE /\ phase' = "gone"
  /\ UNCHANGED <<kind, at, has, embedded, failed, notify, openFailed>>

InstNext ==
  \/ CreateInstance \/ Acquire \/ AcquireFails \/ OpenFails \/ Notify
  \/ DeleteInstance \/ Release \/ Finalized

InstSpec == InstInit /\ [][InstNext]_instVars

-----------------------------------------------------------------------------
(* What create returns with success has all its parts, but for a client that *)
(* asked for callbacks or could not open the queue of the server.            *)
HandlesAreWhole == phase = "built" => has = Whole(kind) \/ notify \/ openFailed

(* Whatever step of create fails, and when the instance is deleted, all that *)
(* was acquired is given back.                                               *)
NothingLeaks == phase = "gone" => has = {} /\ ~memory

(* Threads are joined before what they use goes: the server thread uses its  *)
(* queue, the run semaphore, the tables, the pools and the list of jobs; a   *)
(* worker its pool and semaphore and the tables (and the list of jobs only   *)
(* for messages of a job, see JobsAreIdle of RcmServer.tla).                 *)
Shared == {"fxnTab", "fxnNames", "poolMap", "gate"}
Uses ==
  [serverThread |-> Shared \cup {"serverQue", "run", "jobList"},
   thread0 |-> Shared \cup {"worker0", "sem0"}, thread1 |-> Shared \cup {"worker1", "sem1"}]
ThreadsGoFirst == \A t \in DOMAIN Uses \cap has : Uses[t] \subseteq has

(* finalize touches what is not there only where a step up to the pools of   *)
(* the server or the creation of a worker's thread failed, or the gate.      *)
WildOnlyThere ==
  phase = "wild" =>
    failed \in {"gate", "jobList", "poolMap", "poolNames", "sem0", "sem1", "thread0", "thread1"}

(* A failed init and finalize give back what was acquired, once, in an order *)
(* that leaves no thread without what it uses.                               *)
InstancesAreSound == HandlesAreWhole /\ NothingLeaks /\ ThreadsGoFirst /\ WildOnlyThere
=============================================================================
