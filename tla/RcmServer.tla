----------------------------- MODULE RcmServer -----------------------------
(***************************************************************************)
(* One instance of RcmServer: the server thread, the worker pools with     *)
(* their ready queues, the job streams, and the end of the instance.       *)
(* RcmSymbols.tla has the function tables.                                 *)
(*                                                                         *)
(* Both bindings of the source are here.  With MessageQCopy (what          *)
(* RcmTypes.h selects) the server thread receives every message in one     *)
(* buffer, so that nothing may be queued and there are no workers ("This   *)
(* packet cannot be placed on RCMServer job queues", RcmTypes.h); with     *)
(* MessageQ a message has a packet of its own.                             *)
(*                                                                         *)
(* Clients and transport are external: a message is what the server thread *)
(* takes from the queue, numbered as it comes; a message function returns. *)
(* An answer is what is handed to the transport: the code only logs that a *)
(* send has failed.  Two kinds of message are left out, for after them the *)
(* code uses a variable it has not set: a pool id with bit 15 clear        *)
(* (RcmServer.c:1743-1758), and what follows the answer to a DPC with an   *)
(* index that is not valid (1930).                                         *)
(***************************************************************************)
EXTENDS Integers, Sequences, FiniteSets, FiniteSetsExt, SequencesExt

CONSTANTS
    Workers,
    Configs,        \* [copies, poolOf, kinds, max]: the binding; the pool of each
                    \* worker; the messages clients send; bound: how many
    MaxJobId        \* 0xFFFF

Pools == {0, 1}     \* poolMap[0]: the default pool and a static one
NoPool == 2         \* workers not created; an offset beyond poolMap0Len
Discrete == 0       \* RcmClient_DISCRETEJOBID
JobIds == 1 .. MaxJobId
Types == {"msg", "cmd", "dpc", "symIdx", "jobAcq", "jobRel", "other"}
Statuses == {"success", "invalidFxn", "symbolNotFound", "msgFxnErr", "error",
             "unprocessed", "jobNotFound", "poolNotFound", "notSet"}

Kinds == [type : Types, pool : Pools \cup {NoPool}, job : JobIds \cup {Discrete},
          fxn : {"ok", "fails", "invalid"}]

ASSUME RcmServerAssumption ==
  /\ MaxJobId \in Nat \ {0} /\ IsFiniteSet(Workers)
  /\ \A c \in Configs :
       /\ c.copies \in BOOLEAN /\ c.poolOf \in [Workers -> Pools \cup {NoPool}]
       /\ c.kinds \subseteq Kinds /\ c.max \in Nat
       /\ c.copies => \A w \in Workers : c.poolOf[w] = NoPool

VARIABLES
    config,
    msg,            \* the messages the server thread has taken
    answers,        \* the replies to each: their status codes
    stream,         \* the job each was dispatched to, 0 for none
    jobs,           \* obj->jobList: [id, born, empty, msgQue]
    jobId,          \* obj->jobId
    ready, sem,     \* of each pool
    terminate,      \* worker->terminate, of all the workers of a pool
    serverPc, wkPc, wkMsg,
    shutdown,
    finalizing      \* where RcmServer_Instance_finalize_P is

jobVars == <<jobs, jobId>>
poolVars == <<ready, sem>>
wkVars == <<wkPc, wkMsg>>
endVars == <<terminate, shutdown, finalizing>>
serverVars ==
  <<config, msg, answers, stream, jobVars, poolVars, serverPc, wkVars, endVars>>

Of(pool) == {w \in Workers : config.poolOf[w] = pool}

ServerInit ==
  /\ config \in Configs
  /\ msg = <<>> /\ answers = <<>> /\ stream = <<>>
  /\ jobs = <<>> /\ jobId = MaxJobId
  /\ ready = [p \in Pools |-> <<>>] /\ sem = [p \in Pools |-> 0]
  /\ terminate = [p \in Pools |-> FALSE]
  /\ serverPc = "created" /\ shutdown = FALSE /\ finalizing = "no"
  /\ wkPc = [w \in Workers |-> "idle"] /\ wkMsg = [w \in Workers |-> 0]

\* RcmServer_start
Start ==
  /\ serverPc = "created"
  /\ serverPc' = "recv"
  /\ UNCHANGED <<config, msg, answers, stream, jobVars, poolVars, wkVars, endVars>>

-----------------------------------------------------------------------------
(* Job streams *)

\* Where the job is in the list; at most one is found (JobIdsAreUnique).
Find(id) == {i \in DOMAIN jobs : jobs[i].id = id}

IdAfter(n) == ((jobId - 1 + n) % MaxJobId) + 1

\* (mutant) an id in use is not skipped.
FreeIdsAll == JobIds

\* Distances from obj->jobId to an id that is not in use.
FreeIds == {n \in JobIds : Find(IdAfter(n)) = {}}

\* What is being processed: by a worker or in-band.
InProcess ==
  {wkMsg[w] : w \in {v \in Workers : wkPc[v] # "idle"}}
    \cup (IF serverPc = "process" THEN {Len(msg)} ELSE {})

Answer(m, status) == answers' = [answers EXCEPT ![m] = Append(@, status)]

\* RcmServer_acqJobId_P; there may be no memory for the job.
AcquireJob(m) ==
  IF FreeIds = {} THEN Answer(m, "error") /\ UNCHANGED jobVars
  ELSE LET id == IdAfter(Min(FreeIds)) IN
    /\ jobId' = id
    /\ \/ /\ jobs' = Append(jobs, [id |-> id, born |-> m, empty |-> TRUE, msgQue |-> <<>>])
          /\ Answer(m, "success")
       \/ UNCHANGED jobs /\ Answer(m, "error")

\* (mutant) what is left in the queue of the job is thrown away.
ReleaseJobSilently(m) ==
  LET found == Find(msg[m].job) IN
  IF found = {} THEN Answer(m, "jobNotFound") /\ UNCHANGED jobVars
  ELSE /\ Answer(m, "success")
       /\ jobs' = RemoveAt(jobs, Min(found))
       /\ UNCHANGED jobId

\* RcmServer_relJobId_P: the job leaves the list under the gate; what waits in
\* its queue is returned.
ReleaseJob(m) ==
  LET found == Find(msg[m].job) IN
  IF found = {} THEN Answer(m, "jobNotFound") /\ UNCHANGED jobVars
  ELSE LET pending == Range(jobs[Min(found)].msgQue) IN
    /\ answers' = [k \in DOMAIN answers |->
         IF k = m THEN Append(answers[k], "success")
         ELSE IF k \in pending THEN Append(answers[k], "unprocessed") ELSE answers[k]]
    /\ jobs' = RemoveAt(jobs, Min(found))
    /\ UNCHANGED jobId

-----------------------------------------------------------------------------
(* RcmServer_process_P *)
FxnStatus(fxn) ==
  CASE fxn = "ok" -> "success" [] fxn = "fails" -> "msgFxnErr" [] OTHER -> "invalidFxn"

Process(m) ==
  LET k == msg[m] IN
  \/ k.type = "msg" /\ Answer(m, FxnStatus(k.fxn)) /\ UNCHANGED jobVars
  \/ /\ k.type = "cmd"         \* one way, unless there is an error
     /\ IF k.fxn = "ok" THEN UNCHANGED answers ELSE Answer(m, FxnStatus(k.fxn))
     /\ UNCHANGED jobVars
  \/ /\ k.type = "dpc"         \* the answer comes before the call
     /\ Answer(m, IF k.fxn = "invalid" THEN "symbolNotFound" ELSE "notSet")
     /\ UNCHANGED jobVars
  \/ /\ k.type = "symIdx"
     /\ Answer(m, IF k.fxn = "ok" THEN "success" ELSE "symbolNotFound")
     /\ UNCHANGED jobVars
  \/ k.type = "jobAcq" /\ AcquireJob(m)
  \/ k.type = "jobRel" /\ ReleaseJob(m)
  \/ k.type = "other" /\ UNCHANGED <<answers, jobVars>>

-----------------------------------------------------------------------------
(* RcmServer_dispatch_P and RcmServer_getPool_P *)

\* List_put and Semaphore_post.
PutReady(pool, m) ==
  /\ ready' = [ready EXCEPT ![pool] = Append(@, m)]
  /\ sem' = [sem EXCEPT ![pool] = @ + 1]

Rejected(m, status) ==
  /\ answers' = Append(answers, <<status>>) /\ stream' = Append(stream, 0)
  /\ UNCHANGED <<jobs, poolVars>>

\* (mutant) a message goes to the ready queue whatever the job is doing.
DispatchAtOnce(m, k) ==
  /\ k.pool # NoPool /\ answers' = Append(answers, <<>>) /\ PutReady(k.pool, m)
  /\ stream' = Append(stream, IF Find(k.job) = {} THEN 0 ELSE jobs[Min(Find(k.job))].born)
  /\ UNCHANGED jobs

Dispatch(m, k) ==
  \/ k.pool = NoPool /\ Rejected(m, "poolNotFound")
  \/ /\ k.pool # NoPool /\ k.job = Discrete
     /\ answers' = Append(answers, <<>>) /\ stream' = Append(stream, 0)
     /\ PutReady(k.pool, m) /\ UNCHANGED jobs
  \/ /\ k.pool # NoPool /\ k.job # Discrete /\ Find(k.job) = {}
     /\ Rejected(m, "jobNotFound")
  \/ /\ k.pool # NoPool /\ k.job # Discrete /\ Find(k.job) # {}
     /\ LET i == Min(Find(k.job)) IN
        /\ answers' = Append(answers, <<>>) /\ stream' = Append(stream, jobs[i].born)
        /\ IF jobs[i].empty THEN jobs' = [jobs EXCEPT ![i].empty = FALSE] /\ PutReady(k.pool, m)
           ELSE /\ jobs' = [jobs EXCEPT ![i].msgQue = Append(@, m)]
                /\ UNCHANGED poolVars

-----------------------------------------------------------------------------
(* RcmServer_serverThrFxn_P *)

\* In-band if the message is for the default pool and that has no threads.
\* After shutdown the MessageQ binding still takes one message; clients send
\* none for a job any more (see Delete).
ServerTake(k) ==
  /\ serverPc = "recv" /\ Len(msg) < config.max
  /\ shutdown => ~config.copies /\ k.job = Discrete
  /\ msg' = Append(msg, k)
  /\ IF k.pool = 0 /\ Of(0) = {}
     THEN /\ serverPc' = "process"
          /\ answers' = Append(answers, <<>>) /\ stream' = Append(stream, 0)
          /\ UNCHANGED <<jobs, poolVars>>
     ELSE /\ serverPc' = IF shutdown THEN "exited" ELSE "recv"
          /\ Dispatch(Len(msg) + 1, k)
  /\ UNCHANGED <<config, jobId, wkVars, endVars>>

ServerProcess ==
  /\ serverPc = "process"
  /\ Process(Len(msg))
  /\ serverPc' = IF shutdown THEN "exited" ELSE "recv"
  /\ UNCHANGED <<config, msg, stream, poolVars, wkVars, endVars>>

\* shutdown, or a disconnection that the host sends (OMX_DISC_REQ).
ServerExit ==
  /\ serverPc = "recv" /\ (shutdown \/ config.copies)
  /\ serverPc' = "exited"
  /\ UNCHANGED <<config, msg, answers, stream, jobVars, poolVars, wkVars, endVars>>

-----------------------------------------------------------------------------
(* RcmServer_workerThrFxn_P *)
WorkerTake(w, pool) ==
  /\ wkPc[w] = "idle" /\ w \in Of(pool) /\ sem[pool] > 0
  /\ sem' = [sem EXCEPT ![pool] = @ - 1]
  /\ IF terminate[pool] THEN wkPc' = [wkPc EXCEPT ![w] = "exited"] /\ UNCHANGED <<ready, wkMsg>>
     ELSE /\ wkMsg' = [wkMsg EXCEPT ![w] = Head(ready[pool])]
          /\ ready' = [ready EXCEPT ![pool] = Tail(@)]
          /\ wkPc' = [wkPc EXCEPT ![w] = "process"]
  /\ UNCHANGED <<config, msg, answers, stream, jobVars, serverPc, endVars>>

WorkerProcess(w) ==
  /\ wkPc[w] = "process"
  /\ Process(wkMsg[w])
  /\ wkPc' = [wkPc EXCEPT ![w] = IF msg[wkMsg[w]].job = Discrete THEN "idle" ELSE "next"]
  /\ wkMsg' = [wkMsg EXCEPT ![w] = IF msg[@].job = Discrete THEN 0 ELSE @]
  /\ UNCHANGED <<config, msg, stream, poolVars, serverPc, endVars>>

\* The next message of the job goes to the pool it is for, or the job is empty.
NextOfJob(i) ==
  IF jobs[i].msgQue = <<>> THEN jobs' = [jobs EXCEPT ![i].empty = TRUE] /\ UNCHANGED poolVars
  ELSE LET m == Head(jobs[i].msgQue) IN
    jobs' = [jobs EXCEPT ![i].msgQue = Tail(@)] /\ PutReady(msg[m].pool, m)

WorkerNext(w) ==
  /\ wkPc[w] = "next"
  /\ LET found == Find(msg[wkMsg[w]].job) IN
     IF found = {} THEN UNCHANGED <<jobs, poolVars>> ELSE NextOfJob(Min(found))
  /\ wkPc' = [wkPc EXCEPT ![w] = "idle"] /\ wkMsg' = [wkMsg EXCEPT ![w] = 0]
  /\ UNCHANGED <<config, msg, answers, stream, jobId, serverPc, endVars>>

-----------------------------------------------------------------------------
(* RcmServer_delete.  The promise of its caller: the server was started, and  *)
(* no message of a job is queued or being processed ("there should not be     *)
(* any"), since the job list is deleted before the workers are stopped.       *)
JobsAreIdle ==
  /\ \A i \in DOMAIN jobs : jobs[i].empty
  /\ \A w \in Workers : wkMsg[w] # 0 => msg[wkMsg[w]].job = Discrete
  /\ \A p \in Pools : \A m \in Range(ready[p]) : msg[m].job = Discrete

Delete ==
  /\ finalizing = "no" /\ serverPc # "created" /\ JobsAreIdle
  /\ shutdown' = TRUE /\ finalizing' = "joinServer"
  /\ UNCHANGED <<config, msg, answers, stream, jobVars, poolVars, serverPc, wkVars, terminate>>

Place(pool) == IF pool = 0 THEN "joinPool0" ELSE "joinPool1"

\* The workers of a pool are marked, and each gets a post.
TerminatePool(pool) ==
  /\ terminate' = [terminate EXCEPT ![pool] = TRUE]
  /\ sem' = [sem EXCEPT ![pool] = @ + Cardinality(Of(pool))]
  /\ finalizing' = Place(pool)

JoinServer ==
  /\ finalizing = "joinServer" /\ serverPc = "exited"
  /\ jobs' = <<>> /\ TerminatePool(0)
  /\ UNCHANGED <<config, msg, answers, stream, jobId, ready, serverPc, wkVars, shutdown>>

ReturnReady(pool) ==
  answers' = [m \in DOMAIN answers |->
    IF m \in Range(ready[pool]) THEN Append(answers[m], "unprocessed") ELSE answers[m]]

\* All the workers of the pool have exited; its ready queue is returned.
JoinPool(pool) ==
  /\ finalizing = Place(pool) /\ \A w \in Of(pool) : wkPc[w] = "exited"
  /\ ReturnReady(pool)
  /\ ready' = [ready EXCEPT ![pool] = <<>>]
  /\ IF pool = 0 THEN TerminatePool(1)
     ELSE finalizing' = "done" /\ UNCHANGED <<terminate, sem>>
  /\ UNCHANGED <<config, msg, stream, jobVars, serverPc, wkVars, shutdown>>

-----------------------------------------------------------------------------
WorkerStep(w) == (\E p \in Pools : WorkerTake(w, p)) \/ WorkerProcess(w) \/ WorkerNext(w)
DeleteStep == JoinServer \/ \E p \in Pools : JoinPool(p)

ServerNext ==
  \/ Start \/ (\E k \in config.kinds : ServerTake(k)) \/ ServerProcess \/ ServerExit
  \/ \E w \in Workers : WorkerStep(w)
  \/ Delete \/ DeleteStep

(* Threads that can run do, and the server thread that was unblocked ends.  *)
ServerFairness ==
  /\ WF_serverVars(ServerProcess) /\ WF_serverVars(ServerExit /\ shutdown)
  /\ \A w \in Workers : WF_serverVars(WorkerStep(w))
  /\ WF_serverVars(DeleteStep)

ServerSpec == ServerInit /\ [][ServerNext]_serverVars /\ ServerFairness

-----------------------------------------------------------------------------
Queued ==
  (UNION {Range(ready[p]) : p \in Pools}) \cup (UNION {Range(jobs[i].msgQue) : i \in DOMAIN jobs})
Done(m) == m \notin Queued \cup InProcess

\* A command answers errors only, and some types not at all.
Expected(m) == msg[m].type \notin {"cmd", "other"}

ServerTypeOK ==
  /\ config \in Configs /\ msg \in Seq(config.kinds) /\ Len(msg) <= config.max
  /\ answers \in Seq(Seq(Statuses)) /\ Len(answers) = Len(msg)
  /\ stream \in Seq(0 .. config.max) /\ Len(stream) = Len(msg)
  /\ jobId \in JobIds /\ shutdown \in BOOLEAN
  /\ \A i \in DOMAIN jobs :
       /\ jobs[i].id \in JobIds /\ jobs[i].born \in DOMAIN msg
       /\ jobs[i].empty \in BOOLEAN /\ jobs[i].msgQue \in Seq(DOMAIN msg)
  /\ ready \in [Pools -> Seq(DOMAIN msg)] /\ sem \in [Pools -> Nat]
  /\ terminate \in [Pools -> BOOLEAN]
  /\ serverPc \in {"created", "recv", "process", "exited"}
  /\ wkPc \in [Workers -> {"idle", "process", "next", "exited"}]
  /\ wkMsg \in [Workers -> {0} \cup DOMAIN msg]
  /\ finalizing \in {"no", "joinServer", "joinPool0", "joinPool1", "done"}

(* "The server will process all messages for a given job id in sequence"     *)
(* (RcmClient.h:560): one that is dispatched is not begun before those that  *)
(* were dispatched to the same job earlier are done with, whichever pools    *)
(* they are for, if the ids do not come round (65535 acquisitions) while a   *)
(* message of a job that was released is still at work.                      *)
InSequence ==
  \A m, k \in DOMAIN msg :
    (k < m /\ stream[k] = stream[m] /\ stream[m] # 0 /\ m \in InProcess) => Done(k)

(* Through dispatch, workers, the release of a job and the end of the server *)
(* no message is answered twice, and none that expects an answer vanishes    *)
(* from the queues without.                                                  *)
AnsweredOnce ==
  \A m \in DOMAIN msg :
    Len(answers[m]) <= 1 /\ (Done(m) /\ Expected(m) => answers[m] # <<>>)

(* No two jobs in the list have one id, when the counter has come round too. *)
JobIdsAreUnique ==
  \A i, j \in DOMAIN jobs : jobs[i].id = jobs[j].id => i = j

(* A worker that the semaphore lets through finds a message: the branch      *)
(* "ready queue is empty" of workerThrFxn_P is not reached.                  *)
PostPerMessage ==
  \A p \in Pools :
    IF terminate[p] THEN sem[p] >= Cardinality({w \in Of(p) : wkPc[w] # "exited"})
    ELSE sem[p] = Len(ready[p])

(* Every message that was taken is answered, by a function, with an error or *)
(* as unprocessed, if the pools its job depends on have threads.             *)
Served == \A p \in Pools : p = 0 \/ Of(p) # {}
EveryMessageIsAnswered ==
  \A m \in 1 .. Max({c.max : c \in Configs}) :
    (m \in DOMAIN msg /\ Served /\ Expected(m))
      ~> (m \in DOMAIN answers /\ answers[m] # <<>>)

(* RcmServer_delete returns: every worker of every pool gets a post after it *)
(* has been marked, whatever else has been posted and taken.                 *)
DeleteReturns == finalizing = "joinServer" ~> finalizing = "done"

(* The list of jobs and the queues of the pools are kept whole by acquire,   *)
(* release, dispatch and the workers: no id leads to two jobs, and no        *)
(* semaphore lets a worker through for nothing.                              *)
JobsAreKept == ServerTypeOK /\ JobIdsAreUnique /\ PostPerMessage
=============================================================================
