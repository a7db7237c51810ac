------------------------------- MODULE Kernels -------------------------------
(***************************************************************************)
(* The benchmark kernels: one thread on the DSP and the two tasks fxnTest1 *)
(* creates on the M3 work on parts of the same buffers and order their     *)
(* work with callBarrier (the DSP and task 0) and callLocalBarrier (the    *)
(* two tasks).  The host makes the calls of callBarrier as well, which     *)
(* makes the others wait longer and lets them do nothing they could not.   *)
(*                                                                         *)
(* A barrier is the rendezvous it was shown to implement, except that a    *)
(* call need not return: whoever is still inside when the same barrier is  *)
(* used again never sees the counter it waits for (m3.c:294, 316).  The    *)
(* arithmetic of a kernel is reduced to which part of which buffer a piece *)
(* of work needs, in which version, and which it makes.                    *)
(***************************************************************************)
EXTENDS Integers, Sequences, SequencesExt

CONSTANTS
    DSP, Task0, Task1,
    Kernels,        \* the kernels that may be run
    NumIter         \* NUM_ITER

ASSUME KernelsAssumption ==
    /\ Kernels \subseteq {"histo", "dotproduct", "doitgen", "matmul",
                          "edgedetect", "regdetect", "floydwarshall"}
    /\ NumIter \in Nat

Threads == {DSP, Task0, Task1}
M3Tasks == {Task0, Task1}

\* What a thread does: meet the others at callBarrier(b) or callLocalBarrier(),
\* or work.  needs and makes are sets of <<buffer part, version>>.
Global(b) == [op |-> "global", barrier |-> b]
Local == [op |-> "local"]
Work(needs, makes) == [op |-> "work", needs |-> needs, makes |-> makes]

Of(name, t) == <<name, t>>              \* t's part of a buffer
All(name, version) == {<<Of(name, t), version>> : t \in Threads}
Mine(name, t, version) == {<<Of(name, t), version>>}

-----------------------------------------------------------------------------
(* Iteration i of each kernel's loop, as thread t runs it. *)

\* (mutant) the M3 goes to the global barrier before task 1 has its histogram.
HistoEarly(t, i) ==
    LET now == <<i, 0>>
        count == Work({}, Mine("histo", t, now))
        equalize == Work(All("histo", now), Mine("mapping", t, now))
        map(from) == Work(Mine("mapping", from, now), Mine("image", t, now))
    IN CASE t = DSP -> <<Global(0), count, Global(1), equalize, map(DSP)>>
         [] t = Task0 -> <<Global(0), Local, count, Global(1), Local, equalize,
                           Local, map(Task0)>>
         [] t = Task1 -> <<Local, count, Local, Local, map(Task0)>>

Histo(t, i) ==
    LET now == <<i, 0>>
        count == Work({}, Mine("histo", t, now))
        equalize == Work(All("histo", now), Mine("mapping", t, now))
        map(from) == Work(Mine("mapping", from, now), Mine("image", t, now))
    IN CASE t = DSP -> <<Global(0), count, Global(1), equalize, map(DSP)>>
         [] t = Task0 -> <<Global(0), Local, count, Local, Global(1), equalize,
                           Local, map(Task0)>>
         [] t = Task1 -> <<Local, count, Local, Local, map(Task0)>>

\* result is set to 0 by both processors and added to under spinlock 5; a sum
\* must not be added before or while somebody still sets it to 0.
DotProduct(t, i) ==
    LET result == Mine("result", DSP, <<i, 0>>)
        sum == Work({}, Mine("mem", t, <<i, 1>>))
    IN CASE t = DSP ->
              <<Global(0), Work({}, result), Global(1), sum, Work(result, {}),
                Global(2)>>
         [] t = Task0 ->
              <<Global(0),
                Work({}, result \cup UNION {Mine("mem", u, <<i, 0>>) : u \in M3Tasks}),
                Global(1), Local, sum, Local,
                Work(result \cup UNION {Mine("mem", u, <<i, 1>>) : u \in M3Tasks}, {}),
                Global(2)>>
         [] t = Task1 -> <<Local, sum, Local>>

\* doitgen and matmul: the threads' rows are disjoint.
Disjoint(t, i) ==
    LET rows == Work({}, Mine("rows", t, <<i, 0>>))
    IN CASE t = DSP -> <<Global(0), rows>>
         [] t = Task0 -> <<Global(0), Local, rows>>
         [] t = Task1 -> <<Local, rows>>

\* The parts of the image lie in the order Task0, Task1, DSP; a convolution
\* reads one row of each neighbour.
Neighbours(t) ==
    CASE t = Task0 -> {Task0, Task1}
      [] t = Task1 -> Threads
      [] t = DSP -> {Task1, DSP}

EdgeDetect(t, i) ==
    LET near(b, stage) == UNION {Mine(b, u, <<i, stage>>) : u \in Neighbours(t)}
        mine(b, stage) == Mine(b, t, <<i, stage>>)
        initialize == Work({}, mine("b1", 0) \cup mine("b2", 0) \cup mine("b3", 0))
        gauss == Work(near("b1", 0), mine("b3", 1))
        sobel == Work(near("b3", 1), mine("b1", 1) \cup mine("b2", 1))
        threshold == Work(mine("b1", 1) \cup mine("b2", 1), mine("b3", 2))
        meet(b) == CASE t = DSP -> <<Global(b)>>
                     [] t = Task0 -> <<Local, Global(b)>>
                     [] t = Task1 -> <<Local>>
    IN <<initialize>> \o meet(0) \o <<gauss>> \o meet(1) \o <<sobel>> \o meet(2)
         \o <<threshold>>

\* regdetect and floydwarshall: task 0 meets the DSP, then task 1.
MeetFirst(t, barriers) ==
    CASE t = DSP -> barriers
      [] t = Task0 -> Append(barriers, Local)
      [] t = Task1 -> <<Local>>

RegDetect(t, i) ==
    LET now == <<i, 0>>
        mean == Work({}, Mine("mean", t, now))
        tmp == Work(All("mean", now), Mine("tmp", t, now))
        path == Work(All("tmp", now), Mine("path", t, now))
    IN MeetFirst(t, <<Global(0)>>) \o <<mean>> \o MeetFirst(t, <<Global(1)>>)
         \o <<tmp>> \o MeetFirst(t, <<Global(2)>>) \o <<path>>

\* Each thread has one row; relaxing over row k leaves row k as it is, so the
\* version of a row counts the others it was relaxed over.
RowOf(t) == CASE t = DSP -> 0 [] t = Task0 -> 1 [] t = Task1 -> 2

FloydWarshall(t, i) ==
    LET row(r, relaxed) == <<<<"row", r>>, <<i, relaxed>>>>
        r == RowOf(t)
        relax(k) ==
            Work({row(k, k)},
                 IF k = r THEN {} ELSE {row(r, IF k < r THEN k + 1 ELSE k)})
        round(k) == MeetFirst(t, <<Global(1), Global(2)>>) \o <<relax(k)>>
    IN MeetFirst(t, <<Global(0)>>) \o <<Work({}, {row(r, 0)})>>
         \o round(0) \o round(1) \o round(2)

Iteration(k, t, i) ==
    CASE k = "histo" -> Histo(t, i)
      [] k = "dotproduct" -> DotProduct(t, i)
      [] k \in {"doitgen", "matmul"} -> Disjoint(t, i)
      [] k = "edgedetect" -> EdgeDetect(t, i)
      [] k = "regdetect" -> RegDetect(t, i)
      [] k = "floydwarshall" -> FloydWarshall(t, i)

Programs ==
    [k \in Kernels, t \in Threads |->
        FlattenSeq([i \in 1..NumIter |-> Iteration(k, t, i)])]
Program(k, t) == Programs[k, t]

Meetings(k, t, op) == SelectSeq(Program(k, t), LAMBDA s : s.op = op)

\* The rendezvous stands for the barriers only if those who meet there call them
\* in the same order.
ASSUME SameSchedules ==
    \A k \in Kernels :
        /\ Meetings(k, DSP, "global") = Meetings(k, Task0, "global")
        /\ Meetings(k, Task0, "local") = Meetings(k, Task1, "local")

\* The barriers of callBarrier in the order they are called.
Globals == [k \in Kernels |-> Meetings(k, DSP, "global")]

Pieces(k, t) == {step \in Range(Program(k, t)) : step.op = "work"}
Parts ==
    [k \in Kernels |->
        UNION {{m[1] : m \in step.makes} : step \in UNION {Pieces(k, t) : t \in Threads}}]

-----------------------------------------------------------------------------

VARIABLES
    kernel,                 \* the kernel the host has asked for
    at,                     \* how many steps of its program each thread has done
    busy,                   \* who is in the middle of a piece of work
    gArrived, gLeft,        \* the rendezvous at callBarrier
    lArrived, lLeft,        \* the rendezvous at callLocalBarrier
    version,                \* what is in each part of the buffers
    alive,                  \* the threads there are
    events,                 \* the events posted to edgeDetectEvent
    fxn                     \* fxnTest1 on the M3: "create", "pend", "returned"

kernelVars == <<kernel, at, busy, gArrived, gLeft, lArrived, lLeft, version, alive,
          events, fxn>>

G == INSTANCE Rendezvous
        WITH Participants <- {DSP, Task0}, arrived <- gArrived, left <- gLeft
L == INSTANCE Rendezvous
        WITH Participants <- M3Tasks, arrived <- lArrived, left <- lLeft

KernelInit ==
    /\ kernel \in Kernels
    /\ at = [t \in Threads |-> 0]
    /\ busy = {}
    /\ G!RInit /\ L!RInit
    /\ version = [b \in Parts[kernel] |-> <<0, 0>>]
    /\ alive = {DSP}
    /\ events = {}
    /\ fxn = "create"

Done(t) == at[t] = Len(Program(kernel, t))

\* t's next step is a given operation.
NextIs(t, op) ==
    /\ t \in alive /\ ~Done(t)
    /\ Program(kernel, t)[at[t] + 1].op = op

Current(t) == Program(kernel, t)[at[t] + 1]

Advance(t) == at' = [at EXCEPT ![t] = @ + 1]

ArriveGlobal(t) ==
    /\ NextIs(t, "global")
    /\ G!Arrive(t)
    /\ UNCHANGED <<kernel, at, busy, lArrived, lLeft, version, alive, events, fxn>>

\* Another participant is one call ahead, and in the same barrier: the counter
\* has moved on from what t waits for.
GlobalOvertaken(t) ==
    \E u \in {DSP, Task0} :
        /\ gArrived[u] > gArrived[t]
        /\ Globals[kernel][gArrived[u]] = Globals[kernel][gArrived[t]]

\* callLocalBarrier has one barrier for all its calls.
LocalOvertaken(t) == \E u \in M3Tasks : lArrived[u] > lArrived[t]

LeaveGlobal(t) ==
    /\ NextIs(t, "global")
    /\ G!Leave(t)
    /\ ~GlobalOvertaken(t)
    /\ Advance(t)
    /\ UNCHANGED <<kernel, busy, lArrived, lLeft, version, alive, events, fxn>>

ArriveLocal(t) ==
    /\ NextIs(t, "local")
    /\ L!Arrive(t)
    /\ UNCHANGED <<kernel, at, busy, gArrived, gLeft, version, alive, events, fxn>>

LeaveLocal(t) ==
    /\ NextIs(t, "local")
    /\ L!Leave(t)
    /\ ~LocalOvertaken(t)
    /\ Advance(t)
    /\ UNCHANGED <<kernel, busy, gArrived, gLeft, version, alive, events, fxn>>

Begin(t) ==
    /\ NextIs(t, "work") /\ t \notin busy
    /\ busy' = busy \cup {t}
    /\ UNCHANGED <<kernel, at, gArrived, gLeft, lArrived, lLeft, version, alive,
                   events, fxn>>

Makes(t) == Current(t).makes
Written(t) == {m[1] : m \in Makes(t)}

End(t) ==
    /\ t \in busy
    /\ busy' = busy \ {t}
    /\ version' = [b \in DOMAIN version |->
                     IF b \in Written(t)
                     THEN (CHOOSE m \in Makes(t) : m[1] = b)[2]
                     ELSE version[b]]
    /\ Advance(t)
    /\ UNCHANGED <<kernel, gArrived, gLeft, lArrived, lLeft, alive, events, fxn>>

-----------------------------------------------------------------------------
(* The M3 task that executes fxnTest1. *)

EventOf(t) == IF t = Task0 THEN "Event_Id_00" ELSE "Event_Id_01"

\* The last thing common_wrapper does.
Post(t) ==
    /\ t \in alive \cap M3Tasks /\ Done(t) /\ EventOf(t) \notin events
    /\ events' = events \cup {EventOf(t)}
    /\ UNCHANGED <<kernel, at, busy, gArrived, gLeft, lArrived, lLeft, version,
                   alive, fxn>>

\* (mutant) fxnTest1 goes on without the second task.
CreateTasksOne ==
    /\ fxn = "create"
    /\ alive' = alive \cup {Task0}
    /\ fxn' = "pend"
    /\ UNCHANGED <<kernel, at, busy, gArrived, gLeft, lArrived, lLeft, version, events>>

\* Both Task_create succeed: without task0 the M3 aborts; without task1, which
\* the code does not notice, task0 waits for it for ever.
CreateTasks ==
    /\ fxn = "create"
    /\ alive' = alive \cup M3Tasks
    /\ fxn' = "pend"
    /\ UNCHANGED <<kernel, at, busy, gArrived, gLeft, lArrived, lLeft, version, events>>

Awaited == {"Event_Id_00", "Event_Id_01"} \subseteq events

\* Event_pend takes the events; the tasks are then deleted.
Return ==
    /\ fxn = "pend" /\ Awaited
    /\ events' = {}
    /\ alive' = alive \ M3Tasks
    /\ fxn' = "returned"
    /\ UNCHANGED <<kernel, at, busy, gArrived, gLeft, lArrived, lLeft, version>>

KernelStep(t) ==
    ArriveGlobal(t) \/ LeaveGlobal(t) \/ ArriveLocal(t) \/ LeaveLocal(t)
      \/ Begin(t) \/ End(t) \/ Post(t)

KernelNext == CreateTasks \/ Return \/ \E t \in Threads : KernelStep(t)

\* Every thread has a core of its own or, for fxnTest1, one that the tasks leave
\* to it in the end.
KernelFairness ==
    /\ WF_kernelVars(CreateTasks) /\ WF_kernelVars(Return)
    /\ \A t \in Threads : WF_kernelVars(KernelStep(t))

-----------------------------------------------------------------------------

\* Types: programs are followed from the start to the end, and only work that was
\* begun is being done.
KernelTypeOK ==
    /\ kernel \in Kernels
    /\ \A t \in Threads : at[t] \in 0..Len(Program(kernel, t))
    /\ busy \subseteq {t \in Threads : ~Done(t) /\ Current(t).op = "work"}
    /\ DOMAIN version = Parts[kernel]
    /\ alive \subseteq Threads
    /\ events \subseteq {"Event_Id_00", "Event_Id_01"}
    /\ fxn \in {"create", "pend", "returned"}

\* While a thread works, every part of a buffer it needs holds what this piece of
\* work is to read, and nobody else is writing it: the barriers of the kernel
\* order its accesses.
ReadsWhatItNeeds ==
    \A t \in busy : \A n \in Current(t).needs :
        /\ version[n[1]] = n[2]
        /\ \A u \in busy \ {t} : n[1] \notin Written(u)

\* When fxnTest1 has returned on the M3, its tasks have done all their work, and
\* no deleted task was in the middle of it.
ResultsAreComplete ==
    fxn = "returned" => \A t \in M3Tasks : Done(t) /\ t \notin busy

\* Somebody will never see the counter it waits for.
LeftBehind ==
    \E t \in Threads :
        \/ NextIs(t, "global") /\ gLeft[t] < gArrived[t] /\ GlobalOvertaken(t)
        \/ NextIs(t, "local") /\ lLeft[t] < lArrived[t] /\ LocalOvertaken(t)

\* A kernel that has its tasks returns from fxnTest1 on both processors, or a
\* participant was overtaken in a barrier: nothing else stops it (m3.c:294).
KernelReturns == fxn = "pend" ~> (fxn = "returned" /\ Done(DSP)) \/ LeftBehind

\* A kernel reads what it needs and leaves its results complete.
KernelIsOrdered == KernelTypeOK /\ ReadsWhatItNeeds /\ ResultsAreComplete
==============================================================================
