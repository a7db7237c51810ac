------------------------------- MODULE Barrier -------------------------------
(***************************************************************************)
(* The sense-reversing barriers the benchmark kernels meet at: callBarrier *)
(* of m3.c and dsp.c, whose counters lie in memory shared by the host, the *)
(* DSP and the M3 and are guarded by a hardware spinlock, and              *)
(* callLocalBarrier of m3.c, the same algorithm between the two tasks of   *)
(* the M3, guarded by a semaphore.                                         *)
(*                                                                         *)
(* Under the lock a participant moves the counter towards the count this   *)
(* use of the barrier waits for and, when it is the last, reverses the     *)
(* sense.  It then waits for the counter outside the lock.                 *)
(***************************************************************************)
EXTENDS Integers, FiniteSets, Sequences

CONSTANTS
    Participants,   \* the callers of one barrier
    NoOne,
    Schedule        \* the barrier of each call, in order, the same for all

ASSUME BarrierAssumption ==
    /\ IsFiniteSet(Participants)
    /\ NoOne \notin Participants
    /\ Schedule \in Seq(Nat)

Total == Cardinality(Participants)
NumCalls == Len(Schedule)
Barriers == {Schedule[i] : i \in 1..NumCalls}
At(n) == Schedule[n + 1]    \* the barrier of the call made after n others

VARIABLES
    counter,    \* barrier_addr[2 * indx], one per barrier
    sense,      \* barrier_addr[2 * indx + 1]: the total, with a sign
    holder,     \* who holds the lock
    pc,         \* where each participant is in callBarrier, "out" outside
    awaited,    \* its local barrier_count
    calls       \* how many of its calls have returned

vars == <<counter, sense, holder, pc, awaited, calls>>

Lock == INSTANCE Mutex WITH Tasks <- Participants

\* The host sets counter and sense before it starts the kernels; main does so
\* for the local barrier.
Init ==
    /\ counter = [b \in Barriers |-> Total]
    /\ sense = [b \in Barriers |-> Total]
    /\ Lock!MInit
    /\ pc = [p \in Participants |-> "out"]
    /\ awaited = [p \in Participants |-> 0]
    /\ calls = [p \in Participants |-> 0]

Goto(p, from, to) == pc[p] = from /\ pc' = [pc EXCEPT ![p] = to]

Enter(p) ==
    /\ calls[p] < NumCalls
    /\ Goto(p, "out", "count")
    /\ Lock!Acquire(p)
    /\ UNCHANGED <<counter, sense, awaited, calls>>

\* (mutant) the last participant starts the counter again for the next use.
CountDownRestart(p, b) ==
    /\ sense[b] > 0
    /\ awaited' = [awaited EXCEPT ![p] = 0]
    /\ counter' = [counter EXCEPT ![b] = IF @ = 1 THEN Total ELSE @ - 1]

\* The sign of sense says which way this use of the barrier counts.
CountDown(p, b) ==
    /\ sense[b] > 0
    /\ awaited' = [awaited EXCEPT ![p] = 0]
    /\ counter' = [counter EXCEPT ![b] = @ - 1]

\* (mutant) counting up waits for one participant less.
CountUpShort(p, b) ==
    /\ ~(sense[b] > 0)
    /\ awaited' = [awaited EXCEPT ![p] = -sense[b] - 1]
    /\ counter' = [counter EXCEPT ![b] = @ + 1]

CountUp(p, b) ==
    /\ ~(sense[b] > 0)
    /\ awaited' = [awaited EXCEPT ![p] = -sense[b]]
    /\ counter' = [counter EXCEPT ![b] = @ + 1]

Count(p) ==
    /\ Goto(p, "count", "flip")
    /\ CountDown(p, At(calls[p])) \/ CountUp(p, At(calls[p]))
    /\ UNCHANGED <<sense, holder, calls>>

\* (mutant) the last participant leaves the sense as it was.
ReversedNever(p) == sense

Reversed(p) ==
    LET b == At(calls[p])
    IN IF counter[b] = awaited[p] THEN [sense EXCEPT ![b] = -@] ELSE sense

Flip(p) ==
    /\ Goto(p, "flip", "unlock")
    /\ sense' = Reversed(p)
    /\ UNCHANGED <<counter, holder, awaited, calls>>

Unlock(p) ==
    /\ Goto(p, "unlock", "spin")
    /\ Lock!Release(p)
    /\ UNCHANGED <<counter, sense, awaited, calls>>

Leave(p) ==
    /\ Goto(p, "spin", "out")
    /\ counter[At(calls[p])] = awaited[p]
    /\ calls' = [calls EXCEPT ![p] = @ + 1]
    /\ UNCHANGED <<counter, sense, holder, awaited>>

Step(p) == Enter(p) \/ Count(p) \/ Flip(p) \/ Unlock(p) \/ Leave(p)

\* A participant that has made all its calls is done with the kernel.
Next == \E p \in Participants : Step(p)

Spec == Init /\ [][Next]_vars

\* Every participant has a processor of its own (the two M3 tasks are pinned to
\* different cores at priority 15), so none stops between two steps.
FairSpec == Spec /\ \A p \in Participants : WF_vars(Step(p))

-----------------------------------------------------------------------------

Inside(p) == pc[p] \in {"flip", "unlock", "spin"}

Arrived(p) == calls[p] + (IF Inside(p) THEN 1 ELSE 0)

\* Everyone has made the call that p is in.
AllArrived(p) == \A q \in Participants : Arrived(q) > calls[p]

\* Types and ranges: the counter stays between nobody and everybody, and sense
\* is the total in either direction.
TypeOK ==
    /\ counter \in [Barriers -> 0..Total]
    /\ sense \in [Barriers -> {Total, -Total}]
    /\ holder \in Participants \cup {NoOne}
    /\ pc \in [Participants -> {"out", "count", "flip", "unlock", "spin"}]
    /\ awaited \in [Participants -> {0, Total}]
    /\ calls \in [Participants -> 0..NumCalls]

\* A participant waiting in a barrier that everybody has reached finds the
\* counter at the value it waits for, however far the others have gone since:
\* the `while (barrier_addr[real_indx] != barrier_count)` that ends callBarrier
\* cannot miss the moment it waits for.  This is for schedules that use no barrier
\* twice in a row; doitgen's loop and callLocalBarrier do (m3.c:294, 316), and may.
ReleaseIsNotMissed ==
    \A p \in Participants :
        Inside(p) /\ AllArrived(p) => counter[At(calls[p])] = awaited[p]

R == INSTANCE Rendezvous
        WITH arrived <- [p \in Participants |-> Arrived(p)], left <- calls

\* The barriers are a rendezvous: no call of callBarrier or callLocalBarrier
\* returns before everyone has made it.
ImplementsRendezvous == R!RSpec

\* Every call of callBarrier returns, where no barrier is used twice in a row.
EveryCallReturns ==
    \A p \in Participants : pc[p] # "out" ~> pc[p] = "out"

==============================================================================
