---------------------------- MODULE MCBenchmarks ----------------------------
(***************************************************************************)
(* What the benchmark programs are made of, for TLC: the locks, the        *)
(* barriers the locks guard, the kernels that meet at the barriers, and    *)
(* the programs that need none.  The first two were shown to be a Mutex    *)
(* and a Rendezvous (of which a call may not return); a behaviour is one   *)
(* of the four.                                                            *)
(***************************************************************************)
EXTENDS Barrier, Kernels, HwSpinlock, Multiply

CONSTANTS m3, dsp, t0, t1, d0, Running

\* The barriers of two rounds of floydwarshall's loop with N = 2 rows: none is used
\* twice in a row.
FloydWarshallBarriers == <<0, 1, 2, 1, 2, 0, 1, 2, 1, 2>>

\* The kernels whose barriers order their accesses.
Ordered == {"histo", "dotproduct", "doitgen", "matmul"}
\* The kernels that do not bring both M3 tasks and the DSP together.
Unordered == {"edgedetect", "regdetect", "floydwarshall"}

\* Two tasks of the M3, one of the DSP.
ImageOfTask == [t \in Tasks |-> IF t = d0 THEN dsp ELSE m3]

\* Lock 4 guards the barriers of the kernels, lock 5 the sum of the dot product.
BarrierLock == INSTANCE Mutex WITH holder <- HolderOf(4), NoOne <- Nobody
SumLock == INSTANCE Mutex WITH holder <- HolderOf(5), NoOne <- Nobody

\* A lock has one holder among all the tasks of all the images, from the read
\* that takes the register to the write that frees it.
ImplementsMutex == BarrierLock!MSpec /\ SumLock!MSpec

VARIABLE part

benchVars == <<part, vars, kernelVars, lockVars, mpVars>>

BenchInit ==
    /\ part \in Running
    /\ Init /\ KernelInit /\ LockInit /\ MpInit
    /\ part # "kernel" => kernel = CHOOSE k \in Kernels : TRUE

BenchNext ==
    \/ part = "barrier" /\ Next /\ UNCHANGED <<part, kernelVars, lockVars, mpVars>>
    \/ part = "kernel" /\ KernelNext /\ UNCHANGED <<part, vars, lockVars, mpVars>>
    \/ part = "lock" /\ LockNext /\ UNCHANGED <<part, vars, kernelVars, mpVars>>
    \/ part = "multiply" /\ MpNext /\ UNCHANGED <<part, vars, kernelVars, lockVars>>

\* The fairness of FairSpec, KernelFairness, LockFairness and MpSpec, for the part that runs.
BenchFairness ==
    /\ \A p \in Participants : WF_vars(part = "barrier" /\ Step(p))
    /\ WF_kernelVars(part = "kernel" /\ CreateTasks)
    /\ WF_kernelVars(part = "kernel" /\ Return)
    /\ \A t \in Threads : WF_kernelVars(part = "kernel" /\ KernelStep(t))
    /\ \A t \in Tasks : WF_lockVars(part = "lock" /\ Inner(t))
    /\ WF_mpVars(part = "multiply" /\ MpRuns)

BenchSpec == BenchInit /\ [][BenchNext]_benchVars /\ BenchFairness

-----------------------------------------------------------------------------
\* What the kernels compute is computed from what it is to be computed from; the
\* barriers and the programs without them (for which there is ProductIsWhole) keep to
\* their types.
ResultsAreGood == KernelIsOrdered /\ TypeOK /\ MpTypeOK

\* Every part comes to its end: calls of barriers return, none being used twice in
\* a row; fxnTest1 does, unless one was and a participant is left behind in it; locks
\* are freed, and products come.
CallsReturn == EveryCallReturns /\ KernelReturns /\ LocksAreFreed /\ ProductComes
=============================================================================
