----------------------------- MODULE HwSpinlock -----------------------------
(***************************************************************************)
(* gates/hwspinlock/HwSpinlock.c: locks that exclude tasks of different    *)
(* processors.  Each image keeps its own table of lock objects, counted by *)
(* reference, with a mutex that keeps its own tasks apart; the hardware    *)
(* register decides between the images: a read that returns 0 takes it.    *)
(*                                                                         *)
(* A task creates (or refers to) the lock object, enters it, leaves it and *)
(* deletes its reference, as lock and unlock of m3.c and dsp.c do and, with *)
(* a timeout, the test tasks of hwspinlock_task.c.                         *)
(***************************************************************************)
EXTENDS Naturals, FiniteSets

CONSTANTS
    Images,         \* the programs that share the registers
    Tasks,
    ImageOf,        \* the image each task belongs to
    Locks,          \* lock ids, all in the same word of sharedState
    Nobody

ASSUME HwSpinlockAssumption ==
    /\ ImageOf \in [Tasks -> Images]
    /\ Nobody \notin Tasks \cup Locks
    /\ IsFiniteSet(Tasks)

VARIABLES
    reg,            \* the hardware registers: the ids that are taken
    locks,          \* HwSpinlock_module.locks: which objects exist
    refCnt,         \* their reference counts
    state,          \* the objects whose state is TAKEN
    mutex,          \* the holder of each object's local gate
    sharedState,    \* each image's word of lock bits, exposed to the host
    lockPc,
    handle,         \* the lock a task holds a handle of
    valid,          \* the tasks whose key is valid
    word            \* the word a task is about to write back to sharedState

lockVars == <<reg, locks, refCnt, state, mutex, sharedState, lockPc, handle, valid, word>>

Objects == Images \X Locks
Obj(t) == <<ImageOf[t], handle[t]>>

LockInit ==
    /\ reg = {}
    /\ locks = {}
    /\ refCnt = [o \in Objects |-> 0]
    /\ state = {}
    /\ mutex = [o \in Objects |-> Nobody]
    /\ sharedState = [i \in Images |-> {}]
    /\ lockPc = [t \in Tasks |-> "idle"]
    /\ handle = [t \in Tasks |-> Nobody]
    /\ valid = {}
    /\ word = [t \in Tasks |-> {}]

LockGoto(t, from, to) == lockPc[t] = from /\ lockPc' = [lockPc EXCEPT ![t] = to]

-----------------------------------------------------------------------------
\* HwSpinlock_create, under the system gate.

\* (mutant) a task that finds the object in the table is not counted.
ReferencesOnce(o) == 1

References(o) == IF o \in locks THEN refCnt[o] + 1 ELSE 1

StateFor(o) == IF o \in locks THEN state ELSE state \ {o}

Create(t, l) ==
    LET o == <<ImageOf[t], l>>
    IN  /\ LockGoto(t, "idle", "outside")
        /\ locks' = locks \cup {o}
        /\ refCnt' = [refCnt EXCEPT ![o] = References(o)]
        /\ state' = StateFor(o)
        /\ mutex' = IF o \in locks THEN mutex ELSE [mutex EXCEPT ![o] = Nobody]
        /\ handle' = [handle EXCEPT ![t] = l]
        /\ UNCHANGED <<reg, sharedState, valid, word>>

-----------------------------------------------------------------------------
\* HwSpinlock_enter.

EnterMutex(t) ==
    /\ LockGoto(t, "outside", "try")
    /\ mutex[Obj(t)] = Nobody
    /\ mutex' = [mutex EXCEPT ![Obj(t)] = t]
    /\ UNCHANGED <<reg, locks, refCnt, state, sharedState, handle, valid, word>>

\* (mutant) the register is written without being read.
TakeRegUntested(t) ==
    /\ LockGoto(t, "try", "taken")
    /\ reg' = reg \cup {handle[t]}
    /\ UNCHANGED <<locks, refCnt, state, mutex, sharedState, handle, valid, word>>

\* The read of the register that finds it free takes it.
TakeReg(t) ==
    /\ LockGoto(t, "try", "taken")
    /\ handle[t] \notin reg
    /\ reg' = reg \cup {handle[t]}
    /\ UNCHANGED <<locks, refCnt, state, mutex, sharedState, handle, valid, word>>

\* The register is taken by a task of another image: give up the mutex, try
\* again or, with a timeout, return E_TIMEOUT.
MutexGiven(t) == [mutex EXCEPT ![Obj(t)] = Nobody]

\* (mutant) the timeout is looked at before the mutex is given up.
BackEarly(t) ==
    /\ handle[t] \in reg
    /\ \/ LockGoto(t, "try", "outside") /\ mutex' = MutexGiven(t) /\ UNCHANGED valid
       \/ LockGoto(t, "try", "left") /\ valid' = valid \ {t} /\ UNCHANGED mutex
    /\ UNCHANGED <<reg, locks, refCnt, state, sharedState, handle, word>>

Back(t) ==
    /\ handle[t] \in reg
    /\ \/ LockGoto(t, "try", "outside") /\ UNCHANGED valid
       \/ LockGoto(t, "try", "left") /\ valid' = valid \ {t}
    /\ mutex' = MutexGiven(t)
    /\ UNCHANGED <<reg, locks, refCnt, state, sharedState, handle, word>>

MarkTaken(t) ==
    /\ LockGoto(t, "taken", "set")
    /\ state' = state \cup {Obj(t)}
    /\ valid' = valid \cup {t}
    /\ UNCHANGED <<reg, locks, refCnt, mutex, sharedState, handle, word>>

\* _HwSpinlock_set and _HwSpinlock_clr: one word is read, changed and written.
ReadWord(t, from, to) ==
    /\ LockGoto(t, from, to)
    /\ word' = [word EXCEPT ![t] = sharedState[ImageOf[t]]]
    /\ UNCHANGED <<reg, locks, refCnt, state, mutex, sharedState, handle, valid>>

WriteWord(t, from, to, w) ==
    /\ LockGoto(t, from, to)
    /\ sharedState' = [sharedState EXCEPT ![ImageOf[t]] = w]
    /\ word' = [word EXCEPT ![t] = {}]
    /\ UNCHANGED <<reg, locks, refCnt, state, mutex, handle, valid>>

SetRead(t) == ReadWord(t, "set", "setting")
SetWrite(t) == WriteWord(t, "setting", "inside", word[t] \cup {handle[t]})

-----------------------------------------------------------------------------
\* HwSpinlock_leave, which does nothing without a valid key.

CanLeave(t) == Obj(t) \in state /\ t \in valid

ClearReg(t) ==
    /\ LockGoto(t, "inside", IF CanLeave(t) THEN "freed" ELSE "left")
    /\ reg' = IF CanLeave(t) THEN reg \ {handle[t]} ELSE reg
    /\ UNCHANGED <<locks, refCnt, state, mutex, sharedState, handle, valid, word>>

MarkFree(t) ==
    /\ LockGoto(t, "freed", "clear")
    /\ state' = state \ {Obj(t)}
    /\ UNCHANGED <<reg, locks, refCnt, mutex, sharedState, handle, valid, word>>

ClearRead(t) == ReadWord(t, "clear", "clearing")
ClearWrite(t) == WriteWord(t, "clearing", "unlock", word[t] \ {handle[t]})

LeaveMutex(t) ==
    /\ LockGoto(t, "unlock", "left")
    /\ valid' = valid \ {t}
    /\ mutex' = MutexGiven(t)
    /\ UNCHANGED <<reg, locks, refCnt, state, sharedState, handle, word>>

-----------------------------------------------------------------------------
\* HwSpinlock_delete, under the system gate.  The count goes down before the
\* state is looked at.

LastReference(o) == refCnt[o] <= 1

Delete(t) ==
    LET o == Obj(t)
    IN  /\ LockGoto(t, "left", "idle")
        /\ refCnt' = [refCnt EXCEPT ![o] = IF @ = 0 THEN 0 ELSE @ - 1]
        /\ locks' = IF LastReference(o) /\ o \notin state THEN locks \ {o} ELSE locks
        /\ handle' = [handle EXCEPT ![t] = Nobody]
        /\ UNCHANGED <<reg, state, mutex, sharedState, valid, word>>

-----------------------------------------------------------------------------

Inner(t) ==
    \/ TakeReg(t) \/ Back(t) \/ MarkTaken(t) \/ SetRead(t) \/ SetWrite(t)
    \/ ClearReg(t) \/ MarkFree(t) \/ ClearRead(t) \/ ClearWrite(t)
    \/ LeaveMutex(t)

LockNext ==
    \E t \in Tasks :
        (\E l \in Locks : Create(t, l)) \/ EnterMutex(t) \/ Inner(t) \/ Delete(t)

\* A task that holds a mutex is not stopped for ever: GateMutexPri lends it the
\* priority of those it keeps waiting.
LockFairness == \A t \in Tasks : WF_lockVars(Inner(t))

-----------------------------------------------------------------------------

LockTypeOK ==
    /\ reg \subseteq Locks
    /\ locks \subseteq Objects
    /\ refCnt \in [Objects -> 0..Cardinality(Tasks)]
    /\ state \subseteq locks
    /\ mutex \in [Objects -> Tasks \cup {Nobody}]
    /\ sharedState \in [Images -> SUBSET Locks]
    /\ lockPc \in [Tasks -> {"idle", "outside", "try", "taken", "set", "setting",
                         "inside", "freed", "clear", "clearing", "unlock", "left"}]
    /\ handle \in [Tasks -> Locks \cup {Nobody}]
    /\ valid \subseteq Tasks
    /\ word \in [Tasks -> SUBSET Locks]

\* No task holds a handle of an object that has been freed: a deletion by one
\* task of an image spares the object while another one refers to it.
HandlesAreLive == \A t \in Tasks : handle[t] # Nobody => Obj(t) \in locks

HoldersOf(l) ==
    {t \in Tasks : handle[t] = l /\ lockPc[t] \in {"taken", "set", "setting", "inside"}}

\* The task that has taken the register of lock l; two of them are no task.
HolderOf(l) ==
    CASE HoldersOf(l) = {} -> Nobody
      [] Cardinality(HoldersOf(l)) = 1 -> CHOOSE t \in HoldersOf(l) : TRUE
      [] OTHER -> HoldersOf(l)

\* A task inside the lock can leave it: its key and the state of the object say
\* that it holds it, whatever other tasks did with their references.
HolderCanLeave == \A t \in Tasks : lockPc[t] = "inside" => CanLeave(t)

\* No register stays taken for ever and no local gate stays shut, not even when
\* a task gives up on a lock.
LocksAreFreed ==
    /\ \A l \in Locks : []<>(l \notin reg)
    /\ \A o \in Objects : []<>(mutex[o] = Nobody)

\* Whatever other tasks create and delete, a handle is good for its holder: its
\* object is there, and the lock can be left.
HandlesAreGood == LockTypeOK /\ HandlesAreLive /\ HolderCanLeave
=============================================================================
