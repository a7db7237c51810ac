-------------------------- MODULE HwSpinlock_proofs --------------------------
(***************************************************************************)
(* For any tasks, images and locks: a handle stays good while it is held,  *)
(* and each lock is a Mutex.                                               *)
(***************************************************************************)
EXTENDS MCBenchmarks, FiniteSetTheorems, TLAPS

Pcs == {"idle", "outside", "try", "taken", "set", "setting",
        "inside", "freed", "clear", "clearing", "unlock", "left"}

InMutex == {"try", "taken", "set", "setting", "inside", "freed", "clear", "clearing", "unlock"}
InReg == {"taken", "set", "setting", "inside"}
InState == {"set", "setting", "inside", "freed"}

TypeInv ==
  /\ reg \subseteq Locks
  /\ locks \subseteq Objects
  /\ refCnt \in [Objects -> Nat]
  /\ mutex \in [Objects -> Tasks \cup {Nobody}]
  /\ sharedState \in [Images -> SUBSET Locks]
  /\ lockPc \in [Tasks -> Pcs]
  /\ handle \in [Tasks -> Locks \cup {Nobody}]
  /\ valid \subseteq Tasks
  /\ word \in [Tasks -> SUBSET Locks]
  /\ \A t \in Tasks : handle[t] = Nobody <=> lockPc[t] = "idle"

Referrers(o) == {t \in Tasks : handle[t] # Nobody /\ Obj(t) = o}

\* The table holds what the handles refer to, each object with their number.
TableInv == \A o \in Objects :
  /\ o \in locks <=> Referrers(o) # {}
  /\ refCnt[o] = Cardinality(Referrers(o))

\* Who has passed the object's gate holds it.
GateInv == \A t \in Tasks : lockPc[t] \in InMutex => mutex[Obj(t)] = t

\* An object is marked TAKEN by the task that took it, whose key is valid.
StateInv ==
  /\ \A t \in Tasks : lockPc[t] \in InState => Obj(t) \in state /\ t \in valid
  /\ \A o \in state : \E t \in Tasks : lockPc[t] \in InState /\ Obj(t) = o

\* A register that is taken was taken by one task.
RegInv ==
  /\ \A l \in reg : \E t \in Tasks : lockPc[t] \in InReg /\ handle[t] = l
  /\ \A t \in Tasks : lockPc[t] \in InReg => handle[t] \in reg
  /\ \A t, u \in Tasks :
       lockPc[t] \in InReg /\ lockPc[u] \in InReg /\ handle[t] = handle[u] => t = u

LockInv == TypeInv /\ TableInv /\ GateInv /\ StateInv /\ RegInv

-----------------------------------------------------------------------------
LEMMA ObjIsObject ==
  ASSUME TypeInv, NEW t \in Tasks, handle[t] # Nobody
  PROVE  Obj(t) \in Objects
BY HwSpinlockAssumption DEF TypeInv, Obj, Objects, HwSpinlockAssumption

LEMMA ReferrersAreFinite ==
  ASSUME NEW o
  PROVE  /\ IsFiniteSet(Referrers(o))
         /\ Cardinality(Referrers(o)) \in Nat
         /\ Cardinality(Referrers(o)) <= Cardinality(Tasks)
         /\ Cardinality(Referrers(o)) = 0 <=> Referrers(o) = {}
<1>1. Referrers(o) \subseteq Tasks
  BY DEF Referrers
<1>2. IsFiniteSet(Tasks)
  BY HwSpinlockAssumption DEF HwSpinlockAssumption
<1>. QED
  BY <1>1, <1>2, FS_Subset, FS_CardinalityType, FS_EmptySet

LEMMA LockInitially == LockInit => LockInv
<1>. SUFFICES ASSUME LockInit PROVE LockInv
  OBVIOUS
<1>. USE HwSpinlockAssumption DEF LockInit, HwSpinlockAssumption
<1>1. TypeInv
  BY DEF TypeInv, Pcs
<1>2. TableInv
  <2>1. \A o \in Objects : Referrers(o) = {}
    BY DEF Referrers
  <2>. QED BY <2>1, FS_EmptySet DEF TableInv
<1>3. GateInv /\ StateInv /\ RegInv
  BY DEF GateInv, StateInv, RegInv, InMutex, InState, InReg
<1>. QED BY <1>1, <1>2, <1>3 DEF LockInv

\* What TypeInv, TableInv and GateInv ask of a step that leaves the handles.
LEMMA TableKept ==
  ASSUME LockInv, UNCHANGED <<locks, refCnt, handle>>
  PROVE  TableInv'
<1>1. \A o \in Objects : Referrers(o)' = Referrers(o)
  BY DEF Referrers, Obj
<1>. QED
  BY <1>1 DEF LockInv, TableInv

LEMMA CreateStep ==
  ASSUME LockInv, NEW t \in Tasks, NEW l \in Locks, Create(t, l)
  PROVE  LockInv'
<1>. DEFINE o == <<ImageOf[t], l>>
<1>. USE HwSpinlockAssumption DEF HwSpinlockAssumption, LockInv
<1>1. /\ o \in Objects
      /\ lockPc[t] = "idle" /\ lockPc' = [lockPc EXCEPT ![t] = "outside"]
      /\ handle[t] = Nobody /\ handle' = [handle EXCEPT ![t] = l]
      /\ l # Nobody
  BY DEF Create, LockGoto, Objects, TypeInv
<1>2. TypeInv'
  BY <1>1 DEF Create, LockGoto, TypeInv, Pcs, References
<1>3. Obj(t)' = o /\ \A u \in Tasks \ {t} : Obj(u)' = Obj(u) /\ handle'[u] = handle[u] /\ lockPc'[u] = lockPc[u]
  BY <1>1 DEF Obj, TypeInv
<1>4. Referrers(o)' = Referrers(o) \cup {t} /\ t \notin Referrers(o)
  BY <1>1, <1>3 DEF Referrers, TypeInv
<1>5. \A p \in Objects \ {o} : Referrers(p)' = Referrers(p)
  BY <1>1, <1>3 DEF Referrers
<1>6. Cardinality(Referrers(o)') = Cardinality(Referrers(o)) + 1
  BY <1>4, ReferrersAreFinite, FS_AddElement
<1>7. TableInv'
  <2>1. /\ locks' = locks \cup {o}
        /\ refCnt' = [refCnt EXCEPT ![o] = References(o)]
    BY DEF Create
  <2>2. References(o) = Cardinality(Referrers(o)) + 1
    BY <1>1, ReferrersAreFinite DEF References, TableInv
  <2>. QED
    BY <1>1, <1>4, <1>5, <1>6, <2>1, <2>2 DEF TableInv, TypeInv
<1>8. \A u \in Tasks : lockPc[u] # "idle" => u # t /\ handle[u] # Nobody /\ Obj(u) \in locks
  BY <1>1, ObjIsObject DEF TypeInv, TableInv, Referrers
<1>9. o \notin locks => \A u \in Tasks : lockPc[u] # "idle" => Obj(u) # o
  BY <1>8
<1>10. GateInv'
  BY <1>1, <1>3, <1>8, <1>9, ObjIsObject DEF Create, GateInv, InMutex, TypeInv
<1>11. StateInv'
  <2>1. state' = state
    BY <1>8 DEF Create, StateFor, StateInv, InState
  <2>2. valid' = valid
    BY DEF Create
  <2>. QED BY <1>1, <1>3, <2>1, <2>2 DEF StateInv, InState
<1>12. RegInv'
  BY <1>1, <1>3 DEF Create, RegInv, InReg
<1>. QED
  BY <1>2, <1>7, <1>10, <1>11, <1>12

LEMMA EnterStep ==
  ASSUME LockInv, NEW t \in Tasks, EnterMutex(t) PROVE LockInv'
<1>. USE DEF LockInv, EnterMutex, LockGoto
<1>1. /\ lockPc[t] = "outside" /\ handle[t] # Nobody /\ Obj(t) \in Objects
      /\ lockPc' = [lockPc EXCEPT ![t] = "try"] /\ mutex' = [mutex EXCEPT ![Obj(t)] = t]
      /\ \A u \in Tasks : Obj(u)' = Obj(u)
  BY ObjIsObject DEF TypeInv, Obj
<1>2. TypeInv'
  BY <1>1 DEF TypeInv, Pcs
<1>3. TableInv'
  BY TableKept
<1>4. GateInv'
  BY <1>1, ObjIsObject, HwSpinlockAssumption DEF GateInv, TypeInv, InMutex, HwSpinlockAssumption
<1>5. StateInv' /\ RegInv'
  BY <1>1 DEF StateInv, RegInv, InState, InReg, TypeInv
<1>. QED
  BY <1>2, <1>3, <1>4, <1>5

LEMMA TakeStep ==
  ASSUME LockInv, NEW t \in Tasks, TakeReg(t) PROVE LockInv'
<1>. USE DEF LockInv, TakeReg, LockGoto
<1>1. /\ lockPc[t] = "try" /\ handle[t] \in Locks
      /\ lockPc' = [lockPc EXCEPT ![t] = "taken"] /\ reg' = reg \cup {handle[t]}
      /\ \A u \in Tasks : Obj(u)' = Obj(u)
  BY DEF TypeInv, Obj
<1>2. TypeInv'
  BY <1>1 DEF TypeInv, Pcs
<1>3. TableInv'
  BY TableKept
<1>4. GateInv' /\ StateInv'
  BY <1>1 DEF GateInv, TypeInv, InMutex, StateInv, InState
<1>5. RegInv'
  BY <1>1 DEF RegInv, InReg, TypeInv
<1>. QED
  BY <1>2, <1>3, <1>4, <1>5

LEMMA BackStep ==
  ASSUME LockInv, NEW t \in Tasks, Back(t) PROVE LockInv'
<1>. USE DEF LockInv, Back, LockGoto
<1>1. /\ lockPc[t] = "try" /\ handle[t] # Nobody /\ Obj(t) \in Objects
      /\ \A u \in Tasks : Obj(u)' = Obj(u)
      /\ mutex' = [mutex EXCEPT ![Obj(t)] = Nobody]
      /\ valid' \in {valid, valid \ {t}}
  BY ObjIsObject DEF TypeInv, Obj, MutexGiven
<1>2. \E n \in {"outside", "left"} : lockPc' = [lockPc EXCEPT ![t] = n]
  OBVIOUS
<1>3. TypeInv'
  BY <1>1, <1>2 DEF TypeInv, Pcs
<1>4. TableInv'
  BY TableKept
<1>5. GateInv'
  BY <1>1, <1>2 DEF GateInv, TypeInv, InMutex
<1>6. StateInv' /\ RegInv'
  BY <1>1, <1>2 DEF StateInv, InState, RegInv, InReg, TypeInv
<1>. QED
  BY <1>3, <1>4, <1>5, <1>6

LEMMA MarkStep ==
  ASSUME LockInv, NEW t \in Tasks, MarkTaken(t) PROVE LockInv'
<1>. USE DEF LockInv, MarkTaken, LockGoto
<1>1. /\ lockPc[t] = "taken" /\ lockPc' = [lockPc EXCEPT ![t] = "set"]
      /\ \A u \in Tasks : Obj(u)' = Obj(u)
  BY DEF TypeInv, Obj
<1>2. TypeInv'
  BY <1>1 DEF TypeInv, Pcs
<1>3. TableInv'
  BY TableKept
<1>4. GateInv' /\ StateInv'
  BY <1>1 DEF GateInv, TypeInv, InMutex, StateInv, InState
<1>5. RegInv'
  BY <1>1 DEF RegInv, InReg, TypeInv
<1>. QED
  BY <1>2, <1>3, <1>4, <1>5

\* Reading and writing the word of sharedState moves no task in or out.
LEMMA WordStep ==
  ASSUME LockInv, NEW t \in Tasks,
         SetRead(t) \/ SetWrite(t) \/ ClearRead(t) \/ ClearWrite(t)
  PROVE  LockInv'
<1>. USE DEF LockInv
<1>1. /\ UNCHANGED <<reg, locks, refCnt, state, mutex, handle, valid>>
      /\ word' \in [Tasks -> SUBSET Locks] /\ sharedState' \in [Images -> SUBSET Locks]
  <2>1. CASE SetRead(t)
    BY <2>1, HwSpinlockAssumption DEF SetRead, ReadWord, TypeInv, HwSpinlockAssumption
  <2>2. CASE ClearRead(t)
    BY <2>2, HwSpinlockAssumption DEF ClearRead, ReadWord, TypeInv, HwSpinlockAssumption
  <2>3. CASE SetWrite(t)
    <3>1. handle[t] \in Locks
      BY <2>3 DEF SetWrite, WriteWord, LockGoto, TypeInv
    <3>. QED BY <2>3, <3>1 DEF SetWrite, WriteWord, TypeInv
  <2>4. CASE ClearWrite(t)
    BY <2>4 DEF ClearWrite, WriteWord, TypeInv
  <2>. QED BY <2>1, <2>2, <2>3, <2>4
<1>2. \E n \in {"setting", "inside"} :
        /\ lockPc[t] \in {"set", "setting"} /\ lockPc' = [lockPc EXCEPT ![t] = n]
      \/ \E q \in {"clearing", "unlock"} :
        /\ lockPc[t] \in {"clear", "clearing"} /\ lockPc' = [lockPc EXCEPT ![t] = q]
  BY DEF SetRead, SetWrite, ClearRead, ClearWrite, ReadWord, WriteWord, LockGoto
<1>3. TypeInv'
  BY <1>1, <1>2 DEF TypeInv, Pcs
<1>4. TableInv'
  BY <1>1, TableKept
<1>5. GateInv' /\ StateInv' /\ RegInv'
  <2>1. \A u \in Tasks : Obj(u)' = Obj(u)
    BY <1>1 DEF Obj
  <2>2. \A u \in Tasks : /\ lockPc'[u] \in InMutex => lockPc[u] \in InMutex
                         /\ lockPc'[u] \in InState <=> lockPc[u] \in InState
                         /\ lockPc'[u] \in InReg <=> lockPc[u] \in InReg
    <3>1. ASSUME NEW u \in Tasks, u # t PROVE lockPc'[u] = lockPc[u]
      BY <1>2, <3>1 DEF TypeInv
    <3>2. \/ lockPc[t] \in {"set", "setting"} /\ lockPc'[t] \in {"setting", "inside"}
          \/ lockPc[t] \in {"clear", "clearing"} /\ lockPc'[t] \in {"clearing", "unlock"}
      BY <1>2 DEF TypeInv
    <3>. QED
      BY <3>1, <3>2 DEF InMutex, InState, InReg
  <2>3. GateInv'
    BY <1>1, <2>1, <2>2 DEF GateInv
  <2>4. StateInv'
    BY <1>1, <2>1, <2>2 DEF StateInv
  <2>5. RegInv'
    BY <1>1, <2>2 DEF RegInv
  <2>. QED
    BY <2>3, <2>4, <2>5
<1>. QED
  BY <1>3, <1>4, <1>5

LEMMA ClearStep ==
  ASSUME LockInv, NEW t \in Tasks, ClearReg(t) PROVE LockInv'
<1>. USE DEF LockInv, ClearReg, LockGoto
<1>1. /\ lockPc[t] = "inside" /\ CanLeave(t)
      /\ \A u \in Tasks : Obj(u)' = Obj(u)
  BY DEF TypeInv, Obj, StateInv, InState, CanLeave
<1>2. lockPc' = [lockPc EXCEPT ![t] = "freed"] /\ reg' = reg \ {handle[t]}
  BY <1>1
<1>3. TypeInv'
  BY <1>1, <1>2 DEF TypeInv, Pcs
<1>4. TableInv'
  BY TableKept
<1>5. GateInv' /\ StateInv'
  BY <1>1, <1>2 DEF GateInv, TypeInv, InMutex, StateInv, InState
<1>6. RegInv'
  BY <1>1, <1>2 DEF RegInv, InReg, TypeInv
<1>. QED
  BY <1>3, <1>4, <1>5, <1>6

LEMMA FreeStep ==
  ASSUME LockInv, NEW t \in Tasks, MarkFree(t) PROVE LockInv'
<1>. USE DEF LockInv, MarkFree, LockGoto
<1>1. /\ lockPc[t] = "freed" /\ lockPc' = [lockPc EXCEPT ![t] = "clear"]
      /\ \A u \in Tasks : Obj(u)' = Obj(u)
  BY DEF TypeInv, Obj
<1>2. TypeInv'
  BY <1>1 DEF TypeInv, Pcs
<1>3. TableInv'
  BY TableKept
<1>4. GateInv' /\ RegInv'
  BY <1>1 DEF GateInv, TypeInv, InMutex, RegInv, InReg
<1>5. StateInv'
  <2>1. \A u \in Tasks : lockPc[u] \in InState /\ Obj(u) = Obj(t) => u = t
    BY <1>1 DEF GateInv, InState, InMutex
  <2>. QED
    BY <1>1, <2>1 DEF StateInv, InState, TypeInv
<1>. QED
  BY <1>2, <1>3, <1>4, <1>5

LEMMA LeaveStep ==
  ASSUME LockInv, NEW t \in Tasks, LeaveMutex(t) PROVE LockInv'
<1>. USE DEF LockInv, LeaveMutex, LockGoto
<1>1. /\ lockPc[t] = "unlock" /\ handle[t] # Nobody /\ Obj(t) \in Objects
      /\ lockPc' = [lockPc EXCEPT ![t] = "left"]
      /\ \A u \in Tasks : Obj(u)' = Obj(u)
      /\ mutex' = [mutex EXCEPT ![Obj(t)] = Nobody]
  BY ObjIsObject DEF TypeInv, Obj, MutexGiven
<1>2. TypeInv'
  BY <1>1 DEF TypeInv, Pcs
<1>3. TableInv'
  BY TableKept
<1>4. GateInv'
  BY <1>1 DEF GateInv, TypeInv, InMutex
<1>5. StateInv' /\ RegInv'
  BY <1>1 DEF StateInv, InState, RegInv, InReg, TypeInv
<1>. QED
  BY <1>2, <1>3, <1>4, <1>5

LEMMA DeleteStep ==
  ASSUME LockInv, NEW t \in Tasks, Delete(t)
  PROVE  LockInv'
<1>. USE DEF LockInv
<1>0. PICK o : o = Obj(t)
  OBVIOUS
<1>1. /\ lockPc[t] = "left" /\ lockPc' = [lockPc EXCEPT ![t] = "idle"]
      /\ handle[t] # Nobody /\ handle' = [handle EXCEPT ![t] = Nobody]
      /\ o \in Objects
  BY <1>0, ObjIsObject DEF Delete, LockGoto, TypeInv
<1>2. TypeInv'
  <2>1. refCnt' = [refCnt EXCEPT ![o] = IF refCnt[o] = 0 THEN 0 ELSE refCnt[o] - 1]
    BY <1>0, <1>1 DEF Delete, TypeInv
  <2>2. refCnt' \in [Objects -> Nat]
    BY <1>1, <2>1 DEF TypeInv
  <2>3. locks' \subseteq Objects
    BY DEF Delete, TypeInv
  <2>. QED
    BY <1>1, <2>2, <2>3 DEF Delete, TypeInv, Pcs
<1>3. \A u \in Tasks \ {t} : Obj(u)' = Obj(u) /\ handle'[u] = handle[u] /\ lockPc'[u] = lockPc[u]
  BY <1>1 DEF Obj, TypeInv
<1>4. Referrers(o)' = Referrers(o) \ {t} /\ t \in Referrers(o)
  BY <1>0, <1>1, <1>3 DEF Referrers, TypeInv
<1>5. \A p \in Objects \ {o} : Referrers(p)' = Referrers(p)
  BY <1>0, <1>1, <1>3 DEF Referrers, TypeInv
<1>6. /\ Cardinality(Referrers(o)') = Cardinality(Referrers(o)) - 1
      /\ Cardinality(Referrers(o)') = 0 <=> Referrers(o)' = {}
  BY <1>4, ReferrersAreFinite, FS_RemoveElement, FS_EmptySet
<1>7. refCnt[o] = Cardinality(Referrers(o)) /\ refCnt[o] > 0
  BY <1>1, <1>4, ReferrersAreFinite DEF TableInv
<1>8. o \in state => ~LastReference(o)
  <2>1. SUFFICES ASSUME o \in state PROVE Referrers(o)' # {}
    BY <1>6, <1>7, ReferrersAreFinite DEF LastReference
  <2>2. PICK u \in Tasks : lockPc[u] \in InState /\ Obj(u) = o
    BY <2>1 DEF StateInv
  <2>. QED
    BY <1>1, <1>4, <2>2 DEF Referrers, TypeInv, InState
<1>9. locks' = IF refCnt[o] = 1 THEN locks \ {o} ELSE locks
  BY <1>0, <1>1, <1>7, <1>8 DEF Delete, LastReference, TypeInv
<1>10. Referrers(o)' = {} <=> refCnt[o] = 1
  BY <1>6, <1>7, ReferrersAreFinite
<1>11. TableInv'
  <2>1. refCnt' = [refCnt EXCEPT ![o] = IF refCnt[o] = 0 THEN 0 ELSE refCnt[o] - 1]
    BY <1>0, <1>1 DEF Delete, TypeInv
  <2>2. refCnt'[o] = Cardinality(Referrers(o)') /\ (o \in locks' <=> Referrers(o)' # {})
    BY <1>1, <1>4, <1>6, <1>7, <1>9, <1>10, <2>1, ReferrersAreFinite DEF TableInv, TypeInv
  <2>3. ASSUME NEW p \in Objects, p # o
        PROVE  refCnt'[p] = Cardinality(Referrers(p)') /\ (p \in locks' <=> Referrers(p)' # {})
    BY <1>5, <1>9, <2>1, <2>3 DEF TableInv, TypeInv
  <2>. QED
    BY <2>2, <2>3 DEF TableInv
<1>12. GateInv' /\ StateInv' /\ RegInv'
  BY <1>1, <1>3 DEF Delete, GateInv, InMutex, StateInv, InState, RegInv, InReg, TypeInv
<1>. QED
  BY <1>2, <1>11, <1>12

LEMMA LockStep == LockInv /\ [LockNext]_lockVars => LockInv'
<1>1. ASSUME LockInv, UNCHANGED lockVars PROVE LockInv'
  BY <1>1, TableKept
  DEF lockVars, LockInv, TypeInv, GateInv, StateInv, RegInv, Obj
<1>. QED
  BY <1>1, CreateStep, EnterStep, TakeStep, BackStep, MarkStep, WordStep, ClearStep,
     FreeStep, LeaveStep, DeleteStep DEF LockNext, Inner

LEMMA LockIsGood == LockInv => HandlesAreGood
<1>. SUFFICES ASSUME LockInv PROVE HandlesAreGood
  OBVIOUS
<1>. USE DEF LockInv
<1>1. HandlesAreLive
  BY ObjIsObject DEF HandlesAreLive, TableInv, Referrers
<1>2. HolderCanLeave
  BY DEF HolderCanLeave, StateInv, InState, CanLeave
<1>3. ASSUME NEW o \in state PROVE o \in locks
  <2>1. PICK t \in Tasks : lockPc[t] \in InState /\ Obj(t) = o
    BY DEF StateInv
  <2>2. handle[t] # Nobody
    BY <2>1 DEF TypeInv, InState
  <2>. QED
    BY <2>1, <2>2, ObjIsObject DEF TableInv, Referrers
<1>4. refCnt \in [Objects -> 0 .. Cardinality(Tasks)]
  <2>1. Cardinality(Tasks) \in Nat
    BY HwSpinlockAssumption, FS_CardinalityType DEF HwSpinlockAssumption
  <2>2. \A o \in Objects : refCnt[o] \in 0 .. Cardinality(Tasks)
    BY <2>1, ReferrersAreFinite DEF TableInv
  <2>. QED BY <2>2 DEF TypeInv
<1>. QED
  BY <1>1, <1>2, <1>3, <1>4 DEF HandlesAreGood, LockTypeOK, TypeInv, Pcs

-----------------------------------------------------------------------------
\* A step of the locks as the holder of any one of them sees it.
LEMMA HolderIs ==
  ASSUME LockInv, NEW l
  PROVE  /\ \A t \in HoldersOf(l) : HolderOf(l) = t
         /\ HoldersOf(l) = {} => HolderOf(l) = Nobody
<1>1. HoldersOf(l) = {} => HolderOf(l) = Nobody
  BY DEF HolderOf
<1>2. ASSUME NEW t \in HoldersOf(l) PROVE HolderOf(l) = t
  <2>1. HoldersOf(l) = {t}
    BY <1>2 DEF HoldersOf, LockInv, RegInv, InReg
  <2>2. Cardinality({t}) = 1
    BY FS_Singleton
  <2>. QED BY <2>1, <2>2 DEF HolderOf
<1>. QED BY <1>1, <1>2

LEMMA HolderStep ==
  ASSUME LockInv, [LockNext]_lockVars, NEW l
  PROVE  \/ \E t \in Tasks :
              \/ HolderOf(l) = Nobody /\ HolderOf(l)' = t
              \/ HolderOf(l) = t /\ HolderOf(l)' = Nobody
         \/ HolderOf(l)' = HolderOf(l)
<1>. DEFINE Same == \A t \in Tasks : t \in HoldersOf(l)' <=> t \in HoldersOf(l)
<1>1. LockInv'
  BY LockStep
<1>2. \A t \in HoldersOf(l)' : HolderOf(l)' = t
  <2>. SUFFICES ASSUME NEW t \in HoldersOf(l)' PROVE HolderOf(l)' = t
    OBVIOUS
  <2>1. HoldersOf(l)' = {t}
    BY <1>1 DEF HoldersOf, LockInv, RegInv, InReg
  <2>2. Cardinality({t}) = 1
    BY FS_Singleton
  <2>. QED BY <2>1, <2>2 DEF HolderOf
<1>3. CASE Same
  <2>1. HoldersOf(l)' = HoldersOf(l)
    BY <1>3 DEF HoldersOf
  <2>. QED BY <2>1 DEF HolderOf
<1>4. ASSUME NEW t \in Tasks, TakeReg(t), ~Same
      PROVE  HolderOf(l) = Nobody /\ HolderOf(l)' = t
  <2>1. handle[t] = l /\ HoldersOf(l) = {} /\ t \in HoldersOf(l)'
    BY <1>4 DEF TakeReg, LockGoto, HoldersOf, LockInv, RegInv, TypeInv, InReg
  <2>. QED BY <2>1, <1>2, HolderIs
<1>5. ASSUME NEW t \in Tasks, ClearReg(t), ~Same
      PROVE  HolderOf(l) = t /\ HolderOf(l)' = Nobody
  <2>1. t \in HoldersOf(l) /\ HoldersOf(l)' = {}
    BY <1>5 DEF ClearReg, LockGoto, HoldersOf, LockInv, RegInv, TypeInv, InReg
  <2>. QED BY <2>1, HolderIs DEF HolderOf
<1>6. ASSUME NEW t \in Tasks,
             \/ EnterMutex(t) \/ Back(t) \/ MarkTaken(t) \/ SetRead(t) \/ SetWrite(t)
             \/ MarkFree(t) \/ ClearRead(t) \/ ClearWrite(t) \/ LeaveMutex(t)
      PROVE  Same
  BY <1>6 DEF EnterMutex, Back, MarkTaken, SetRead, SetWrite, MarkFree, ClearRead, ClearWrite,
     LeaveMutex, ReadWord, WriteWord, LockGoto, HoldersOf, LockInv, TypeInv
<1>7. ASSUME NEW t \in Tasks, Delete(t) \/ \E k \in Locks : Create(t, k)
      PROVE  Same
  BY <1>7, ZenonT(60) DEF Delete, Create, LockGoto, HoldersOf, LockInv, TypeInv
<1>8. UNCHANGED lockVars => Same
  BY DEF lockVars, HoldersOf
<1>. QED
  BY <1>3, <1>4, <1>5, <1>6, <1>7, <1>8 DEF LockNext, Inner

-----------------------------------------------------------------------------
LEMMA BenchSteps ==
  /\ BenchInit => LockInit
  /\ [BenchNext]_benchVars => [LockNext]_lockVars
BY DEF BenchInit, BenchNext, benchVars

(* A handle of a lock stays good while its task holds it, and a task inside  *)
(* the lock can leave it, whatever other tasks of its image create, enter    *)
(* and delete meanwhile (HwSpinlock_create, _enter, _leave and _delete).     *)
THEOREM HandlesTheorem == BenchSpec => []HandlesAreGood
<1>. QED
  BY LockInitially, LockStep, BenchSteps, LockIsGood, PTL DEF BenchSpec

(* Each lock has at most one holder among the tasks of all images, and only  *)
(* the holder gives it back: HwSpinlock_enter and _leave are a Mutex.        *)
THEOREM LocksAreMutexes == BenchSpec => ImplementsMutex
<1>1. LockInit => HolderOf(4) = Nobody /\ HolderOf(5) = Nobody
  BY DEF LockInit, HolderOf, HoldersOf
<1>2. LockInit => BarrierLock!MInit /\ SumLock!MInit
  BY <1>1 DEF BarrierLock!MInit, SumLock!MInit
<1>3. LockInv /\ [LockNext]_lockVars => [BarrierLock!MNext]_(HolderOf(4))
  BY HolderStep DEF BarrierLock!MNext, BarrierLock!Acquire, BarrierLock!Release
<1>4. LockInv /\ [LockNext]_lockVars => [SumLock!MNext]_(HolderOf(5))
  BY HolderStep DEF SumLock!MNext, SumLock!Acquire, SumLock!Release
<1>. QED
  BY LockInitially, LockStep, BenchSteps, <1>2, <1>3, <1>4, PTL
  DEF BenchSpec, ImplementsMutex, BarrierLock!MSpec, SumLock!MSpec
=============================================================================
