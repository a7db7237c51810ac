-------------------------------- MODULE Mutex --------------------------------
(***************************************************************************)
(* What a lock of HwSpinlock.c promises: one holder at a time, whichever   *)
(* processor it runs on, and only the holder gives the lock back.          *)
(***************************************************************************)
CONSTANTS Tasks, NoOne

VARIABLE holder

MInit == holder = NoOne

Acquire(t) == holder = NoOne /\ holder' = t

Release(t) == holder = t /\ holder' = NoOne

MNext == \E t \in Tasks : Acquire(t) \/ Release(t)

MSpec == MInit /\ [][MNext]_holder
==============================================================================
