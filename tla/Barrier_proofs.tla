--------------------------- MODULE Barrier_proofs ---------------------------
(***************************************************************************)
(* For any number of participants and any schedule, the barriers are a     *)
(* rendezvous; and when no barrier is used twice in a row, no participant  *)
(* misses the release it waits for.                                        *)
(*                                                                         *)
(* The invariant counts: a barrier that is being filled has moved its      *)
(* counter by the number of participants waiting in it, a barrier at rest  *)
(* has nobody waiting, and in between the last participant is about to     *)
(* reverse the sense.                                                      *)
(*                                                                         *)
(* Then the programs that do without barriers: their products are whole.   *)
(***************************************************************************)
EXTENDS Barrier, Multiply, FiniteSetTheorems, TLAPS

Waiting(b) ==
    {p \in Participants : Inside(p) /\ At(calls[p]) = b /\ ~AllArrived(p)}

Flipping(b) ==
    \E p \in Participants : pc[p] = "flip" /\ At(calls[p]) = b /\ AllArrived(p)

Kinds ==
    /\ counter \in [Barriers -> Int]
    /\ sense \in [Barriers -> Int]
    /\ holder \in Participants \cup {NoOne}
    /\ pc \in [Participants -> {"out", "count", "flip", "unlock", "spin"}]
    /\ awaited \in [Participants -> {0, Total}]
    /\ calls \in [Participants -> 0..NumCalls]

Turns == \A p, q \in Participants : calls[p] <= Arrived(q)

Locked == \A p \in Participants : pc[p] \in {"count", "flip", "unlock"} <=> holder = p

InCall == \A p \in Participants : pc[p] # "out" => calls[p] < NumCalls

NoneAhead ==
    \A p, q \in Participants : pc[p] = "flip" => Arrived(q) <= calls[p] + 1

Count1(b, s, c, w) == (s = Total /\ c = Total - w) \/ (s = -Total /\ c = w)

Counted ==
    \A b \in Barriers :
        Count1(b, sense[b], counter[b],
               IF Flipping(b) THEN Total ELSE Cardinality(Waiting(b)))

Aims ==
    \A p \in Participants :
        Inside(p) /\ ~AllArrived(p)
            => awaited[p] = IF sense[At(calls[p])] = Total THEN 0 ELSE Total

FlipAims ==
    \A p \in Participants :
        pc[p] = "flip" /\ AllArrived(p) => awaited[p] = counter[At(calls[p])]

IInv ==
    Kinds /\ Turns /\ Locked /\ InCall /\ NoneAhead /\ Counted /\ Aims /\ FlipAims

\* No barrier is used for two calls in a row.
Alternates == \A i \in 1..NumCalls - 1 : Schedule[i] # Schedule[i + 1]

-----------------------------------------------------------------------------
(***************************************************************************)
(* Facts about the constants and the derived state.                        *)
(***************************************************************************)

LEMMA TotalFacts ==
    /\ IsFiniteSet(Participants)
    /\ Total \in Nat
    /\ Participants # {} => Total > 0
<1>1. IsFiniteSet(Participants)
    BY BarrierAssumption
<1>2. Total \in Nat
    BY <1>1, FS_CardinalityType DEF Total
<1>3. Participants # {} => Total > 0
    BY <1>1, <1>2, FS_EmptySet DEF Total
<1> QED BY <1>1, <1>2, <1>3

LEMMA ScheduleFacts ==
    /\ NumCalls \in Nat
    /\ \A n \in 0..NumCalls - 1 : At(n) \in Barriers /\ At(n) = Schedule[n + 1]
<1>1. NumCalls \in Nat
    BY BarrierAssumption DEF NumCalls
<1>2. ASSUME NEW n \in 0..NumCalls - 1 PROVE n + 1 \in 1..NumCalls
    BY <1>1
<1> QED BY <1>1, <1>2 DEF At, Barriers

LEMMA WaitingFinite ==
    ASSUME NEW b
    PROVE  /\ IsFiniteSet(Waiting(b))
           /\ Cardinality(Waiting(b)) \in 0..Total
<1>1. Waiting(b) \in SUBSET Participants
    BY DEF Waiting
<1>2. IsFiniteSet(Waiting(b)) /\ Cardinality(Waiting(b)) <= Total
    BY <1>1, TotalFacts, FS_Subset DEF Total
<1> QED BY <1>2, TotalFacts, FS_CardinalityType

LEMMA ArrivedType ==
    ASSUME Kinds, NEW p \in Participants
    PROVE  /\ calls[p] \in Nat
           /\ Arrived(p) \in Nat
           /\ Arrived(p) \in {calls[p], calls[p] + 1}
           /\ Inside(p) <=> Arrived(p) = calls[p] + 1
           /\ ~Inside(p) <=> Arrived(p) = calls[p]
    BY ScheduleFacts DEF Kinds, Arrived

\* Somebody who waits, or the one who reverses the sense, is in a call.
LEMMA InsideInCall ==
    ASSUME Kinds, InCall, NEW p \in Participants, pc[p] # "out"
    PROVE  /\ calls[p] \in 0..NumCalls - 1
           /\ At(calls[p]) \in Barriers
    BY ScheduleFacts DEF Kinds, InCall

\* While somebody reverses the sense of a barrier everybody has reached, nobody
\* waits in it.
LEMMA FlippingEmpties ==
    ASSUME IInv, NEW b, Flipping(b)
    PROVE  Waiting(b) = {}
<1> SUFFICES ASSUME NEW q \in Waiting(b) PROVE FALSE
    OBVIOUS
<1>1. PICK p \in Participants : pc[p] = "flip" /\ At(calls[p]) = b /\ AllArrived(p)
    BY DEF Flipping
<1>2. q \in Participants /\ Inside(q) /\ ~AllArrived(q)
    BY DEF Waiting
<1>3. \A r \in Participants : Arrived(r) > calls[p] /\ Arrived(r) <= calls[p] + 1
    BY <1>1 DEF AllArrived, IInv, NoneAhead
<1>4. Arrived(q) = calls[p] + 1
    BY <1>2, <1>3, <1>1, ArrivedType DEF IInv
<1>5. calls[q] = calls[p]
    BY <1>4, <1>2, <1>1, ArrivedType DEF IInv
<1> QED BY <1>5, <1>2, <1>3 DEF AllArrived

\* A participant that waits in a barrier not everybody has reached does not find
\* the counter at the value it waits for.
LEMMA NotReleased ==
    ASSUME IInv, NEW p \in Participants, Inside(p), ~AllArrived(p)
    PROVE  /\ counter[At(calls[p])] # awaited[p]
           /\ ~Flipping(At(calls[p]))
<1> DEFINE b == At(calls[p])
<1>1. b \in Barriers
    BY InsideInCall DEF IInv, Inside
<1>2. p \in Waiting(b)
    BY DEF Waiting
<1>3. ~Flipping(b)
    BY <1>2, FlippingEmpties
<1>4. PICK q \in Participants : ~(Arrived(q) > calls[p])
    BY DEF AllArrived
<1>5. q \notin Waiting(b)
    <2> SUFFICES ASSUME q \in Waiting(b) PROVE FALSE
        OBVIOUS
    <2>1. Inside(q) /\ ~AllArrived(q)
        BY DEF Waiting
    <2>2. calls[q] < calls[p]
        BY <2>1, <1>4, ArrivedType DEF IInv
    <2>3. \A r \in Participants : Arrived(r) >= calls[p]
        BY ArrivedType DEF IInv, Turns
    <2> QED BY <2>1, <2>2, <2>3, ArrivedType DEF AllArrived, IInv
<1>6. Waiting(b) \in SUBSET Participants
    BY DEF Waiting
<1>7. Cardinality(Waiting(b)) # Total
    BY <1>5, <1>6, FS_Subset, TotalFacts DEF Total
<1>8. Cardinality(Waiting(b)) # 0
    BY <1>2, WaitingFinite, FS_EmptySet
<1>9. Count1(b, sense[b], counter[b], Cardinality(Waiting(b)))
    BY <1>1, <1>3 DEF IInv, Counted
<1>10. awaited[p] = IF sense[b] = Total THEN 0 ELSE Total
    BY DEF IInv, Aims
<1> HIDE DEF b
<1>11. counter[b] # awaited[p]
    <2>1. Cardinality(Waiting(b)) \in 0..Total /\ Total \in Nat /\ Total > 0
        BY WaitingFinite, TotalFacts
    <2> QED BY <2>1, <1>7, <1>8, <1>9, <1>10 DEF Count1
<1> QED BY <1>11, <1>3 DEF b
-----------------------------------------------------------------------------
(***************************************************************************)
(* What the actions leave alone.                                           *)
(***************************************************************************)

\* Only Count changes how many calls have been made.
LEMMA ArrivedKept ==
    ASSUME Kinds, NEW p \in Participants,
           Enter(p) \/ Flip(p) \/ Unlock(p) \/ Leave(p)
    PROVE  \A q \in Participants : Arrived(q)' = Arrived(q)
<1> SUFFICES ASSUME NEW q \in Participants PROVE Arrived(q)' = Arrived(q)
    OBVIOUS
<1>0. calls[p] \in Nat /\ calls[q] \in Nat
    BY ArrivedType
<1>1. CASE Enter(p)
    BY <1>0, <1>1 DEF Enter, Goto, Arrived, Inside, Kinds
<1>2. CASE Flip(p)
    BY <1>0, <1>2 DEF Flip, Goto, Arrived, Inside, Kinds
<1>3. CASE Unlock(p)
    BY <1>0, <1>3 DEF Unlock, Goto, Arrived, Inside, Kinds
<1>4. CASE Leave(p)
    BY <1>0, <1>4 DEF Leave, Goto, Arrived, Inside, Kinds
<1> QED BY <1>1, <1>2, <1>3, <1>4

\* Entering, reversing and unlocking leave everybody where he waits.
LEMMA WaitingKept ==
    ASSUME Kinds, NEW p \in Participants, Enter(p) \/ Flip(p) \/ Unlock(p)
    PROVE  /\ \A q \in Participants : /\ Inside(q)' <=> Inside(q)
                                      /\ AllArrived(q)' <=> AllArrived(q)
           /\ \A b : Waiting(b)' = Waiting(b)
<1>1. calls' = calls
    BY DEF Enter, Flip, Unlock
<1>2. \A q \in Participants : Arrived(q)' = Arrived(q)
    BY ArrivedKept
<1>3. ASSUME NEW q \in Participants PROVE Inside(q)' <=> Inside(q)
    BY DEF Enter, Flip, Unlock, Goto, Inside, Kinds
<1>4. ASSUME NEW q \in Participants PROVE AllArrived(q)' <=> AllArrived(q)
    BY <1>1, <1>2 DEF AllArrived
<1>5. ASSUME NEW b PROVE Waiting(b)' = Waiting(b)
    BY <1>1, <1>3, <1>4 DEF Waiting, At
<1> QED BY <1>3, <1>4, <1>5

\* Whoever leaves was not waiting any more, so nobody else is disturbed.
LEMMA WaitingKeptByLeave ==
    ASSUME IInv, NEW p \in Participants, Leave(p)
    PROVE  /\ AllArrived(p)
           /\ \A q \in Participants \ {p} : /\ Inside(q)' <=> Inside(q)
                                            /\ AllArrived(q)' <=> AllArrived(q)
                                            /\ calls[q]' = calls[q]
           /\ ~Inside(p)'
           /\ \A b : Waiting(b)' = Waiting(b)
<1>1. AllArrived(p)
    BY NotReleased DEF Leave, Goto, Inside
<1>2. \A q \in Participants : Arrived(q)' = Arrived(q)
    BY ArrivedKept DEF IInv
<1>3. ASSUME NEW q \in Participants, q # p
      PROVE  /\ Inside(q)' <=> Inside(q)
             /\ AllArrived(q)' <=> AllArrived(q)
             /\ calls[q]' = calls[q]
    <2>1. calls[q]' = calls[q]
        BY <1>3 DEF Leave, IInv, Kinds
    <2>2. Inside(q)' <=> Inside(q)
        BY <1>3 DEF Leave, Goto, Inside, IInv, Kinds
    <2> QED BY <2>1, <2>2, <1>2 DEF AllArrived
<1>4. ~Inside(p)'
    BY DEF Leave, Goto, Inside, IInv, Kinds
<1>5. ASSUME NEW b PROVE Waiting(b)' = Waiting(b)
    BY <1>1, <1>3, <1>4 DEF Waiting, At
<1> QED BY <1>1, <1>3, <1>4, <1>5

(***************************************************************************)
(* What Count finds: p is among the last in this call, n; those who have   *)
(* made it are exactly the ones who wait in its barrier, and every other   *)
(* barrier is at rest.                                                     *)
(***************************************************************************)
LEMMA CountFinds ==
    ASSUME IInv, NEW p \in Participants, Count(p)
    PROVE  /\ ~Inside(p) /\ holder = p /\ pc[p] = "count"
           /\ calls[p] \in 0..NumCalls - 1
           /\ At(calls[p]) \in Barriers
           /\ \A q \in Participants : /\ calls[q] <= calls[p]
                                      /\ Arrived(q) \in {calls[p], calls[p] + 1}
                                      /\ pc[q] # "flip"
           /\ \A b : ~Flipping(b)
           /\ Waiting(At(calls[p])) =
                {q \in Participants : Arrived(q) = calls[p] + 1}
           /\ \A b : b # At(calls[p]) => Waiting(b) = {}
<1> DEFINE n == calls[p]
<1>1. pc[p] = "count" /\ ~Inside(p) /\ holder = p
    BY DEF Count, Goto, Inside, IInv, Locked
<1>2. n \in 0..NumCalls - 1 /\ At(n) \in Barriers
    BY <1>1, InsideInCall DEF IInv
<1>3. Arrived(p) = n /\ n \in Nat
    BY <1>1, ArrivedType DEF IInv
<1>4. ASSUME NEW q \in Participants
      PROVE  calls[q] <= n /\ Arrived(q) \in {n, n + 1} /\ pc[q] # "flip"
    <2>1. calls[q] <= n /\ n <= Arrived(q)
        BY <1>3 DEF IInv, Turns
    <2>2. Arrived(q) \in {n, n + 1}
        BY <2>1, <1>3, ArrivedType DEF IInv
    <2>3. pc[q] # "flip"
        BY <1>1 DEF IInv, Locked
    <2> QED BY <2>1, <2>2, <2>3
<1>5. \A b : ~Flipping(b)
    BY <1>4 DEF Flipping
<1>6. ASSUME NEW q \in Participants, Inside(q), ~AllArrived(q)
      PROVE  calls[q] = n
    <2>1. PICK r \in Participants : ~(Arrived(r) > calls[q])
        BY <1>6 DEF AllArrived
    <2> QED BY <2>1, <1>4, <1>3, ArrivedType DEF IInv
<1>7. ASSUME NEW q \in Participants, Arrived(q) = n + 1
      PROVE  Inside(q) /\ calls[q] = n /\ ~AllArrived(q)
    <2>1. Inside(q) /\ calls[q] = n
        BY <1>7, <1>4, <1>3, ArrivedType DEF IInv
    <2>2. ~AllArrived(q)
        BY <2>1, <1>3 DEF AllArrived
    <2> QED BY <2>1, <2>2
<1>8. ASSUME NEW q \in Participants, Inside(q), calls[q] = n
      PROVE  Arrived(q) = n + 1
    BY <1>8, ArrivedType DEF IInv
<1>9. Waiting(At(n)) = {q \in Participants : Arrived(q) = n + 1}
    BY <1>6, <1>7, <1>8 DEF Waiting
<1>10. ASSUME NEW b, b # At(n) PROVE Waiting(b) = {}
    BY <1>6, <1>10 DEF Waiting
<1> QED BY <1>1, <1>2, <1>4, <1>5, <1>9, <1>10

\* After Count, p waits with the others, or everybody has made the call.
LEMMA CountLeaves ==
    ASSUME IInv, NEW p \in Participants, Count(p)
    PROVE  /\ calls' = calls /\ sense' = sense /\ holder' = holder
           /\ \A q \in Participants \ {p} : /\ pc[q]' = pc[q]
                                            /\ Inside(q)' <=> Inside(q)
                                            /\ Arrived(q)' = Arrived(q)
           /\ pc[p]' = "flip" /\ Inside(p)' /\ Arrived(p)' = calls[p] + 1
           /\ \A q \in Participants :
                AllArrived(q)' <=>
                  \/ AllArrived(q)
                  \/ /\ calls[q] = calls[p]
                     /\ Waiting(At(calls[p])) = Participants \ {p}
<1> DEFINE n == calls[p]
<1>1. calls' = calls /\ sense' = sense /\ holder' = holder
    BY DEF Count
<1>2. ASSUME NEW q \in Participants \ {p} PROVE pc[q]' = pc[q]
    BY DEF Count, Goto, IInv, Kinds
<1>3. pc[p]' = "flip"
    BY DEF Count, Goto, IInv, Kinds
<1>4. \A q \in Participants \ {p} : /\ Inside(q)' <=> Inside(q)
                                    /\ Arrived(q)' = Arrived(q)
    BY <1>1, <1>2 DEF Inside, Arrived
<1>5. Inside(p)' /\ Arrived(p)' = n + 1
    BY <1>1, <1>3 DEF Inside, Arrived
<1>6. /\ \A q \in Participants : calls[q] <= n /\ Arrived(q) \in {n, n + 1}
      /\ Waiting(At(n)) = {q \in Participants : Arrived(q) = n + 1}
      /\ n \in Nat
    BY CountFinds, ArrivedType DEF IInv
<1>7. Arrived(p) = n
    BY CountFinds, ArrivedType DEF IInv
<1> HIDE DEF n
<1>8. ASSUME NEW q \in Participants
      PROVE  AllArrived(q)' <=>
               AllArrived(q) \/ (calls[q] = n /\ Waiting(At(n)) = Participants \ {p})
    <2>1. AllArrived(q)' <=> \A r \in Participants : Arrived(r)' > calls[q]
        BY <1>1 DEF AllArrived
    <2>2. calls[q] \in Nat
        BY ArrivedType DEF IInv
    <2>3. CASE calls[q] < n
        <3>1. AllArrived(q)
            BY <2>3, <1>6, <2>2 DEF AllArrived
        <3>2. AllArrived(q)'
            BY <2>1, <2>3, <1>4, <1>5, <1>6, <2>2
        <3> QED BY <3>1, <3>2
    <2>4. CASE calls[q] = n
        <3>1. ~AllArrived(q)
            BY <2>4, <1>7, <1>6 DEF AllArrived
        <3>2. AllArrived(q)' <=> \A r \in Participants \ {p} : Arrived(r) = n + 1
            BY <2>1, <2>4, <1>4, <1>5, <1>6
        <3>3. (\A r \in Participants \ {p} : Arrived(r) = n + 1)
                <=> Waiting(At(n)) = Participants \ {p}
            BY <1>6, <1>7
        <3> QED BY <3>1, <3>2, <3>3, <2>4
    <2> QED BY <2>3, <2>4, <1>6, <2>2
<1> QED BY <1>1, <1>2, <1>3, <1>4, <1>5, <1>8 DEF n
-----------------------------------------------------------------------------
(***************************************************************************)
(* The invariant holds at first and every action preserves it.             *)
(***************************************************************************)

LEMMA InitIInv == Init => IInv
<1> SUFFICES ASSUME Init PROVE IInv
    OBVIOUS
<1> USE DEF Init
<1>1. Kinds
    BY TotalFacts, ScheduleFacts DEF Kinds, Lock!MInit
<1>2. \A p \in Participants : ~Inside(p) /\ Arrived(p) = 0
    BY DEF Inside, Arrived
<1>3. Turns
    BY <1>2 DEF Turns
<1>4. Locked
    BY BarrierAssumption DEF Locked, Lock!MInit
<1>5. InCall /\ NoneAhead
    BY DEF InCall, NoneAhead
<1>6. ASSUME NEW b PROVE Waiting(b) = {} /\ ~Flipping(b)
    BY <1>2 DEF Waiting, Flipping
<1>7. Counted
    BY <1>6, FS_EmptySet, TotalFacts DEF Counted, Count1
<1>8. Aims /\ FlipAims
    BY <1>2 DEF Aims, FlipAims
<1> QED BY <1>1, <1>3, <1>4, <1>5, <1>7, <1>8 DEF IInv

LEMMA EnterIInv ==
    ASSUME IInv, NEW p \in Participants, Enter(p)
    PROVE  IInv'
<1> USE DEF IInv
<1>0. /\ counter' = counter /\ sense' = sense /\ awaited' = awaited
      /\ calls' = calls /\ holder = NoOne /\ holder' = p
      /\ pc[p] = "out" /\ pc' = [pc EXCEPT ![p] = "count"] /\ calls[p] < NumCalls
    BY DEF Enter, Goto, Lock!Acquire
<1>1. Kinds'
    BY <1>0 DEF Kinds
<1>2. \A q \in Participants : Arrived(q)' = Arrived(q)
    BY ArrivedKept
<1>3. /\ \A q \in Participants : (Inside(q)' <=> Inside(q)) /\ (AllArrived(q)' <=> AllArrived(q))
      /\ \A b : Waiting(b)' = Waiting(b)
    BY WaitingKept
<1>4. Turns'
    BY <1>0, <1>2 DEF Turns
<1>5. Locked'
    BY <1>0, BarrierAssumption DEF Locked, Kinds
<1>6. InCall'
    BY <1>0 DEF InCall, Kinds
<1>7. \A q \in Participants : pc[q]' = "flip" <=> pc[q] = "flip"
    BY <1>0 DEF Kinds
<1>8. NoneAhead'
    BY <1>0, <1>2, <1>7 DEF NoneAhead
<1>9. \A b : Flipping(b)' <=> Flipping(b)
    BY <1>0, <1>3, <1>7 DEF Flipping, At
<1>10. Counted'
    BY <1>0, <1>3, <1>9 DEF Counted
<1>11. Aims' /\ FlipAims'
    BY <1>0, <1>3, <1>7 DEF Aims, FlipAims, At
<1> QED BY <1>1, <1>4, <1>5, <1>6, <1>8, <1>10, <1>11

LEMMA UnlockIInv ==
    ASSUME IInv, NEW p \in Participants, Unlock(p)
    PROVE  IInv'
<1> USE DEF IInv
<1>0. /\ counter' = counter /\ sense' = sense /\ awaited' = awaited
      /\ calls' = calls /\ holder = p /\ holder' = NoOne
      /\ pc[p] = "unlock" /\ pc' = [pc EXCEPT ![p] = "spin"]
    BY DEF Unlock, Goto, Lock!Release
<1>1. Kinds'
    BY <1>0 DEF Kinds
<1>2. \A q \in Participants : Arrived(q)' = Arrived(q)
    BY ArrivedKept
<1>3. /\ \A q \in Participants : (Inside(q)' <=> Inside(q)) /\ (AllArrived(q)' <=> AllArrived(q))
      /\ \A b : Waiting(b)' = Waiting(b)
    BY WaitingKept
<1>4. Turns'
    BY <1>0, <1>2 DEF Turns
<1>5. Locked'
    BY <1>0, BarrierAssumption DEF Locked, Kinds
<1>6. InCall'
    BY <1>0 DEF InCall, Kinds
<1>7. \A q \in Participants : pc[q]' = "flip" <=> pc[q] = "flip"
    BY <1>0 DEF Kinds
<1>8. NoneAhead'
    BY <1>0, <1>2, <1>7 DEF NoneAhead
<1>9. \A b : Flipping(b)' <=> Flipping(b)
    BY <1>0, <1>3, <1>7 DEF Flipping, At
<1>10. Counted'
    BY <1>0, <1>3, <1>9 DEF Counted
<1>11. Aims' /\ FlipAims'
    BY <1>0, <1>3, <1>7 DEF Aims, FlipAims, At
<1> QED BY <1>1, <1>4, <1>5, <1>6, <1>8, <1>10, <1>11

LEMMA LeaveIInv ==
    ASSUME IInv, NEW p \in Participants, Leave(p)
    PROVE  IInv'
<1> USE DEF IInv
<1>0. /\ counter' = counter /\ sense' = sense /\ awaited' = awaited
      /\ holder' = holder /\ pc[p] = "spin" /\ pc' = [pc EXCEPT ![p] = "out"]
      /\ calls' = [calls EXCEPT ![p] = @ + 1]
    BY DEF Leave, Goto
<1>1. calls[p] \in 0..NumCalls - 1
    BY <1>0, InsideInCall
<1>2. Kinds'
    BY <1>0, <1>1, ScheduleFacts DEF Kinds
<1>3. \A q \in Participants : Arrived(q)' = Arrived(q)
    BY ArrivedKept
<1>4. /\ AllArrived(p) /\ ~Inside(p)'
      /\ \A q \in Participants \ {p} : /\ Inside(q)' <=> Inside(q)
                                       /\ AllArrived(q)' <=> AllArrived(q)
                                       /\ calls[q]' = calls[q]
      /\ \A b : Waiting(b)' = Waiting(b)
    BY WaitingKeptByLeave
<1>5. Turns'
    <2> SUFFICES ASSUME NEW q \in Participants, NEW r \in Participants
                 PROVE  calls[q]' <= Arrived(r)'
        BY DEF Turns
    <2>1. CASE q = p
        BY <2>1, <1>0, <1>3, <1>4, ArrivedType DEF AllArrived, Kinds
    <2>2. CASE q # p
        BY <2>2, <1>3, <1>4 DEF Turns
    <2> QED BY <2>1, <2>2
<1>6. Locked'
    BY <1>0 DEF Locked, Kinds
<1>7. \A q \in Participants : pc[q]' = IF q = p THEN "out" ELSE pc[q]
    BY <1>0 DEF Kinds
<1>8. InCall'
    BY <1>4, <1>7 DEF InCall
<1>9. NoneAhead'
    BY <1>3, <1>4, <1>7 DEF NoneAhead
<1>10. ASSUME NEW b PROVE Flipping(b)' <=> Flipping(b)
    BY <1>0, <1>4, <1>7 DEF Flipping, At
<1>11. Counted'
    BY <1>0, <1>4, <1>10 DEF Counted
<1>12. Aims'
    BY <1>0, <1>4 DEF Aims, At
<1>13. FlipAims'
    BY <1>0, <1>4, <1>7 DEF FlipAims, At
<1> QED BY <1>2, <1>5, <1>6, <1>8, <1>9, <1>11, <1>12, <1>13

LEMMA FlipIInv ==
    ASSUME IInv, NEW p \in Participants, Flip(p)
    PROVE  IInv'
<1> USE DEF IInv
<1> DEFINE b == At(calls[p])
<1>0. /\ counter' = counter /\ holder' = holder /\ awaited' = awaited
      /\ calls' = calls /\ pc[p] = "flip" /\ pc' = [pc EXCEPT ![p] = "unlock"]
      /\ sense' = IF counter[b] = awaited[p] THEN [sense EXCEPT ![b] = -@] ELSE sense
    BY DEF Flip, Goto, Reversed
<1>1. b \in Barriers /\ Inside(p)
    BY <1>0, InsideInCall DEF Inside
<1>2. Kinds'
    BY <1>0, <1>1 DEF Kinds
<1>3. \A q \in Participants : Arrived(q)' = Arrived(q)
    BY ArrivedKept
<1>4. /\ \A q \in Participants : (Inside(q)' <=> Inside(q)) /\ (AllArrived(q)' <=> AllArrived(q))
      /\ \A c : Waiting(c)' = Waiting(c)
    BY WaitingKept
<1>5. Turns'
    BY <1>0, <1>3 DEF Turns
<1>6. Locked'
    BY <1>0 DEF Locked, Kinds
<1>7. InCall'
    BY <1>0 DEF InCall, Kinds
<1>8. \A q \in Participants : pc[q]' # "flip"
    BY <1>0 DEF Kinds, Locked
<1>9. NoneAhead' /\ FlipAims'
    BY <1>8 DEF NoneAhead, FlipAims
<1>10. \A c : ~Flipping(c)'
    BY <1>8 DEF Flipping
<1>11. \A c : Flipping(c) <=> c = b /\ AllArrived(p)
    BY <1>0 DEF Flipping, Locked
<1>12. CASE AllArrived(p)
    <2>1. counter[b] = awaited[p]
        BY <1>12, <1>0 DEF FlipAims
    <2>2. sense' = [sense EXCEPT ![b] = -@]
        BY <1>0, <2>1
    <2>3. Waiting(b) = {}
        BY <1>11, <1>12, FlippingEmpties
    <2>4. Counted'
        <3> SUFFICES ASSUME NEW c \in Barriers
                     PROVE  Count1(c, sense'[c], counter'[c], Cardinality(Waiting(c)))
            BY <1>4, <1>10 DEF Counted
        <3>1. CASE c = b
            <4>1. Count1(b, sense[b], counter[b], Total)
                BY <1>1, <1>11, <1>12 DEF Counted
            <4>2. sense'[b] = -sense[b] /\ counter'[b] = counter[b]
                BY <2>2, <1>0, <1>1 DEF Kinds
            <4>3. Cardinality(Waiting(b)) = 0
                BY <2>3, FS_EmptySet
            <4> HIDE DEF b
            <4> QED BY <3>1, <4>1, <4>2, <4>3, TotalFacts DEF Count1
        <3>2. CASE c # b
            <4>1. sense'[c] = sense[c] /\ counter'[c] = counter[c]
                BY <3>2, <2>2, <1>0 DEF Kinds
            <4> QED BY <4>1, <3>2, <1>11 DEF Counted
        <3> QED BY <3>1, <3>2
    <2>5. Aims'
        <3> SUFFICES ASSUME NEW q \in Participants, Inside(q), ~AllArrived(q)
                     PROVE  awaited[q] = IF sense'[At(calls[q])] = Total THEN 0 ELSE Total
            BY <1>0, <1>4 DEF Aims, At
        <3>1. At(calls[q]) # b /\ At(calls[q]) \in Barriers
            BY <2>3, InsideInCall DEF Waiting, Inside
        <3>2. sense'[At(calls[q])] = sense[At(calls[q])]
            BY <3>1, <2>2 DEF Kinds
        <3> QED BY <3>2 DEF Aims
    <2> QED BY <2>4, <2>5, <1>2, <1>5, <1>6, <1>7, <1>9
<1>13. CASE ~AllArrived(p)
    <2>1. sense' = sense
        BY <1>0, <1>1, <1>13, NotReleased
    <2>2. Counted'
        BY <2>1, <1>0, <1>4, <1>10, <1>11, <1>13 DEF Counted
    <2>3. Aims'
        BY <2>1, <1>0, <1>4 DEF Aims, At
    <2> QED BY <2>2, <2>3, <1>2, <1>5, <1>6, <1>7, <1>9
<1> QED BY <1>12, <1>13
\* Count moves the counter by one in the direction of the sense.
LEMMA CountMoves ==
    ASSUME IInv, NEW p \in Participants, Count(p),
           NEW b, b = At(calls[p]), b \in Barriers
    PROVE  /\ \A c \in Barriers \ {b} : counter'[c] = counter[c]
           /\ \A q \in Participants \ {p} : awaited'[q] = awaited[q]
           /\ Kinds'
           /\ \/ /\ sense[b] = Total /\ counter[b] = Total - Cardinality(Waiting(b))
                 /\ awaited'[p] = 0 /\ counter'[b] = counter[b] - 1
              \/ /\ sense[b] = -Total /\ counter[b] = Cardinality(Waiting(b))
                 /\ awaited'[p] = Total /\ counter'[b] = counter[b] + 1
<1>0. Total > 0 /\ Total \in Nat
    BY TotalFacts
<1>1. Count1(b, sense[b], counter[b], Cardinality(Waiting(b)))
    BY CountFinds DEF IInv, Counted
<1>2. CountDown(p, b) \/ CountUp(p, b)
    BY DEF Count
<1>3. calls' = calls /\ sense' = sense /\ holder' = holder
      /\ pc' = [pc EXCEPT ![p] = "flip"]
    BY DEF Count, Goto
<1>4. CASE CountDown(p, b)
    <2>1. sense[b] = Total
        BY <1>0, <1>1, <1>4 DEF CountDown, Count1
    <2>2. counter[b] = Total - Cardinality(Waiting(b))
        BY <1>0, <1>1, <2>1 DEF Count1
    <2>3. awaited' = [awaited EXCEPT ![p] = 0] /\ counter' = [counter EXCEPT ![b] = @ - 1]
        BY <1>4 DEF CountDown
    <2>4. Kinds'
        BY <1>3, <2>3 DEF IInv, Kinds
    <2> QED BY <2>1, <2>2, <2>3, <2>4 DEF IInv, Kinds
<1>5. CASE CountUp(p, b)
    <2>1. sense[b] = -Total
        BY <1>0, <1>1, <1>5 DEF CountUp, Count1
    <2>2. counter[b] = Cardinality(Waiting(b))
        BY <1>0, <1>1, <2>1 DEF Count1
    <2>3. awaited' = [awaited EXCEPT ![p] = Total] /\ counter' = [counter EXCEPT ![b] = @ + 1]
        <3>1. -sense[b] = Total
            BY <1>0, <2>1
        <3> QED BY <1>5, <3>1 DEF CountUp
    <2>4. Kinds'
        BY <1>0, <1>3, <2>3 DEF IInv, Kinds
    <2> QED BY <2>1, <2>2, <2>3, <2>4 DEF IInv, Kinds
<1> QED BY <1>2, <1>4, <1>5

LEMMA CountIInv ==
    ASSUME IInv, NEW p \in Participants, Count(p)
    PROVE  IInv'
<1> DEFINE n == calls[p]
           b == At(n)
           W == Waiting(b)
           full == W = Participants \ {p}
<1>0. b \in Barriers /\ n \in 0..NumCalls - 1 /\ Total \in Nat /\ Total > 0
    BY CountFinds, TotalFacts
<1>1. /\ calls' = calls /\ sense' = sense /\ holder' = holder
      /\ \A q \in Participants \ {p} : /\ pc[q]' = pc[q]
                                       /\ Inside(q)' <=> Inside(q)
                                       /\ Arrived(q)' = Arrived(q)
      /\ pc[p]' = "flip" /\ Inside(p)' /\ Arrived(p)' = n + 1
    BY CountLeaves
<1>2. \A q \in Participants : AllArrived(q)' <=> AllArrived(q) \/ (calls[q] = n /\ full)
    BY CountLeaves
<1>3. /\ ~Inside(p) /\ holder = p
      /\ \A q \in Participants : /\ calls[q] <= n
                                 /\ Arrived(q) \in {n, n + 1}
                                 /\ pc[q] # "flip"
      /\ W = {q \in Participants : Arrived(q) = n + 1}
      /\ \A c : c # b => Waiting(c) = {}
    BY CountFinds
<1>4. /\ \A c \in Barriers \ {b} : counter'[c] = counter[c]
      /\ \A q \in Participants \ {p} : awaited'[q] = awaited[q]
      /\ Kinds'
      /\ \/ /\ sense[b] = Total /\ counter[b] = Total - Cardinality(W)
            /\ awaited'[p] = 0 /\ counter'[b] = counter[b] - 1
         \/ /\ sense[b] = -Total /\ counter[b] = Cardinality(W)
            /\ awaited'[p] = Total /\ counter'[b] = counter[b] + 1
    BY <1>0, CountMoves
<1>5. p \notin W /\ W \subseteq Participants /\ IsFiniteSet(W) /\ Cardinality(W) \in 0..Total
    BY <1>3, WaitingFinite DEF Waiting
<1>6. ~AllArrived(p)
    BY <1>3, <1>0, ArrivedType DEF AllArrived, IInv
<1>7. ASSUME NEW q \in Participants, Inside(q), ~AllArrived(q) PROVE q \in W
    BY <1>3, <1>7 DEF Waiting
<1>8. ASSUME NEW q \in W PROVE calls[q] = n /\ Inside(q) /\ ~AllArrived(q) /\ q # p
    <2>1. q \in Participants /\ Inside(q) /\ ~AllArrived(q)
        BY DEF Waiting
    <2>2. Arrived(q) = n + 1
        BY <1>3
    <2> QED BY <2>1, <2>2, <1>3, <1>0, ArrivedType DEF IInv
<1>9. full <=> Cardinality(W) = Total - 1
    <2>1. IsFiniteSet(Participants \ {p}) /\ Cardinality(Participants \ {p}) = Total - 1
        BY TotalFacts, FS_RemoveElement DEF Total
    <2>2. W \in SUBSET (Participants \ {p})
        BY <1>5
    <2> QED BY <2>1, <2>2, FS_Subset
<1>10. Turns'
    <2> SUFFICES ASSUME NEW q \in Participants, NEW r \in Participants
                 PROVE  calls[q] <= Arrived(r)'
        BY <1>1 DEF Turns
    <2>1. calls[q] \in Nat
        BY ArrivedType DEF IInv
    <2>2. CASE r = p
        BY <2>1, <2>2, <1>1, <1>3, <1>0
    <2>3. CASE r # p
        BY <2>3, <1>1 DEF Turns, IInv
    <2> QED BY <2>2, <2>3
<1>11. Locked'
    BY <1>1, <1>3 DEF Locked, IInv
<1>12. InCall'
    <2> SUFFICES ASSUME NEW q \in Participants, pc[q]' # "out"
                 PROVE  calls[q] < NumCalls
        BY <1>1 DEF InCall
    <2>1. CASE q = p
        BY <2>1, <1>0, ScheduleFacts
    <2>2. CASE q # p
        BY <2>2, <1>1 DEF InCall, IInv
    <2> QED BY <2>1, <2>2
<1>13. NoneAhead'
    BY <1>1, <1>3, <1>0 DEF NoneAhead
<1>14. Aims'
    <2> SUFFICES ASSUME NEW q \in Participants, Inside(q)', ~AllArrived(q)'
                 PROVE  awaited'[q] = IF sense[At(calls[q])] = Total THEN 0 ELSE Total
        BY <1>1 DEF Aims, At
    <2>1. CASE q = p
        BY <2>1, <1>4, <1>0
    <2>2. CASE q # p
        <3>1. Inside(q) /\ ~AllArrived(q)
            BY <2>2, <1>1, <1>2
        <3> QED BY <2>2, <3>1, <1>4 DEF Aims, IInv
    <2> QED BY <2>1, <2>2
<1>15. CASE full
    <2>1. AllArrived(p)'
        BY <1>2, <1>15
    <2>2. ASSUME NEW c PROVE Waiting(c)' = {}
        <3> SUFFICES ASSUME NEW q \in Participants, Inside(q)', ~AllArrived(q)' PROVE FALSE
            BY DEF Waiting
        <3>1. q # p
            BY <2>1
        <3>2. q \in W
            BY <3>1, <1>1, <1>2, <1>7
        <3> QED BY <3>2, <1>8, <1>2, <1>15
    <2>3. ASSUME NEW c PROVE Flipping(c)' <=> c = b
        BY <1>1, <1>3, <2>1 DEF Flipping, At
    <2>4. Counted'
        <3> SUFFICES ASSUME NEW c \in Barriers
                     PROVE  Count1(c, sense[c], counter'[c], IF c = b THEN Total ELSE 0)
            BY <1>1, <2>2, <2>3, FS_EmptySet DEF Counted
        <3>1. CASE c = b
            <4> HIDE DEF W, b
            <4> QED BY <3>1, <1>4, <1>9, <1>15, <1>0 DEF Count1
        <3>2. CASE c # b
            <4>1. Count1(c, sense[c], counter[c], 0)
                BY <3>2, <1>3, CountFinds, FS_EmptySet DEF IInv, Counted
            <4> QED BY <4>1, <3>2, <1>4
        <3> QED BY <3>1, <3>2
    <2>5. FlipAims'
        <3>1. awaited'[p] = counter'[b]
            <4> HIDE DEF W, b
            <4> QED BY <1>4, <1>9, <1>15, <1>0
        <3> QED BY <3>1, <1>1, <1>3 DEF FlipAims, At
    <2> QED BY <1>4, <1>10, <1>11, <1>12, <1>13, <1>14, <2>4, <2>5 DEF IInv
<1>16. CASE ~full
    <2>1. \A q \in Participants : AllArrived(q)' <=> AllArrived(q)
        BY <1>2, <1>16
    <2>2. ASSUME NEW c, c = b PROVE Waiting(c)' = W \cup {p}
        <3>1. ASSUME NEW q \in Participants
              PROVE  (Inside(q)' /\ At(calls[q]) = b /\ ~AllArrived(q)') <=> q \in W \cup {p}
            <4>1. CASE q = p
                BY <4>1, <1>1, <2>1, <1>6
            <4>2. CASE q # p
                BY <4>2, <1>1, <2>1 DEF Waiting
            <4> QED BY <4>1, <4>2
        <3>2. Waiting(c)' = {q \in Participants : Inside(q)' /\ At(calls[q]) = b /\ ~AllArrived(q)'}
            BY <2>2, <1>1 DEF Waiting, At
        <3> QED BY <3>1, <3>2, <1>5
    <2>3. ASSUME NEW c, c # b PROVE Waiting(c)' = {}
        <3> SUFFICES ASSUME NEW q \in Participants, Inside(q)', At(calls[q]) = c, ~AllArrived(q)'
                     PROVE  FALSE
            BY <1>1 DEF Waiting, At
        <3>1. q # p
            BY <2>3
        <3>2. q \in W
            BY <3>1, <1>1, <2>1, <1>7
        <3> QED BY <3>2, <1>8, <2>3
    <2>4. \A c : ~Flipping(c)'
        BY <1>1, <1>3, <2>1, <1>6 DEF Flipping
    <2>5. Cardinality(W \cup {p}) = Cardinality(W) + 1
        BY <1>5, FS_AddElement
    <2>6. Counted'
        <3> SUFFICES ASSUME NEW c \in Barriers
                     PROVE  Count1(c, sense[c], counter'[c], Cardinality(Waiting(c)'))
            BY <1>1, <2>4 DEF Counted
        <3>1. CASE c = b
            <4>1. Cardinality(Waiting(c)') = Cardinality(W) + 1
                BY <3>1, <2>2, <2>5
            <4> HIDE DEF W, b
            <4> QED BY <3>1, <4>1, <1>4, <1>5, <1>0 DEF Count1
        <3>2. CASE c # b
            <4>1. Cardinality(Waiting(c)') = 0
                BY <3>2, <2>3, FS_EmptySet
            <4>2. Count1(c, sense[c], counter[c], 0)
                BY <3>2, <1>3, CountFinds, FS_EmptySet DEF IInv, Counted
            <4> QED BY <4>1, <4>2, <3>2, <1>4
        <3> QED BY <3>1, <3>2
    <2>7. FlipAims'
        BY <1>1, <1>3, <2>1, <1>6 DEF FlipAims
    <2> QED BY <1>4, <1>10, <1>11, <1>12, <1>13, <1>14, <2>6, <2>7 DEF IInv
<1> QED BY <1>15, <1>16

LEMMA StutterIInv ==
    ASSUME IInv, UNCHANGED vars
    PROVE  IInv'
<1>1. /\ \A p \in Participants : /\ Inside(p)' <=> Inside(p)
                                 /\ Arrived(p)' = Arrived(p)
                                 /\ AllArrived(p)' <=> AllArrived(p)
    BY DEF vars, Inside, Arrived, AllArrived
<1>2. \A b : Waiting(b)' = Waiting(b) /\ (Flipping(b)' <=> Flipping(b))
    BY <1>1 DEF vars, Waiting, Flipping, At
<1> QED BY <1>1, <1>2 DEF vars, IInv, Kinds, Turns, Locked, InCall, NoneAhead,
        Counted, Aims, FlipAims, At

\* The counting invariant holds in every reachable state.
THEOREM CountsAreRight == Spec => []IInv
<1>1. Init => IInv
    BY InitIInv
<1>2. IInv /\ [Next]_vars => IInv'
    <2> SUFFICES ASSUME IInv, [Next]_vars PROVE IInv'
        OBVIOUS
    <2>1. ASSUME NEW p \in Participants, Step(p) PROVE IInv'
        BY <2>1, EnterIInv, CountIInv, FlipIInv, UnlockIInv, LeaveIInv DEF Step
    <2>2. CASE UNCHANGED vars
        BY <2>2, StutterIInv
    <2> QED BY <2>1, <2>2 DEF Next
<1> QED BY <1>1, <1>2, PTL DEF Spec

-----------------------------------------------------------------------------
(***************************************************************************)
(* What follows from the counts.                                           *)
(***************************************************************************)

\* The counters and senses of callBarrier and callLocalBarrier stay in their
\* ranges.
THEOREM TypeCorrect == Spec => []TypeOK
<1>1. IInv => TypeOK
    <2> SUFFICES ASSUME IInv PROVE TypeOK
        OBVIOUS
    <2>1. ASSUME NEW b \in Barriers
          PROVE  counter[b] \in 0..Total /\ sense[b] \in {Total, -Total}
        <3> DEFINE w == IF Flipping(b) THEN Total ELSE Cardinality(Waiting(b))
        <3>1. w \in 0..Total /\ Total \in Nat
            BY WaitingFinite, TotalFacts
        <3>2. Count1(b, sense[b], counter[b], w)
            BY DEF IInv, Counted
        <3> HIDE DEF w
        <3> QED BY <3>1, <3>2 DEF Count1
    <2> QED BY <2>1 DEF TypeOK, IInv, Kinds
<1> QED BY <1>1, CountsAreRight, PTL

\* Each step of a participant is a step of the rendezvous or none.
LEMMA StepRefines ==
    ASSUME IInv, NEW p \in Participants, Step(p)
    PROVE  [R!RNext]_(R!rvars)
<1>1. CASE Enter(p) \/ Flip(p) \/ Unlock(p)
    <2>1. calls' = calls
        BY <1>1 DEF Enter, Flip, Unlock
    <2>2. \A q \in Participants : Arrived(q)' = Arrived(q)
        BY <1>1, ArrivedKept DEF IInv
    <2> QED BY <2>1, <2>2 DEF R!rvars
<1>2. CASE Count(p)
    <2>1. calls' = calls /\ Arrived(p)' = calls[p] + 1
          /\ \A q \in Participants \ {p} : Arrived(q)' = Arrived(q)
        BY <1>2, CountLeaves
    <2>2. Arrived(p) = calls[p]
        BY <1>2, CountFinds, ArrivedType DEF IInv
    <2>3. [q \in Participants |-> Arrived(q)]' =
            [[q \in Participants |-> Arrived(q)] EXCEPT ![p] = @ + 1]
        BY <2>1, <2>2
    <2> QED BY <2>1, <2>2, <2>3 DEF R!RNext, R!Arrive
<1>3. CASE Leave(p)
    <2>1. \A q \in Participants : Arrived(q)' = Arrived(q)
        BY <1>3, ArrivedKept DEF IInv
    <2>2. calls' = [calls EXCEPT ![p] = @ + 1] /\ Inside(p)
        BY <1>3 DEF Leave, Goto, Inside
    <2>3. Arrived(p) = calls[p] + 1 /\ calls[p] \in Nat
        BY <2>2, ArrivedType DEF IInv
    <2>4. \A q \in Participants : Arrived(q) >= Arrived(p)
        <3>1. AllArrived(p)
            BY <1>3, WaitingKeptByLeave
        <3>2. ASSUME NEW q \in Participants PROVE Arrived(q) >= calls[p] + 1
            BY <3>1, <2>3, ArrivedType DEF AllArrived, IInv
        <3> QED BY <3>2, <2>3
    <2> DEFINE arrived == [q \in Participants |-> Arrived(q)]
    <2>5. arrived' = arrived
        BY <2>1
    <2>6. calls[p] < arrived[p] /\ \A q \in Participants : arrived[q] >= arrived[p]
        BY <2>3, <2>4
    <2>7. R!Leave(p)
        BY <2>2, <2>5, <2>6 DEF R!Leave, R!AllHere
    <2> QED BY <2>7 DEF R!RNext
<1> QED BY <1>1, <1>2, <1>3 DEF Step

\* No call of callBarrier or callLocalBarrier returns before every participant
\* has made it, for any number of participants and any order of the barriers.
THEOREM BarrierIsRendezvous == Spec => ImplementsRendezvous
<1>1. Init => R!RInit
    BY DEF Init, R!RInit, Arrived, Inside
<1>2. IInv /\ [Next]_vars => [R!RNext]_(R!rvars)
    <2> SUFFICES ASSUME IInv, [Next]_vars PROVE [R!RNext]_(R!rvars)
        OBVIOUS
    <2>1. CASE Next
        BY <2>1, StepRefines DEF Next
    <2>2. CASE UNCHANGED vars
        BY <2>2 DEF vars, R!rvars, Arrived, Inside
    <2> QED BY <2>1, <2>2
<1> QED BY <1>1, <1>2, CountsAreRight, PTL DEF Spec, ImplementsRendezvous, R!RSpec

\* After Count, whoever is inside a barrier everybody has reached finds the counter
\* at the value it waits for: p moved this barrier's counter there, or another's.
LEMMA CountReleases ==
    ASSUME IInv, Alternates, ReleaseIsNotMissed, NEW p \in Participants, Count(p),
           NEW q \in Participants, Inside(q)', AllArrived(q)'
    PROVE  counter'[At(calls[q])] = awaited'[q]
<1> DEFINE n == calls[p]
           b == At(n)
<1>1. /\ \A r \in Participants \ {p} : Inside(r)' <=> Inside(r)
      /\ AllArrived(q) \/ (calls[q] = n /\ Waiting(b) = Participants \ {p})
    BY CountLeaves
<1>2. /\ b \in Barriers /\ n \in 0..NumCalls - 1 /\ ~Inside(p)
      /\ calls[q] <= n /\ calls[q] \in Nat
    BY CountFinds, ArrivedType DEF IInv
<1>3. Arrived(p) = n
    BY <1>2, ArrivedType DEF IInv
<1>4. CASE AllArrived(q)
    <2>1. calls[q] < n /\ q # p
        BY <1>4, <1>3, <1>2 DEF AllArrived
    <2>2. Inside(q) /\ counter[At(calls[q])] = awaited[q]
        BY <2>1, <1>1, <1>4 DEF ReleaseIsNotMissed
    <2>3. calls[q] = n - 1 /\ At(calls[q]) \in Barriers
        <3>1. n <= Arrived(q)
            BY DEF IInv, Turns
        <3>2. Arrived(q) = calls[q] + 1
            BY <2>2, ArrivedType DEF IInv
        <3> QED BY <3>1, <3>2, <2>1, <2>2, <1>2, InsideInCall DEF IInv, Inside
    <2>4. At(calls[q]) # b
        <3>1. n \in 1..NumCalls - 1
            BY <1>2, <2>3, ScheduleFacts
        <3> QED BY <3>1, <2>3, <1>2 DEF Alternates, At
    <2>5. /\ \A c \in Barriers \ {b} : counter'[c] = counter[c]
          /\ \A r \in Participants \ {p} : awaited'[r] = awaited[r]
        BY <1>2, CountMoves
    <2> QED BY <2>1, <2>2, <2>3, <2>4, <2>5
<1>5. CASE calls[q] = n /\ Waiting(b) = Participants \ {p}
    <2>1. /\ \A r \in Participants \ {p} : awaited'[r] = awaited[r]
          /\ \/ /\ sense[b] = Total /\ counter[b] = Total - Cardinality(Waiting(b))
                /\ awaited'[p] = 0 /\ counter'[b] = counter[b] - 1
             \/ /\ sense[b] = -Total /\ counter[b] = Cardinality(Waiting(b))
                /\ awaited'[p] = Total /\ counter'[b] = counter[b] + 1
        BY <1>2, CountMoves
    <2>2. Cardinality(Waiting(b)) = Total - 1 /\ Total \in Nat /\ Total > 0
        BY <1>5, TotalFacts, FS_RemoveElement DEF Total
    <2>3. awaited'[q] = IF sense[b] = Total THEN 0 ELSE Total
        <3>1. CASE q = p
            <4> HIDE DEF b
            <4> QED BY <3>1, <2>1, <2>2
        <3>2. CASE q # p
            <4>1. q \in Waiting(b)
                BY <3>2, <1>5
            <4>2. awaited[q] = IF sense[b] = Total THEN 0 ELSE Total
                BY <4>1, <1>5 DEF Waiting, IInv, Aims
            <4> QED BY <4>2, <3>2, <2>1
        <3> QED BY <3>1, <3>2
    <2>4. counter'[b] = IF sense[b] = Total THEN 0 ELSE Total
        <3> HIDE DEF b
        <3> QED BY <2>1, <2>2
    <2> QED BY <2>3, <2>4, <1>5
<1> QED BY <1>1, <1>4, <1>5

\* When no barrier of the schedule is used for two calls in a row, as callBarrier
\* is by histo, dotproduct, edgedetect, regdetect and floydwarshall (not by
\* doitgen, and never callLocalBarrier), no participant misses its release.
THEOREM ReleaseTheorem ==
    ASSUME Alternates
    PROVE  Spec => []ReleaseIsNotMissed
<1>1. Init => ReleaseIsNotMissed
    BY DEF Init, ReleaseIsNotMissed, Inside
<1>2. ASSUME IInv, ReleaseIsNotMissed, [Next]_vars
      PROVE  ReleaseIsNotMissed'
    <2> SUFFICES ASSUME NEW q \in Participants, Inside(q)', AllArrived(q)'
                 PROVE  counter'[At(calls'[q])] = awaited'[q]
        BY DEF ReleaseIsNotMissed, At
    <2>1. ASSUME NEW p \in Participants, Enter(p) \/ Flip(p) \/ Unlock(p)
          PROVE  counter'[At(calls'[q])] = awaited'[q]
        <3>1. Inside(q) /\ AllArrived(q)
            BY <1>2, <2>1, WaitingKept DEF IInv
        <3>2. counter' = counter /\ awaited' = awaited /\ calls' = calls
            BY <2>1 DEF Enter, Flip, Unlock
        <3> QED BY <1>2, <3>1, <3>2 DEF ReleaseIsNotMissed
    <2>2. ASSUME NEW p \in Participants, Leave(p)
          PROVE  counter'[At(calls'[q])] = awaited'[q]
        <3>1. q # p /\ Inside(q) /\ AllArrived(q) /\ calls'[q] = calls[q]
            BY <1>2, <2>2, WaitingKeptByLeave
        <3>2. counter' = counter /\ awaited' = awaited
            BY <2>2 DEF Leave
        <3> QED BY <1>2, <3>1, <3>2 DEF ReleaseIsNotMissed
    <2>3. ASSUME NEW p \in Participants, Count(p)
          PROVE  counter'[At(calls'[q])] = awaited'[q]
        <3>1. calls' = calls
            BY <2>3 DEF Count
        <3> QED BY <3>1, <2>3, <1>2, CountReleases
    <2>4. CASE UNCHANGED vars
        BY <2>4, <1>2 DEF vars, ReleaseIsNotMissed, Inside, AllArrived, Arrived
    <2> QED BY <1>2, <2>1, <2>2, <2>3, <2>4 DEF Next, Step
<1> QED BY <1>1, <1>2, CountsAreRight, PTL DEF Spec


-----------------------------------------------------------------------------
(***************************************************************************)
(* The programs without barriers, for matrices of any size and any number  *)
(* of calls: what a processor keeps of a line, and what it owes the memory.*)
(***************************************************************************)

\* The rows each task is given, of those its processor has.
Share(p) == IF p = "M3" THEN Halves(rows[p]) ELSE [NoRows EXCEPT !["t1"] = rows[p]]

\* A row that is done in this call, and not answered for yet.
Worked(p, i) ==
  mpPc[p] = "work" /\ \E t \in TasksOf(p) : Share(p)[t][1] <= i /\ i < taskRows[p][t][1]

MpTypes ==
  /\ MpTypeOK
  /\ product \in 0 .. Products
  /\ rows \in [Processors -> Int \X Int]
  /\ taskRows \in [Processors -> [MpTasks -> Int \X Int]]
  /\ posted \in [Processors -> SUBSET MpTasks]

\* The two processors are called together, for rows that make up the matrix.
CallInv ==
  /\ mpPc["M3"] = "idle" <=> mpPc["DSP"] = "idle"
  /\ mpPc["M3"] # "idle" =>
       \E split \in 0 .. Size : rows["M3"] = <<0, split>> /\ rows["DSP"] = <<split, Size>>
  /\ \A p \in Processors : mpPc[p] # "work" => posted[p] = {}

\* Where a task of a processor at work is in its share.
TaskInv(p) ==
  \A t \in TasksOf(p) :
    /\ taskRows[p][t][2] = Share(p)[t][2]
    /\ Share(p)[t][1] <= taskRows[p][t][1] /\ taskRows[p][t][1] <= Share(p)[t][2]
    /\ t \in posted[p] => taskRows[p][t][1] = Share(p)[t][2]

\* The host's lines are those of this call; a line that is dirty is a row of C that its
\* processor has worked out, and a row that is worked out is dirty or in memory; a
\* processor at work has nothing of another call.
CacheInv ==
  /\ \A l \in Lines : l[1] # "C" => memory[l] = product
  /\ \A p \in Processors, l \in Lines : l \in dirty[p] =>
       l[1] = "C" /\ Worked(p, l[2]) /\ cached[p][l] = product
  /\ \A p \in Processors, l \in Lines : mpPc[p] = "work" /\ cached[p][l] # Absent => cached[p][l] = product
  /\ \A p \in Processors, i \in MatrixRows : Worked(p, i) =>
       <<"C", i>> \in dirty[p] \/ memory[<<"C", i>>] = product
  /\ \A p \in Processors, i \in MatrixRows :
       mpPc[p] = "done" /\ rows[p][1] <= i /\ i < rows[p][2] => memory[<<"C", i>>] = product

MpInv ==
  /\ MpTypes /\ CallInv /\ CacheInv
  /\ \A p \in Processors : mpPc[p] = "work" => TaskInv(p)

LEMMA LinesAreRows ==
  /\ \A l \in Lines : l[1] \in {"A", "B", "C"} /\ l[2] \in MatrixRows /\ l = <<l[1], l[2]>>
  /\ \A i \in MatrixRows, n \in {"A", "B", "C"} : <<n, i>> \in Lines /\ <<n, i>>[1] = n /\ <<n, i>>[2] = i
BY DEF Lines

\* A task's share lies in the rows of its processor, and the shares make them up.
LEMMA SharesMakeUp ==
  ASSUME NEW p \in Processors, rows[p][1] \in Int, rows[p][2] \in Int, rows[p][1] <= rows[p][2]
  PROVE  /\ \A t \in TasksOf(p) :
              /\ Share(p)[t][1] \in Int /\ Share(p)[t][2] \in Int
              /\ rows[p][1] <= Share(p)[t][1] /\ Share(p)[t][1] <= Share(p)[t][2]
              /\ Share(p)[t][2] <= rows[p][2]
         /\ \A i \in Int : rows[p][1] <= i /\ i < rows[p][2] =>
              \E t \in TasksOf(p) : Share(p)[t][1] <= i /\ i < Share(p)[t][2]
<1>. DEFINE a == rows[p][1]
            b == rows[p][2]
            h == (b - a) \div 2
<1>1. h \in Int /\ 0 <= h /\ h <= b - a
  OBVIOUS
<1>. HIDE DEF h
<1>2. CASE p = "M3"
  <2>1. Share(p) = [t \in MpTasks |-> IF t = "t1" THEN <<a, a + h>> ELSE <<a + h, b>>]
    BY <1>2 DEF Share, Halves, h
  <2>2. /\ Share(p)["t1"][1] = a /\ Share(p)["t1"][2] = a + h
        /\ Share(p)["t2"][1] = a + h /\ Share(p)["t2"][2] = b
    BY <2>1 DEF MpTasks
  <2>3. TasksOf(p) = {"t1", "t2"}
    BY <1>2 DEF TasksOf, MpTasks
  <2>. QED BY <1>1, <2>2, <2>3
<1>3. CASE p = "DSP"
  <2>1. TasksOf(p) = {"t1"} /\ Share(p)["t1"] = rows[p]
    BY <1>3 DEF TasksOf, Share, NoRows, MpTasks
  <2>. QED BY <2>1
<1>. QED BY <1>2, <1>3 DEF Processors

\* What is written back is of this call.
LEMMA WriteBack ==
  ASSUME MpInv, NEW p \in Processors, NEW lines, memory' = LinesWritten(p, lines)
  PROVE  /\ memory' \in [Lines -> 0 .. Products]
         /\ \A l \in Lines : l[1] # "C" => memory'[l] = memory[l]
         /\ \A l \in Lines : memory'[l] = memory[l] \/ memory'[l] = product
         /\ \A l \in lines \cap dirty[p] : memory'[l] = product
<1>1. memory \in [Lines -> 0 .. Products] /\ product \in 0 .. Products /\ dirty[p] \subseteq Lines
  BY DEF MpInv, MpTypes, MpTypeOK
<1>2. \A l \in dirty[p] : l[1] = "C" /\ cached[p][l] = product
  BY <1>1 DEF MpInv, CacheInv
<1>. QED BY <1>1, <1>2 DEF LinesWritten

LEMMA MpTypesHold ==
  ASSUME MpInv
  PROVE  /\ memory \in [Lines -> 0 .. Products] /\ product \in 0 .. Products
         /\ cached \in [Processors -> [Lines -> {Absent} \cup 0 .. Products]]
         /\ dirty \in [Processors -> SUBSET Lines]
         /\ mpPc \in [Processors -> {"idle", "called", "work", "done"}]
         /\ rows \in [Processors -> Int \X Int]
         /\ taskRows \in [Processors -> [MpTasks -> Int \X Int]]
         /\ posted \in [Processors -> SUBSET MpTasks]
BY DEF MpInv, MpTypes, MpTypeOK

LEMMA RowsOfCall ==
  ASSUME MpInv, NEW p \in Processors, mpPc[p] # "idle"
  PROVE  /\ rows[p][1] \in Int /\ rows[p][2] \in Int
         /\ 0 <= rows[p][1] /\ rows[p][1] <= rows[p][2] /\ rows[p][2] <= Size
BY MultiplyAssumption DEF MpInv, CallInv, Processors

LEMMA MpStarts == MpInit => MpInv
<1>. SUFFICES ASSUME MpInit PROVE MpInv
  OBVIOUS
<1>1. MpTypes
  BY MultiplyAssumption DEF MpInit, MpTypes, MpTypeOK, NoRows, Absent
<1>2. \A p \in Processors : mpPc[p] = "idle" /\ posted[p] = {} /\ dirty[p] = {}
  BY DEF MpInit
<1>3. CallInv
  BY <1>2 DEF CallInv, Processors
<1>4. CacheInv
  BY <1>2 DEF MpInit, CacheInv, Worked
<1>. QED BY <1>1, <1>2, <1>3, <1>4 DEF MpInv

LEMMA HostCallsKeeps ==
  ASSUME MpInv, NEW split \in 0 .. Size, HostCalls(split)
  PROVE  MpInv'
<1>1. /\ product < Products /\ product' = product + 1
      /\ memory' = [l \in Lines |-> IF l[1] = "C" THEN memory[l] ELSE product']
      /\ rows' = [p \in Processors |-> IF p = "M3" THEN <<0, split>> ELSE <<split, Size>>]
      /\ mpPc' = [p \in Processors |-> "called"]
      /\ UNCHANGED <<cached, dirty, taskRows, posted>>
      /\ \A p \in Processors : mpPc[p] = "idle"
  BY DEF HostCalls
<1>2. product' \in 0 .. Products
  BY <1>1, MpTypesHold, MultiplyAssumption
<1>3. \A p \in Processors : dirty[p] = {} /\ posted[p] = {}
  BY <1>1, MpTypesHold DEF MpInv, CallInv, CacheInv, Worked
<1>4. MpTypes'
  <2>1. memory' \in [Lines -> 0 .. Products]
    BY <1>1, <1>2, MpTypesHold
  <2>2. rows' \in [Processors -> Int \X Int]
    BY <1>1, MultiplyAssumption
  <2>. QED BY <1>1, <1>2, <2>1, <2>2, MpTypesHold DEF MpTypes, MpTypeOK
<1>5. CallInv'
  <2>1. rows'["M3"] = <<0, split>> /\ rows'["DSP"] = <<split, Size>>
    BY <1>1 DEF Processors
  <2>. QED BY <1>1, <1>3, <2>1 DEF CallInv, Processors
<1>6. CacheInv'
  BY <1>1, <1>3 DEF CacheInv, Worked
<1>. QED BY <1>1, <1>4, <1>5, <1>6 DEF MpInv

\* A step of one processor in which the rows stay: what is left to show is about it.
LEMMA OthersAreKept ==
  ASSUME MpInv, NEW p \in Processors, UNCHANGED <<product, rows>>,
         NEW place \in {"work", "done"}, mpPc' = [mpPc EXCEPT ![p] = place], mpPc[p] # "idle",
         \A q \in Processors \ {p} : /\ cached'[q] = cached[q] /\ dirty'[q] = dirty[q]
                                     /\ taskRows'[q] = taskRows[q] /\ posted'[q] = posted[q],
         \A l \in Lines : l[1] # "C" => memory'[l] = memory[l],
         \A l \in Lines : memory'[l] = memory[l] \/ memory'[l] = product,
         MpTypes', place # "work" => posted'[p] = {}, place = "work" => TaskInv(p)',
         \A l \in Lines : l \in dirty'[p] => l[1] = "C" /\ Worked(p, l[2])' /\ cached'[p][l] = product,
         \A l \in Lines : place = "work" /\ cached'[p][l] # Absent => cached'[p][l] = product,
         \A i \in MatrixRows : Worked(p, i)' => <<"C", i>> \in dirty'[p] \/ memory'[<<"C", i>>] = product,
         \A i \in MatrixRows : place = "done" /\ rows[p][1] <= i /\ i < rows[p][2] => memory'[<<"C", i>>] = product
  PROVE  MpInv'
<1>1. /\ mpPc'[p] = place /\ \A q \in Processors \ {p} : mpPc'[q] = mpPc[q]
  BY MpTypesHold
<1>2. \A q \in Processors \ {p} : TaskInv(q)' <=> TaskInv(q)
  BY DEF TaskInv, Share, TasksOf
<1>3. \A q \in Processors \ {p} : \A i \in MatrixRows : Worked(q, i)' <=> Worked(q, i)
  BY <1>1 DEF Worked, Share, TasksOf
<1>6. \A i \in MatrixRows : memory'[<<"C", i>>] = memory[<<"C", i>>] \/ memory'[<<"C", i>>] = product
  BY DEF Lines
<1>4. CallInv'
  <2>1. mpPc'["M3"] # "idle" /\ mpPc'["DSP"] # "idle" /\ mpPc["M3"] # "idle"
    BY <1>1 DEF MpInv, CallInv, Processors
  <2>2. \A q \in Processors : mpPc'[q] # "work" => posted'[q] = {}
    BY <1>1 DEF MpInv, CallInv
  <2>. QED BY <2>1, <2>2 DEF MpInv, CallInv
<1>5. CacheInv'
  <2>1. \A l \in Lines : l[1] # "C" => memory'[l] = product
    BY DEF MpInv, CacheInv
  <2>2. ASSUME NEW q \in Processors \ {p}, NEW l \in Lines, l \in dirty'[q]
        PROVE  l[1] = "C" /\ Worked(q, l[2])' /\ cached'[q][l] = product
    BY <1>3, <2>2, LinesAreRows DEF MpInv, CacheInv
  <2>3. ASSUME NEW q \in Processors \ {p}, NEW l \in Lines, mpPc'[q] = "work", cached'[q][l] # Absent
        PROVE  cached'[q][l] = product
    BY <1>1, <2>3 DEF MpInv, CacheInv
  <2>4. ASSUME NEW q \in Processors \ {p}, NEW i \in MatrixRows, Worked(q, i)'
        PROVE  <<"C", i>> \in dirty'[q] \/ memory'[<<"C", i>>] = product
    <3>1. <<"C", i>> \in dirty[q] \/ memory[<<"C", i>>] = product
      BY <1>3, <2>4 DEF MpInv, CacheInv
    <3>. QED BY <1>6, <3>1
  <2>5. ASSUME NEW q \in Processors \ {p}, NEW i \in MatrixRows, mpPc'[q] = "done",
               rows[q][1] <= i, i < rows[q][2]
        PROVE  memory'[<<"C", i>>] = product
    <3>1. memory[<<"C", i>>] = product
      BY <1>1, <2>5 DEF MpInv, CacheInv
    <3>. QED BY <1>6, <3>1
  <2>. QED BY <1>1, <2>1, <2>2, <2>3, <2>4, <2>5 DEF CacheInv
<1>. QED BY <1>1, <1>2, <1>4, <1>5 DEF MpInv

LEMMA MpEnterKeeps ==
  ASSUME MpInv, NEW p \in Processors, MpEnter(p)
  PROVE  MpInv'
<1>1. /\ mpPc[p] = "called" /\ mpPc' = [mpPc EXCEPT ![p] = "work"]
      /\ cached' = [cached EXCEPT ![p] = [l \in Lines |-> IF l \in Lines THEN Absent ELSE cached[p][l]]]
      /\ dirty' = [dirty EXCEPT ![p] = dirty[p] \ Lines]
      /\ taskRows' = [taskRows EXCEPT ![p] = Share(p)]
      /\ UNCHANGED <<memory, product, rows, posted>>
  BY DEF MpEnter, Invalidated, Dropped, Share
<1>2. /\ \A l \in Lines : cached'[p][l] = Absent
      /\ dirty'[p] = {} /\ taskRows'[p] = Share(p) /\ mpPc'[p] = "work" /\ posted[p] = {}
      /\ \A q \in Processors \ {p} : /\ cached'[q] = cached[q] /\ dirty'[q] = dirty[q]
                                     /\ taskRows'[q] = taskRows[q]
  BY <1>1, MpTypesHold DEF MpInv, CallInv
<1>3. /\ rows[p][1] \in Int /\ rows[p][2] \in Int /\ rows[p][1] <= rows[p][2]
      /\ \A t \in TasksOf(p) : /\ Share(p)[t][1] \in Int /\ Share(p)[t][2] \in Int
                               /\ Share(p)[t][1] <= Share(p)[t][2]
  BY <1>1, RowsOfCall, SharesMakeUp
<1>4. MpTypes'
  <2>1. Share(p) \in [MpTasks -> Int \X Int]
    <3>1. NoRows \in [MpTasks -> Int \X Int] /\ rows[p] \in Int \X Int
      BY MpTypesHold DEF NoRows
    <3>2. CASE p = "M3"
      <4>1. (rows[p][2] - rows[p][1]) \div 2 \in Int
        BY <1>3
      <4>. QED BY <1>3, <3>2, <4>1 DEF Share, Halves
    <3>3. CASE p # "M3"
      BY <3>1, <3>3 DEF Share
    <3>. QED BY <3>2, <3>3
  <2>2. taskRows' \in [Processors -> [MpTasks -> Int \X Int]]
    BY <1>1, <2>1, MpTypesHold
  <2>3. cached' \in [Processors -> [Lines -> {Absent} \cup 0 .. Products]]
    BY <1>1, MpTypesHold
  <2>4. dirty' \in [Processors -> SUBSET Lines] /\ mpPc' \in [Processors -> {"idle", "called", "work", "done"}]
    BY <1>1, MpTypesHold
  <2>. QED BY <1>1, <2>2, <2>3, <2>4, MpTypesHold DEF MpTypes, MpTypeOK
<1>5. TaskInv(p)'
  <2>1. Share(p)' = Share(p)
    BY <1>1 DEF Share
  <2>. QED BY <1>1, <1>2, <1>3, <2>1 DEF TaskInv
<1>6. \A i \in MatrixRows : ~Worked(p, i)'
  <2>1. Share(p)' = Share(p)
    BY <1>1 DEF Share
  <2>2. ASSUME NEW i \in MatrixRows, NEW t \in TasksOf(p), Share(p)[t][1] <= i, i < Share(p)[t][1] PROVE FALSE
    BY <1>3, <2>2, MultiplyAssumption DEF MatrixRows
  <2>. QED BY <1>2, <2>1, <2>2 DEF Worked
<1>. QED BY <1>1, <1>2, <1>4, <1>5, <1>6, OthersAreKept

LEMMA MultiplyRowKeeps ==
  ASSUME MpInv, NEW p \in Processors, NEW t \in MpTasks, MultiplyRow(p, t)
  PROVE  MpInv'
<1>. DEFINE i == taskRows[p][t][1]
            own == <<"C", i>>
            reads == {<<"A", i>>} \cup {<<"B", k>> : k \in MatrixRows}
            Seen(l) == IF cached[p][l] = Absent THEN memory[l] ELSE cached[p][l]
<1>1. /\ mpPc[p] = "work" /\ t \in TasksOf(p) /\ i < taskRows[p][t][2]
      /\ cached' = [cached EXCEPT ![p] = [l \in Lines |->
           IF l \in reads THEN Seen(l)
           ELSE IF l = own THEN (IF \A r \in reads : Seen(r) = product THEN product ELSE 0)
           ELSE cached[p][l]]]
      /\ dirty' = [dirty EXCEPT ![p] = dirty[p] \cup {own}]
      /\ taskRows' = [taskRows EXCEPT ![p] = [taskRows[p] EXCEPT ![t] = [taskRows[p][t] EXCEPT ![1] = i + 1]]]
      /\ UNCHANGED <<memory, product, rows, mpPc, posted>>
  BY MpTypesHold DEF MultiplyRow
<1>2. /\ rows[p][1] \in Int /\ rows[p][2] \in Int /\ 0 <= rows[p][1] /\ rows[p][2] <= Size
      /\ \A u \in TasksOf(p) :
           /\ Share(p)[u][1] \in Int /\ Share(p)[u][2] \in Int /\ 0 <= Share(p)[u][1]
           /\ Share(p)[u][2] <= Size
  BY <1>1, RowsOfCall, SharesMakeUp, MultiplyAssumption
<1>3. TaskInv(p) /\ \A u \in MpTasks : taskRows[p][u][1] \in Int /\ taskRows[p][u][2] \in Int
  BY <1>1, MpTypesHold DEF MpInv
<1>4. i \in Int /\ Share(p)[t][1] <= i /\ i < Share(p)[t][2] /\ i \in MatrixRows /\ t \notin posted[p]
  BY <1>1, <1>2, <1>3, MultiplyAssumption DEF TaskInv, MatrixRows
<1>5. /\ taskRows'[p][t][1] = i + 1 /\ taskRows'[p][t][2] = taskRows[p][t][2]
      /\ \A u \in MpTasks \ {t} : taskRows'[p][u] = taskRows[p][u]
      /\ taskRows' \in [Processors -> [MpTasks -> Int \X Int]]
  <2>1. taskRows[p][t] \in Int \X Int
    BY MpTypesHold
  <2>2. [taskRows[p][t] EXCEPT ![1] = i + 1] = <<i + 1, taskRows[p][t][2]>>
    BY <2>1
  <2>. QED BY <1>1, <1>4, <2>1, <2>2, MpTypesHold
<1>6. reads \subseteq Lines /\ own \in Lines /\ own[1] = "C" /\ own[2] = i /\ own \notin reads
      /\ \A l \in reads : l[1] # "C"
  BY <1>4 DEF Lines
<1>. HIDE DEF i, own, reads
<1>7. \A l \in reads : Seen(l) = product
  BY <1>1, <1>6 DEF MpInv, CacheInv
<1>8. /\ \A l \in Lines : cached'[p][l] = IF l \in reads \cup {own} THEN product ELSE cached[p][l]
      /\ cached'[p] \in [Lines -> {Absent} \cup 0 .. Products]
      /\ cached' = [cached EXCEPT ![p] = cached'[p]]
  BY <1>1, <1>6, <1>7, MpTypesHold
<1>9. /\ dirty'[p] = dirty[p] \cup {own}
      /\ \A q \in Processors \ {p} : /\ cached'[q] = cached[q] /\ dirty'[q] = dirty[q]
                                     /\ taskRows'[q] = taskRows[q]
      /\ mpPc' = [mpPc EXCEPT ![p] = "work"]
  BY <1>1, MpTypesHold
<1>10. MpTypes'
  <2>1. cached' \in [Processors -> [Lines -> {Absent} \cup 0 .. Products]]
    BY <1>8, MpTypesHold
  <2>2. dirty' \in [Processors -> SUBSET Lines]
    BY <1>1, <1>6, MpTypesHold
  <2>. QED BY <1>1, <1>5, <2>1, <2>2, MpTypesHold DEF MpTypes, MpTypeOK
<1>11. Share(p)' = Share(p) /\ posted'[p] = posted[p]
  BY <1>1 DEF Share
<1>12. TaskInv(p)'
  <2>. SUFFICES ASSUME NEW u \in TasksOf(p)
                PROVE  /\ taskRows'[p][u][2] = Share(p)[u][2]
                       /\ Share(p)[u][1] <= taskRows'[p][u][1] /\ taskRows'[p][u][1] <= Share(p)[u][2]
                       /\ u \in posted[p] => taskRows'[p][u][1] = Share(p)[u][2]
    BY <1>11 DEF TaskInv
  <2>1. CASE u = t
    <3>1. Share(p)[t][1] <= i + 1 /\ i + 1 <= Share(p)[t][2] /\ taskRows[p][t][2] = Share(p)[t][2]
      BY <1>1, <1>2, <1>3, <1>4 DEF TaskInv
    <3>. QED BY <1>4, <1>5, <2>1, <3>1
  <2>2. CASE u # t
    <3>1. u \in MpTasks
      BY DEF TasksOf, MpTasks
    <3>. QED BY <1>3, <1>5, <2>2, <3>1 DEF TaskInv
  <2>. QED BY <2>1, <2>2
<1>13. \A j \in MatrixRows : Worked(p, j)' <=> Worked(p, j) \/ j = i
  <2>1. ASSUME NEW j \in MatrixRows, NEW u \in TasksOf(p)
        PROVE  (Share(p)[u][1] <= j /\ j < taskRows'[p][u][1])
               <=> (Share(p)[u][1] <= j /\ j < taskRows[p][u][1]) \/ (u = t /\ j = i)
    <3>1. j \in Int /\ u \in MpTasks
      BY MultiplyAssumption DEF MatrixRows, TasksOf, MpTasks
    <3>2. CASE u = t
      <4>1. (Share(p)[t][1] <= j /\ j < i + 1) <=> (Share(p)[t][1] <= j /\ j < i) \/ j = i
        BY <1>2, <1>4, <3>1
      <4>. QED BY <1>5, <3>2, <4>1 DEF i
    <3>3. CASE u # t
      BY <1>5, <3>1, <3>3
    <3>. QED BY <3>2, <3>3
  <2>. QED BY <1>1, <1>11, <2>1 DEF Worked
<1>14. ASSUME NEW l \in Lines, l \in dirty'[p]
       PROVE  l[1] = "C" /\ Worked(p, l[2])' /\ cached'[p][l] = product
  <2>1. CASE l = own
    BY <1>4, <1>6, <1>8, <1>13, <2>1
  <2>2. CASE l \in dirty[p]
    BY <1>8, <1>13, <2>2, LinesAreRows DEF MpInv, CacheInv
  <2>. QED BY <1>9, <1>14, <2>1, <2>2
<1>15. \A l \in Lines : cached'[p][l] # Absent => cached'[p][l] = product
  BY <1>1, <1>8 DEF MpInv, CacheInv
<1>16. \A j \in MatrixRows : Worked(p, j)' => <<"C", j>> \in dirty'[p] \/ memory'[<<"C", j>>] = product
  BY <1>1, <1>9, <1>13 DEF MpInv, CacheInv, own
<1>. QED BY <1>1, <1>9, <1>10, <1>12, <1>14, <1>15, <1>16, OthersAreKept

LEMMA PostEventKeeps ==
  ASSUME MpInv, NEW p \in Processors, NEW t \in MpTasks, PostEvent(p, t)
  PROVE  MpInv'
<1>1. /\ mpPc[p] = "work" /\ t \in TasksOf(p) /\ taskRows[p][t][1] >= taskRows[p][t][2]
      /\ posted' = [posted EXCEPT ![p] = posted[p] \cup {t}]
      /\ UNCHANGED <<memory, cached, dirty, product, rows, mpPc, taskRows>>
  BY DEF PostEvent
<1>2. posted'[p] = posted[p] \cup {t} /\ \A q \in Processors \ {p} : posted'[q] = posted[q]
      /\ posted' \in [Processors -> SUBSET MpTasks]
  BY <1>1, MpTypesHold
<1>3. MpTypes'
  BY <1>1, <1>2, MpTypesHold DEF MpTypes, MpTypeOK
<1>4. TaskInv(p)'
  <2>1. TaskInv(p) /\ taskRows[p][t][1] \in Int /\ taskRows[p][t][2] \in Int
    BY <1>1, MpTypesHold DEF MpInv
  <2>2. taskRows[p][t][1] = Share(p)[t][2]
    BY <1>1, <2>1 DEF TaskInv
  <2>3. Share(p)' = Share(p)
    BY <1>1 DEF Share
  <2>. QED BY <1>1, <1>2, <2>1, <2>2, <2>3 DEF TaskInv
<1>5. CallInv'
  BY <1>1, <1>2 DEF MpInv, CallInv
<1>6. \A q \in Processors \ {p} : TaskInv(q)' <=> TaskInv(q)
  BY <1>1, <1>2 DEF TaskInv, Share
<1>7. \A q \in Processors : \A i \in MatrixRows : Worked(q, i)' <=> Worked(q, i)
  BY <1>1 DEF Worked, Share
<1>8. \A l \in Lines : l[2] \in MatrixRows
  BY LinesAreRows
<1>9. CacheInv'
  BY <1>1, <1>7, <1>8 DEF MpInv, CacheInv
<1>. QED BY <1>1, <1>3, <1>4, <1>5, <1>6, <1>9 DEF MpInv

LEMMA MpLeaveKeeps ==
  ASSUME MpInv, NEW p \in Processors, MpLeave(p)
  PROVE  MpInv'
<1>. DEFINE lines == RowsOf(rows[p])
<1>1. /\ mpPc[p] = "work" /\ posted[p] = TasksOf(p)
      /\ posted' = [posted EXCEPT ![p] = {}] /\ mpPc' = [mpPc EXCEPT ![p] = "done"]
      /\ memory' = LinesWritten(p, lines)
      /\ cached' = [cached EXCEPT ![p] = [l \in Lines |-> IF l \in lines THEN Absent ELSE cached[p][l]]]
      /\ dirty' = [dirty EXCEPT ![p] = dirty[p] \ lines]
      /\ UNCHANGED <<product, rows, taskRows>>
  BY DEF MpLeave, WrittenBack, Dropped
<1>2. /\ rows[p][1] \in Int /\ rows[p][2] \in Int /\ rows[p][1] <= rows[p][2]
      /\ \A t \in TasksOf(p) :
           /\ Share(p)[t][1] \in Int /\ Share(p)[t][2] \in Int
           /\ rows[p][1] <= Share(p)[t][1] /\ Share(p)[t][1] <= Share(p)[t][2]
           /\ Share(p)[t][2] <= rows[p][2]
      /\ \A i \in Int : rows[p][1] <= i /\ i < rows[p][2] =>
           \E t \in TasksOf(p) : Share(p)[t][1] <= i /\ i < Share(p)[t][2]
  BY <1>1, RowsOfCall, SharesMakeUp
<1>3. \A t \in TasksOf(p) : taskRows[p][t][1] = Share(p)[t][2]
  BY <1>1 DEF MpInv, TaskInv
\* What has been worked out is all that there was to do.
<1>4. \A i \in MatrixRows : Worked(p, i) <=> rows[p][1] <= i /\ i < rows[p][2]
  <2>1. MatrixRows \subseteq Int
    BY MultiplyAssumption DEF MatrixRows
  <2>2. ASSUME NEW i \in MatrixRows, Worked(p, i) PROVE rows[p][1] <= i /\ i < rows[p][2]
    <3>1. PICK t \in TasksOf(p) : Share(p)[t][1] <= i /\ i < Share(p)[t][2]
      BY <1>3, <2>2 DEF Worked
    <3>. QED BY <1>2, <2>1, <3>1
  <2>3. ASSUME NEW i \in MatrixRows, rows[p][1] <= i, i < rows[p][2] PROVE Worked(p, i)
    BY <1>1, <1>2, <1>3, <2>1, <2>3 DEF Worked
  <2>. QED BY <2>2, <2>3
<1>5. \A l \in dirty[p] : l \in lines
  <2>1. \A l \in dirty[p] : l \in Lines /\ l[2] \in MatrixRows /\ Worked(p, l[2])
    BY MpTypesHold, LinesAreRows DEF MpInv, CacheInv
  <2>. QED BY <1>4, <2>1 DEF RowsOf
<1>. HIDE DEF lines
<1>6. /\ memory' \in [Lines -> 0 .. Products]
      /\ \A l \in Lines : l[1] # "C" => memory'[l] = memory[l]
      /\ \A l \in Lines : memory'[l] = memory[l] \/ memory'[l] = product
      /\ \A l \in dirty[p] : memory'[l] = product
  BY <1>1, <1>5, WriteBack
<1>7. /\ dirty'[p] = {} /\ posted'[p] = {} /\ posted' \in [Processors -> SUBSET MpTasks]
      /\ \A q \in Processors \ {p} : /\ cached'[q] = cached[q] /\ dirty'[q] = dirty[q]
                                     /\ taskRows'[q] = taskRows[q] /\ posted'[q] = posted[q]
      /\ UNCHANGED <<product, rows>> /\ mpPc[p] # "idle"
  BY <1>1, <1>5, MpTypesHold
<1>8. MpTypes'
  <2>1. cached' \in [Processors -> [Lines -> {Absent} \cup 0 .. Products]]
    BY <1>1, MpTypesHold
  <2>2. dirty' \in [Processors -> SUBSET Lines] /\ mpPc' \in [Processors -> {"idle", "called", "work", "done"}]
    BY <1>1, MpTypesHold
  <2>. QED BY <1>1, <1>6, <1>7, <2>1, <2>2, MpTypesHold DEF MpTypes, MpTypeOK
<1>9. \A i \in MatrixRows : ~Worked(p, i)'
  <2>1. mpPc'[p] = "done"
    BY <1>1, MpTypesHold
  <2>. QED BY <2>1 DEF Worked
<1>10. ASSUME NEW i \in MatrixRows, rows[p][1] <= i, i < rows[p][2]
       PROVE  memory'[<<"C", i>>] = product
  <2>1. <<"C", i>> \in dirty[p] \/ memory[<<"C", i>>] = product
    BY <1>4, <1>10 DEF MpInv, CacheInv
  <2>2. <<"C", i>> \in Lines
    BY DEF Lines
  <2>. QED BY <1>6, <2>1, <2>2
<1>. QED BY <1>1, <1>6, <1>7, <1>8, <1>9, <1>10, OthersAreKept

LEMMA HostHasProductKeeps ==
  ASSUME MpInv, HostHasProduct
  PROVE  MpInv'
<1>1. /\ \A p \in Processors : mpPc[p] = "done"
      /\ mpPc' = [p \in Processors |-> "idle"]
      /\ UNCHANGED <<memory, cached, dirty, product, rows, taskRows, posted>>
  BY DEF HostHasProduct
<1>2. \A p \in Processors : dirty[p] = {} /\ posted[p] = {}
  BY <1>1, MpTypesHold DEF MpInv, CallInv, CacheInv, Worked
<1>3. MpTypes'
  BY <1>1, MpTypesHold DEF MpTypes, MpTypeOK
<1>4. CallInv'
  BY <1>1, <1>2 DEF CallInv, Processors
<1>5. CacheInv'
  BY <1>1, <1>2 DEF MpInv, CacheInv, Worked
<1>. QED BY <1>1, <1>3, <1>4, <1>5 DEF MpInv

LEMMA EvictKeeps ==
  ASSUME MpInv, NEW p \in Processors, NEW l \in Lines, Evict(p, l)
  PROVE  MpInv'
<1>1. /\ memory' = LinesWritten(p, {l})
      /\ cached' = [cached EXCEPT ![p] = [k \in Lines |-> IF k \in {l} THEN Absent ELSE cached[p][k]]]
      /\ dirty' = [dirty EXCEPT ![p] = dirty[p] \ {l}]
      /\ UNCHANGED <<product, rows, mpPc, taskRows, posted>>
  BY DEF Evict, Dropped
<1>2. /\ memory' \in [Lines -> 0 .. Products]
      /\ \A k \in Lines : k[1] # "C" => memory'[k] = memory[k]
      /\ \A k \in Lines : memory'[k] = memory[k] \/ memory'[k] = product
      /\ l \in dirty[p] => memory'[l] = product
  BY <1>1, WriteBack
<1>3. /\ \A q \in Processors : dirty'[q] \subseteq dirty[q]
      /\ \A q \in Processors : \A k \in dirty[q] \ dirty'[q] : memory'[k] = product
      /\ \A q \in Processors, k \in Lines : cached'[q][k] = cached[q][k] \/ cached'[q][k] = Absent
      /\ \A q \in Processors : \A k \in dirty'[q] : cached'[q][k] = cached[q][k]
  BY <1>1, <1>2, MpTypesHold
<1>4. \A q \in Processors : \A i \in MatrixRows : Worked(q, i)' <=> Worked(q, i)
  BY <1>1 DEF Worked, Share
<1>5. MpTypes'
  <2>1. cached' \in [Processors -> [Lines -> {Absent} \cup 0 .. Products]]
    BY <1>1, MpTypesHold
  <2>2. dirty' \in [Processors -> SUBSET Lines]
    BY <1>1, MpTypesHold
  <2>. QED BY <1>1, <1>2, <2>1, <2>2, MpTypesHold DEF MpTypes, MpTypeOK
<1>6. CallInv' /\ \A q \in Processors : mpPc'[q] = "work" => TaskInv(q)'
  BY <1>1 DEF MpInv, CallInv, TaskInv, Share
<1>7. CacheInv'
  <2>1. \A k \in Lines : k[1] # "C" => memory'[k] = product'
    BY <1>1, <1>2 DEF MpInv, CacheInv
  <2>2. ASSUME NEW q \in Processors, NEW k \in Lines, k \in dirty'[q]
        PROVE  k[1] = "C" /\ Worked(q, k[2])' /\ cached'[q][k] = product'
    <3>1. k \in dirty[q] /\ k[2] \in MatrixRows
      BY <1>3, <2>2, LinesAreRows
    <3>2. k[1] = "C" /\ Worked(q, k[2]) /\ cached[q][k] = product
      BY <3>1 DEF MpInv, CacheInv
    <3>. QED BY <1>1, <1>3, <1>4, <2>2, <3>1, <3>2
  <2>3. ASSUME NEW q \in Processors, NEW k \in Lines, mpPc'[q] = "work", cached'[q][k] # Absent
        PROVE  cached'[q][k] = product'
    BY <1>1, <1>3, <2>3 DEF MpInv, CacheInv
  <2>4. \A i \in MatrixRows : <<"C", i>> \in Lines
    BY DEF Lines
  <2>5. ASSUME NEW q \in Processors, NEW i \in MatrixRows, Worked(q, i)'
        PROVE  <<"C", i>> \in dirty'[q] \/ memory'[<<"C", i>>] = product'
    <3>1. <<"C", i>> \in dirty[q] \/ memory[<<"C", i>>] = product
      BY <1>4, <2>5 DEF MpInv, CacheInv
    <3>. QED BY <1>1, <1>2, <1>3, <2>4, <3>1
  <2>6. ASSUME NEW q \in Processors, NEW i \in MatrixRows, mpPc[q] = "done", rows[q][1] <= i, i < rows[q][2]
        PROVE  memory'[<<"C", i>>] = product'
    <3>1. memory[<<"C", i>>] = product
      BY <2>6 DEF MpInv, CacheInv
    <3>. QED BY <1>1, <1>2, <2>4, <3>1
  <2>. QED BY <1>1, <2>1, <2>2, <2>3, <2>5, <2>6 DEF CacheInv
<1>. QED BY <1>1, <1>5, <1>6, <1>7 DEF MpInv

\* Whatever lines the processors keep, and whenever they put one out, the host finds the whole
\* product of its matrices when both have answered: for matrices of any size, any number of
\* calls, and any share of the rows for each processor.
THEOREM ProductTheorem == MpSpec => [](MpTypeOK /\ ProductIsWhole)
<1>1. ASSUME MpInv, [MpNext]_mpVars PROVE MpInv'
  <2>1. CASE UNCHANGED mpVars
    <3>. USE <1>1, <2>1 DEF mpVars
    <3>1. MpTypes' /\ CallInv'
      BY DEF MpInv, MpTypes, MpTypeOK, CallInv
    <3>2. CacheInv'
      BY DEF MpInv, CacheInv, Worked, Share
    <3>3. \A p \in Processors : mpPc'[p] = "work" => TaskInv(p)'
      BY DEF MpInv, TaskInv, Share
    <3>. QED BY <3>1, <3>2, <3>3 DEF MpInv
  <2>. QED BY <1>1, <2>1, HostCallsKeeps, MpEnterKeeps, MultiplyRowKeeps, PostEventKeeps, MpLeaveKeeps,
              HostHasProductKeeps, EvictKeeps DEF MpNext, MpRuns
<1>2. ASSUME MpInv PROVE MpTypeOK /\ ProductIsWhole
  <2>1. ASSUME \A p \in Processors : mpPc[p] = "done", NEW r \in MatrixRows
        PROVE  memory[<<"C", r>>] = product
    <3>1. mpPc["M3"] = "done" /\ mpPc["DSP"] = "done" /\ r \in Int /\ 0 <= r /\ r < Size
      BY <2>1, MultiplyAssumption DEF Processors, MatrixRows
    <3>2. PICK split \in 0 .. Size : rows["M3"] = <<0, split>> /\ rows["DSP"] = <<split, Size>>
      BY <1>2, <3>1 DEF MpInv, CallInv
    <3>3. \/ rows["M3"][1] <= r /\ r < rows["M3"][2]
          \/ rows["DSP"][1] <= r /\ r < rows["DSP"][2]
      BY <3>1, <3>2, MultiplyAssumption
    <3>. QED BY <1>2, <3>1, <3>3 DEF MpInv, CacheInv, Processors
  <2>. QED BY <1>2, <2>1 DEF MpInv, MpTypes, ProductIsWhole
<1>. QED BY <1>1, <1>2, MpStarts, PTL DEF MpSpec
=============================================================================
