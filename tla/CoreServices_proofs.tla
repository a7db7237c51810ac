------------------------ MODULE CoreServices_proofs ------------------------
(***************************************************************************)
(* The two requests a task of one core makes of someone outside it and     *)
(* waits for: OffloadM3's tasks on the other M3 core (its one creator and  *)
(* one deleter, for any set of workers), and the calls of IpcResource to   *)
(* the host's resource manager (for any number of tasks on one connection).*)
(* Then IpcPower's walk over the callbacks, the hardware mailboxes with the *)
(* requests to hibernate that they carry, the timers, and the trace; and   *)
(* the list of loaded modules that a debugger reads in target memory.      *)
(***************************************************************************)
EXTENDS OffloadM3, IpcResource, Interrupts, HdmiWa, SysMin, DebugRecords, FiniteSetTheorems, SequenceTheorems, TLAPS

----------------------------------------------------------------------------
(***************************************************************************)
(* For any set of workers: the task that creates them and the one that     *)
(* deletes them each find the work of the other whole.                     *)
(***************************************************************************)

Inside(i) == offPc[i] \in {"sems", "leave"}

\* The semaphore module.mutex counts who is inside.
MutexInv ==
  /\ Makers \subseteq offSems \/ Makers \cap offSems = {}
  /\ Makers \cap offSems = Makers \cap offTasks
  /\ Makers \cap offSems = {} =>
       \A i \in Makers : offPc[i] = "pend" /\ offCount[i] = 0
  /\ (\E i \in Makers : Inside(i)) => offMutex = 0
  /\ Makers \cap offSems # {} /\ offMutex = 0 => \E i \in Makers : Inside(i)
  /\ ~(Inside("create") /\ Inside("delete"))
  /\ \A w \in Workers : offPc[w] \in {"pend", "run"}

\* What exists while one of the two is at work, when none is, and after an exit.
MadeInv ==
  /\ offPc["create"] = "sems" =>
       /\ ~offCreated /\ Workers \cap offTasks \subseteq offSems
       /\ Workers \cap offTasks # {} => Workers \subseteq offSems
  /\ offPc["delete"] = "sems" => offCreated /\ Workers \cap offSems = Workers \cap offTasks
  /\ offPc["delete"] # "sems" /\ offCreated => Workers \subseteq offSems \cap offTasks
  /\ \/ offPc["create"] = "sems" \/ offCreated \/ offLeft
     \/ Workers \cap (offSems \cup offTasks) = {}
  /\ Makers \cap offSems = {} => offLeft \/ Workers \cap (offSems \cup offTasks) = {}

OffInv == OffTypeOK /\ MutexInv /\ MadeInv

-----------------------------------------------------------------------------
LEMMA OffInitially == OffInit => OffInv
<1>. SUFFICES ASSUME OffInit PROVE OffInv
  OBVIOUS
<1>. USE OffloadM3Assumption DEF OffloadM3Assumption, OffInit, Indices
<1>1. OffTypeOK
  <2>. offCreated \in BOOLEAN
    OBVIOUS
  <2>. offMutex \in 0 .. 1
    OBVIOUS
  <2>. offSems \subseteq Indices /\ offTasks \subseteq Indices
    OBVIOUS
  <2>. offCount \in [Indices -> 0 .. MaxAsks]
    OBVIOUS
  <2>. offPc \in [Indices -> {"pend", "run", "enter", "sems", "leave"}]
    OBVIOUS
  <2>. QED BY DEF OffTypeOK
<1>2. MutexInv
  BY DEF MutexInv, Makers, Inside
<1>3. MadeInv
  BY DEF MadeInv, Makers
<1>. QED BY <1>1, <1>2, <1>3 DEF OffInv

LEMMA OffStep == OffInv /\ [OffNext]_offVars => OffInv'
<1>. SUFFICES ASSUME OffInv, [OffNext]_offVars PROVE OffInv'
  OBVIOUS
<1>. USE OffloadM3Assumption DEF OffloadM3Assumption, OffInv, OffTypeOK, MutexInv, MadeInv, Makers, Inside, Indices
<1>1. CASE OffloadInit
  <2>. USE <1>1 DEF OffloadInit
  <2>1. offCreated' \in BOOLEAN
    OBVIOUS
  <2>2. offMutex' \in 0 .. 1
    OBVIOUS
  <2>3. offSems' \subseteq Indices /\ offTasks' \subseteq Indices
    OBVIOUS
  <2>4. UNCHANGED <<offCount, offPc, offLeft, offStatus>>
    OBVIOUS
  <2>5. MutexInv'
    OBVIOUS
  <2>6. MadeInv'
    OBVIOUS
  <2>. QED BY <2>1, <2>2, <2>3, <2>4, <2>5, <2>6
<1>2. CASE OffloadExit
  <2>1. /\ Makers \subseteq offTasks /\ offPc["delete"] # "sems" /\ UNCHANGED <<offCreated, offStatus>>
        /\ offSems' = offSems \ Makers /\ offTasks' = offTasks \ Makers /\ offMutex' = 0
        /\ offLeft' = (offLeft \/ Workers \cap (offSems \cup offTasks) # {})
    BY <1>2 DEF OffloadExit
  <2>2. /\ offCount' \in [Indices -> 0 .. MaxAsks] /\ \A i \in Makers : offCount'[i] = 0
        /\ offPc' \in [Indices -> {"pend", "run", "enter", "sems", "leave"}]
        /\ \A i \in Makers : offPc'[i] = "pend"
        /\ \A w \in Workers : offPc'[w] = offPc[w]
    BY <1>2 DEF OffloadExit
  <2>3. OffTypeOK'
    <3>1. offLeft' \in BOOLEAN
      BY <2>1
    <3>2. offMutex' \in 0 .. 1
      BY <2>1
    <3>. QED BY <2>1, <2>2, <3>1, <3>2
  <2>4. MutexInv'
    BY <2>1, <2>2
  <2>5. MadeInv'
    BY <2>1, <2>2
  <2>. QED BY <2>3, <2>4, <2>5
<1>3. ASSUME NEW i \in Indices, Ask(i) PROVE OffInv'
  BY <1>3 DEF Ask
<1>4. ASSUME NEW i \in Indices, OffPend(i) PROVE OffInv'
  BY <1>4 DEF OffPend, OffGoto
<1>5. ASSUME NEW w \in Workers, WorkerRun(w) PROVE OffInv'
  BY <1>5 DEF WorkerRun, OffGoto
<1>6. ASSUME NEW w \in Workers, CreateSem(w) PROVE OffInv'
  <2>. offCount' \in [Indices -> 0 .. MaxAsks]
    BY <1>6 DEF CreateSem
  <2>. offSems' \subseteq Indices
    BY <1>6 DEF CreateSem
  <2>. UNCHANGED <<offCreated, offTasks, offMutex, offPc, offLeft, offStatus>>
    BY <1>6 DEF CreateSem
  <2>. OffTypeOK'
    OBVIOUS
  <2>. MutexInv'
    BY <1>6 DEF CreateSem
  <2>. MadeInv'
    BY <1>6 DEF CreateSem
  <2>. QED OBVIOUS
<1>7. ASSUME NEW w \in Workers, CreateWorker(w) PROVE OffInv'
  BY <1>7 DEF CreateWorker, OffGoto
<1>8. ASSUME NEW w \in Workers, DeleteWorker(w) PROVE OffInv'
  BY <1>8 DEF DeleteWorker
<1>9. ASSUME NEW i \in Makers, MutexEnter(i) PROVE OffInv'
  <2>1. /\ offPc[i] = "enter" /\ offMutex = 1 /\ offMutex' = 0
        /\ offPc' = [offPc EXCEPT ![i] = IF offCreated = (i = "delete") THEN "sems" ELSE "leave"]
        /\ UNCHANGED <<offCreated, offCount, offLeft, offStatus>>
        /\ Makers \subseteq offSems /\ ~Inside("create") /\ ~Inside("delete")
    BY <1>9 DEF MutexEnter, OffGoto
  <2>2. CASE i = "create" /\ ~offCreated
    <3>1. /\ offSems' = offSems \ Workers /\ offTasks' = offTasks \ Workers
          /\ offPc' = [offPc EXCEPT !["create"] = "sems"]
      BY <1>9, <2>1, <2>2 DEF MutexEnter
    <3>2. OffTypeOK'
      <4>1. offPc' \in [Indices -> {"pend", "run", "enter", "sems", "leave"}]
        BY <3>1
      <4>2. offMutex' \in 0 .. 1
        BY <2>1
      <4>3. offSems' \subseteq Indices
        BY <3>1
      <4>4. offTasks' \subseteq Indices
        BY <3>1
      <4>. QED BY <2>1, <4>1, <4>2, <4>3, <4>4
    <3>3. MutexInv'
      BY <2>1, <3>1
    <3>4. MadeInv'
      BY <2>1, <2>2, <3>1
    <3>. QED BY <3>2, <3>3, <3>4
  <2>3. CASE i # "create" \/ offCreated
    <3>1. /\ UNCHANGED <<offSems, offTasks>>
          /\ IF i = "create" THEN offPc' = [offPc EXCEPT !["create"] = "leave"]
             ELSE offPc' = [offPc EXCEPT !["delete"] = IF offCreated THEN "sems" ELSE "leave"]
      <4>1. UNCHANGED <<offSems, offTasks>>
        BY <1>9, <2>3 DEF MutexEnter
      <4>2. CASE i = "create"
        BY <2>1, <2>3, <4>1, <4>2
      <4>3. CASE i = "delete"
        BY <2>1, <4>1, <4>3
      <4>. QED BY <4>2, <4>3
    <3>2. OffTypeOK'
      <4>1. offPc' \in [Indices -> {"pend", "run", "enter", "sems", "leave"}]
        BY <2>1
      <4>2. offMutex' \in 0 .. 1
        BY <2>1
      <4>. QED BY <2>1, <3>1, <4>1, <4>2
    <3>3. MutexInv'
      BY <2>1, <3>1
    <3>4. MadeInv'
      BY <2>1, <2>3, <3>1
    <3>. QED BY <3>2, <3>3, <3>4
  <2>. QED BY <2>2, <2>3
<1>10. ASSUME NEW i \in Makers, AllMade(i) PROVE OffInv'
  <2>1. OffTypeOK'
    BY <1>10 DEF AllMade, OffGoto
  <2>2. /\ offPc' = [offPc EXCEPT ![i] = "leave"] /\ offPc[i] = "sems" /\ offCreated' = (i = "create")
        /\ UNCHANGED <<offSems, offTasks, offCount, offMutex, offLeft, offStatus>>
    BY <1>10 DEF AllMade, OffGoto
  <2>3. MutexInv'
    BY <2>2
  <2>4. /\ offPc'["create"] # "sems" /\ offPc'["delete"] # "sems"
        /\ i = "create" => Workers \subseteq offTasks
        /\ i # "create" => Workers \cap offTasks = {}
    BY <1>10, <2>2 DEF AllMade
  <2>5. /\ i = "create" => Workers \subseteq offSems \cap offTasks
        /\ i = "delete" => Workers \cap (offSems \cup offTasks) = {}
    <3>1. CASE i = "create"
      BY <2>2, <2>4, <3>1
    <3>2. CASE i = "delete"
      BY <2>2, <2>4, <3>2
    <3>. QED BY <3>1, <3>2
  <2>6. MadeInv'
    BY <2>2, <2>4, <2>5
  <2>. QED BY <2>1, <2>3, <2>6
<1>11. ASSUME NEW i \in Makers, MutexLeave(i) PROVE OffInv'
  BY <1>11 DEF MutexLeave, OffGoto
<1>12. CASE UNCHANGED offVars
  BY <1>12 DEF offVars
<1>. HIDE DEF OffInv, OffTypeOK, MutexInv, MadeInv
<1>. QED
  BY <1>1, <1>2, <1>3, <1>4, <1>5, <1>6, <1>7, <1>8, <1>9, <1>10, <1>11, <1>12
  DEF OffNext, OffTask

(* Whatever messages AppM3 sends, however the two tasks interleave and       *)
(* whenever the module is left and started again: when nobody is at it all   *)
(* workers exist with their semaphores if `created` says so, and if not,     *)
(* none that an exit has not left (OffloadM3.c's createTask and deleteTask). *)
THEOREM OffloadTheorem == OffSpec => []OffloadIsSound
<1>1. OffInv => OffloadIsSound
  BY DEF OffInv, OffloadIsSound, OffloadIsWhole, MutexInv, MadeInv, Makers, Inside
<1>. QED
  BY OffInitially, OffStep, <1>1, PTL DEF OffSpec

----------------------------------------------------------------------------
(***************************************************************************)
(* For any number of tasks on one connection to the host's resource        *)
(* manager: each gets its own answer, and the semaphore is given back.     *)
(***************************************************************************)

TypeInv ==
  /\ ResTypeOK
  /\ resCall \in [Clients -> Calls] /\ resId \in [Clients -> Nat]
  /\ returned \in [Clients -> Nat]
  /\ toManager \in Seq([id : Nat, call : Calls \cup {"connect", "free"}])
  /\ fromManager \in Seq(Nat)

Waits(t) == resPc[t] \in {"connect", "recv"}
Owed(i) == toManager[i].call \in Answered \cup {"connect"}

\* One task is past the gate, and the semaphore is 0 then.
GateInv ==
  /\ conn = "closed" => \A t \in Clients : resPc[t] = "idle"
  /\ conn = "connecting" =>
       \E t \in Clients : resPc[t] = "connect" /\ \A u \in Clients \ {t} : resPc[u] = "idle"
  /\ conn = "open" =>
       /\ \A t \in Clients : resPc[t] # "connect"
       /\ \/ resSem = 1 /\ \A t \in Clients : resPc[t] \notin {"send", "recv"}
          \/ resSem = 0 /\ \E t \in Clients :
               resPc[t] \in {"send", "recv"} /\ \A u \in Clients \ {t} : resPc[u] \notin {"send", "recv"}

\* No more is outstanding than the answer that the waiting task waits for.
OwnInv ==
  /\ \A t \in Clients : resPc[t] # "idle" => returned[t] = 0
  /\ AnswerIsOwn
  /\ ~late =>
       /\ \A i \in DOMAIN toManager :
            Owed(i) => \E t \in Clients : Waits(t) /\ resId[t] = toManager[i].id
       /\ \A i, j \in DOMAIN toManager : Owed(i) /\ Owed(j) => i = j
       /\ Len(fromManager) <= 1
       /\ fromManager # <<>> =>
            /\ \A i \in DOMAIN toManager : ~Owed(i)
            /\ \E t \in Clients : Waits(t) /\ resId[t] = Head(fromManager)

ResInv == TypeInv /\ GateInv /\ OwnInv

-----------------------------------------------------------------------------
LEMMA ResInitially == ResInit => ResInv
<1>. SUFFICES ASSUME ResInit PROVE ResInv
  OBVIOUS
<1>. USE IpcResourceAssumption DEF IpcResourceAssumption, ResInit
<1>1. ResTypeOK
  <2>1. late \in BOOLEAN
    OBVIOUS
  <2>2. resSem \in 0 .. 1 /\ lastId \in 0 .. MaxRequests
    OBVIOUS
  <2>. QED BY <2>1, <2>2 DEF ResTypeOK
<1>2. TypeInv
  BY <1>1 DEF TypeInv, Calls, Answered
<1>3. GateInv /\ OwnInv
  BY DEF GateInv, OwnInv, AnswerIsOwn
<1>. QED BY <1>2, <1>3 DEF ResInv

\* The semaphore and the connection keep the others out.
LEMMA OneWaits ==
  ASSUME TypeInv, GateInv, NEW t \in Clients, NEW u \in Clients, Waits(t) \/ resPc[t] = "send", Waits(u)
  PROVE  t = u
BY DEF TypeInv, ResTypeOK, GateInv, Waits

LEMMA TypeStep == ResInv /\ [ResNext]_resVars => TypeInv'
<1>. SUFFICES ASSUME ResInv, [ResNext]_resVars PROVE TypeInv'
  OBVIOUS
<1>. USE IpcResourceAssumption DEF IpcResourceAssumption, ResInv, TypeInv, ResTypeOK, GateInv, ResGoto
<1>1. CASE Manager
  <2>1. toManager' \in Seq([id : Nat, call : Calls \cup {"connect", "free"}])
    BY <1>1 DEF Manager
  <2>2. Head(toManager).id \in Nat
    <3>1. toManager # <<>>
      BY <1>1 DEF Manager
    <3>2. Head(toManager) \in [id : Nat, call : Calls \cup {"connect", "free"}]
      BY <3>1, HeadTailProperties
    <3>. QED BY <3>2
  <2>3. fromManager' \in Seq(Nat)
    BY <1>1, <2>2 DEF Manager
  <2>. QED BY <1>1, <2>1, <2>3 DEF Manager
<1>2. CASE Disconnect
  BY <1>2 DEF Disconnect
<1>3. ASSUME NEW t \in Clients, Connect(t) PROVE TypeInv'
  BY <1>3 DEF Connect, Send
<1>4. ASSUME NEW t \in Clients, ConnectAck(t) PROVE TypeInv'
  BY <1>4 DEF ConnectAck
<1>4a. ASSUME NEW t \in Clients, ConnectRefused(t) PROVE TypeInv'
  BY <1>4a DEF ConnectRefused
<1>5. ASSUME NEW t \in Clients, ConnectTimeout(t) PROVE TypeInv'
  BY <1>5 DEF ConnectTimeout
<1>6. ASSUME NEW t \in Clients, ResPend(t) PROVE TypeInv'
  BY <1>6 DEF ResPend
<1>7. ASSUME NEW t \in Clients, ResSend(t) PROVE TypeInv'
  <2>1. lastId' = lastId + 1 /\ lastId < MaxRequests /\ resCall[t] \in Calls
    BY <1>7 DEF ResSend, Send
  <2>2. [id |-> lastId + 1, call |-> resCall[t]] \in [id : Nat, call : Calls \cup {"connect", "free"}]
    BY <2>1
  <2>3. toManager' \in Seq([id : Nat, call : Calls \cup {"connect", "free"}])
    BY <1>7, <2>2 DEF ResSend, Send
  <2>4. resId' \in [Clients -> Nat]
    BY <1>7 DEF ResSend, Send
  <2>5. resSem' \in 0 .. 1 /\ resPc' \in [Clients -> {"idle", "connect", "pend", "send", "recv"}]
    <3>1. conn = "open" /\ resSem = 0
      BY <1>7 DEF ResSend
    <3>2. resSem' = 0 \/ resSem' = 1
      BY <1>7, <3>1 DEF ResSend
    <3>3. resSem' \in 0 .. 1
      BY <3>2
    <3>4. resPc' \in [Clients -> {"idle", "connect", "pend", "send", "recv"}]
      BY <1>7 DEF ResSend
    <3>. QED BY <3>3, <3>4
  <2>. QED BY <1>7, <2>1, <2>3, <2>4, <2>5 DEF ResSend
<1>8. ASSUME NEW t \in Clients, ResSendFails(t) PROVE TypeInv'
  BY <1>8 DEF ResSendFails
<1>9. ASSUME NEW t \in Clients, ResRecv(t) PROVE TypeInv'
  BY <1>9 DEF ResRecv
<1>10. ASSUME NEW t \in Clients, ResTimeout(t) PROVE TypeInv'
  BY <1>10 DEF ResTimeout
<1>11. ASSUME NEW t \in Clients, Release(t) PROVE TypeInv'
  BY <1>11 DEF Release, Send
<1>12. ASSUME NEW t \in Clients, NEW call \in Calls, Call(t, call) PROVE TypeInv'
  BY <1>12 DEF Call
<1>13. CASE UNCHANGED resVars
  BY <1>13 DEF resVars
<1>. QED
  BY <1>1, <1>2, <1>3, <1>4, <1>4a, <1>5, <1>6, <1>7, <1>8, <1>9, <1>10, <1>11, <1>12, <1>13
  DEF ResNext, InCall

LEMMA PastGate ==
  ASSUME TypeInv, GateInv, NEW t \in Clients, resPc[t] \in {"send", "recv"}
  PROVE  /\ conn = "open" /\ resSem = 0
         /\ \A u \in Clients \ {t} : resPc[u] \in {"idle", "pend"}
BY DEF TypeInv, ResTypeOK, GateInv

LEMMA GateStep == ResInv /\ [ResNext]_resVars => GateInv'
<1>. SUFFICES ASSUME ResInv, [ResNext]_resVars PROVE GateInv'
  OBVIOUS
<1>. USE DEF ResInv, TypeInv, ResTypeOK, GateInv, ResGoto
<1>1. CASE Manager
  BY <1>1 DEF Manager
<1>2. CASE Disconnect
  BY <1>2 DEF Disconnect
<1>3. ASSUME NEW t \in Clients, Connect(t) PROVE GateInv'
  BY <1>3 DEF Connect
<1>4. ASSUME NEW t \in Clients, ConnectAck(t) PROVE GateInv'
  BY <1>4 DEF ConnectAck
<1>4a. ASSUME NEW t \in Clients, ConnectRefused(t) PROVE GateInv'
  BY <1>4a DEF ConnectRefused
<1>5. ASSUME NEW t \in Clients, ConnectTimeout(t) PROVE GateInv'
  BY <1>5 DEF ConnectTimeout
<1>6. ASSUME NEW t \in Clients, ResPend(t) PROVE GateInv'
  BY <1>6 DEF ResPend
<1>7. ASSUME NEW t \in Clients, ResSend(t) PROVE GateInv'
  <2>1. conn = "open" /\ resSem = 0 /\ \A u \in Clients \ {t} : resPc[u] \in {"idle", "pend"}
    BY <1>7, PastGate DEF ResSend
  <2>2. conn' = "open" /\ \A u \in Clients \ {t} : resPc'[u] \in {"idle", "pend"}
    BY <1>7, <2>1 DEF ResSend
  <2>3. \/ resPc'[t] = "recv" /\ resSem' = 0
        \/ resPc'[t] = "idle" /\ resSem' = 1
    BY <1>7, <2>1 DEF ResSend
  <2>. HIDE DEF TypeInv
  <2>. QED BY <2>2, <2>3
<1>8. ASSUME NEW t \in Clients, ResSendFails(t) PROVE GateInv'
  <2>1. conn = "open" /\ resSem = 0 /\ \A u \in Clients \ {t} : resPc[u] \in {"idle", "pend"}
    BY <1>8, PastGate DEF ResSendFails
  <2>2. conn' = "open" /\ \A u \in Clients \ {t} : resPc'[u] \in {"idle", "pend"}
    BY <1>8, <2>1 DEF ResSendFails
  <2>3. \/ resPc'[t] = "recv" /\ resSem' = 0
        \/ resPc'[t] = "idle" /\ resSem' = 1
    BY <1>8, <2>1 DEF ResSendFails
  <2>. HIDE DEF TypeInv
  <2>. QED BY <2>2, <2>3
<1>9. ASSUME NEW t \in Clients, ResRecv(t) PROVE GateInv'
  <2>1. conn = "open" /\ resSem = 0 /\ \A u \in Clients \ {t} : resPc[u] \in {"idle", "pend"}
    BY <1>9, PastGate DEF ResRecv
  <2>2. conn' = "open" /\ \A u \in Clients \ {t} : resPc'[u] \in {"idle", "pend"}
    BY <1>9, <2>1 DEF ResRecv
  <2>3. \/ resPc'[t] = "recv" /\ resSem' = 0
        \/ resPc'[t] = "idle" /\ resSem' = 1
    BY <1>9, <2>1 DEF ResRecv
  <2>. HIDE DEF TypeInv
  <2>. QED BY <2>2, <2>3
<1>10. ASSUME NEW t \in Clients, ResTimeout(t) PROVE GateInv'
  <2>1. conn = "open" /\ resSem = 0 /\ \A u \in Clients \ {t} : resPc[u] \in {"idle", "pend"}
    BY <1>10, PastGate DEF ResTimeout
  <2>2. conn' = "open" /\ \A u \in Clients \ {t} : resPc'[u] \in {"idle", "pend"}
    BY <1>10, <2>1 DEF ResTimeout
  <2>3. resPc'[t] = "idle" /\ resSem' = 1
    BY <1>10, <2>1 DEF ResTimeout
  <2>. HIDE DEF TypeInv
  <2>. QED BY <2>2, <2>3
<1>11. ASSUME NEW t \in Clients, Release(t) PROVE GateInv'
  <2>1. UNCHANGED <<conn, resSem, resPc>>
    BY <1>11 DEF Release
  <2>. HIDE DEF TypeInv
  <2>. QED BY <2>1
<1>12. ASSUME NEW t \in Clients, NEW call \in Calls, Call(t, call) PROVE GateInv'
  <2>1. conn = "open" /\ UNCHANGED <<conn, resSem>> /\ resPc[t] = "idle"
    BY <1>12 DEF Call
  <2>2. resPc'[t] = "pend" /\ \A u \in Clients \ {t} : resPc'[u] = resPc[u]
    BY <1>12 DEF Call
  <2>. HIDE DEF TypeInv
  <2>. QED BY <2>1, <2>2
<1>13. CASE UNCHANGED resVars
  BY <1>13 DEF resVars
<1>. QED
  BY <1>1, <1>2, <1>3, <1>4, <1>4a, <1>5, <1>6, <1>7, <1>8, <1>9, <1>10, <1>11, <1>12, <1>13
  DEF ResNext, InCall

\* An answer that is taken is the one the task waits for, and the last.
LEMMA AnswerStep ==
  ASSUME ResInv, NEW t \in Clients, Waits(t), fromManager # <<>>, ~late
  PROVE  /\ Head(fromManager) = resId[t] /\ Tail(fromManager) = <<>>
         /\ \A i \in DOMAIN toManager : ~Owed(i)
<1>. USE DEF ResInv, TypeInv
<1>1. PICK u \in Clients : Waits(u) /\ resId[u] = Head(fromManager)
  BY DEF OwnInv
<1>2. u = t
  BY <1>1, OneWaits
<1>. QED BY <1>1, <1>2 DEF OwnInv

\* When nobody waits, nothing is outstanding.
LEMMA NothingOwed ==
  ASSUME ResInv, ~late, \A t \in Clients : ~Waits(t)
  PROVE  fromManager = <<>> /\ \A i \in DOMAIN toManager : ~Owed(i)
BY DEF ResInv, OwnInv

\* A request is sent when nobody waits, or is not answered.
LEMMA SendStep ==
  ASSUME ResInv, ~late, NEW t \in Clients, NEW call \in Calls \cup {"connect", "free"},
         Send(t, call), UNCHANGED <<fromManager, late>>,
         ~Waits(t),
         \A u \in Clients \ {t} : Waits(u)' = Waits(u),
         IF call \in Answered \cup {"connect"}
         THEN Waits(t)' /\ \A u \in Clients : ~Waits(u)
         ELSE ~Waits(t)'
  PROVE  /\ \A i \in DOMAIN toManager' :
              Owed(i)' => \E u \in Clients : Waits(u)' /\ resId'[u] = toManager'[i].id
         /\ \A i, j \in DOMAIN toManager' : Owed(i)' /\ Owed(j)' => i = j
         /\ Len(fromManager') <= 1
         /\ fromManager' # <<>> =>
              /\ \A i \in DOMAIN toManager' : ~Owed(i)'
              /\ \E u \in Clients : Waits(u)' /\ resId'[u] = Head(fromManager')
<1>. USE DEF ResInv, TypeInv
<1>0. PICK n : n = Len(toManager) + 1
  OBVIOUS
<1>1. /\ DOMAIN toManager' = 1 .. n /\ n \in Nat /\ DOMAIN toManager = 1 .. (n - 1)
      /\ toManager'[n].id = resId'[t] /\ toManager'[n].call = call
      /\ \A i \in DOMAIN toManager : toManager'[i] = toManager[i]
      /\ \A u \in Clients \ {t} : resId'[u] = resId[u]
  BY <1>0 DEF Send, ResTypeOK
<1>2. (Owed(n)' <=> call \in Answered \cup {"connect"}) /\ \A i \in DOMAIN toManager : Owed(i)' <=> Owed(i)
  BY <1>1 DEF Owed
<1>3. \A i \in DOMAIN toManager' : i \in DOMAIN toManager \/ i = n
  BY <1>1
<1>4. CASE call \in Answered \cup {"connect"}
  <2>1. fromManager' = <<>> /\ \A i \in DOMAIN toManager : ~Owed(i)
    BY <1>4, NothingOwed
  <2>2. \A i \in DOMAIN toManager' : Owed(i)' => i = n
    BY <1>2, <1>3, <2>1
  <2>. HIDE DEF ResInv
  <2>. QED BY <1>1, <1>4, <2>1, <2>2
<1>5. CASE call \notin Answered \cup {"connect"}
  <2>1. \A i \in DOMAIN toManager' : Owed(i)' => i \in DOMAIN toManager /\ Owed(i)
    BY <1>2, <1>3, <1>5
  <2>2. \A u \in Clients : /\ Waits(u) <=> Waits(u)'
                           /\ Waits(u) => resId'[u] = resId[u]
    BY <1>1, <1>5
  <2>3. fromManager' = fromManager
    OBVIOUS
  <2>. HIDE DEF ResInv
  <2>. QED BY <1>1, <2>1, <2>2, <2>3 DEF OwnInv, ResInv
<1>. QED BY <1>4, <1>5

\* A step that sends no answered request and takes no answer, and after which
\* who waited waits and who did not does not.
LEMMA QuietStep ==
  ASSUME ResInv, late' = late, fromManager' = fromManager, toManager' = toManager,
         \A u \in Clients : (Waits(u) <=> Waits(u)') /\ (Waits(u) => resId'[u] = resId[u])
  PROVE  ~late =>
       /\ \A i \in DOMAIN toManager' :
            Owed(i)' => \E t \in Clients : Waits(t)' /\ resId'[t] = toManager'[i].id
       /\ \A i, j \in DOMAIN toManager' : Owed(i)' /\ Owed(j)' => i = j
       /\ Len(fromManager') <= 1
       /\ fromManager' # <<>> =>
            /\ \A i \in DOMAIN toManager' : ~Owed(i)'
            /\ \E t \in Clients : Waits(t)' /\ resId'[t] = Head(fromManager')
BY DEF ResInv, OwnInv, Owed

LEMMA OwnStep == ResInv /\ [ResNext]_resVars => OwnInv'
<1>. SUFFICES ASSUME ResInv, [ResNext]_resVars PROVE OwnInv'
  OBVIOUS
<1>. DEFINE Returns == /\ \A t \in Clients : resPc'[t] # "idle" => returned'[t] = 0
                       /\ AnswerIsOwn'
<1>. USE DEF ResInv, TypeInv, ResTypeOK, ResGoto
<1>1. CASE Manager
  <2>1. Returns
    BY <1>1 DEF Manager, OwnInv, AnswerIsOwn
  <2>2. PICK head : head = Head(toManager)
    OBVIOUS
  <2>3. /\ toManager # <<>> /\ 1 \in DOMAIN toManager /\ head = toManager[1]
        /\ toManager' = Tail(toManager)
        /\ UNCHANGED <<conn, resPc, resId, late>>
        /\ \A i \in DOMAIN toManager' : /\ i + 1 \in DOMAIN toManager /\ i + 1 # 1
                                        /\ toManager'[i] = toManager[i + 1]
    BY <1>1, <2>2 DEF Manager
  <2>4. \A i \in DOMAIN toManager' : Owed(i)' <=> Owed(i + 1)
    BY <2>3 DEF Owed
  <2>5. \A u \in Clients : (Waits(u) <=> Waits(u)') /\ resId'[u] = resId[u]
    BY <2>3 DEF Waits
  <2>6. CASE late
    BY <2>1, <2>3, <2>6 DEF OwnInv
  <2>7. CASE ~late /\ Owed(1)
    <3>1. PICK t \in Clients : Waits(t) /\ resId[t] = head.id
      BY <2>3, <2>7 DEF OwnInv
    <3>2. conn # "closed"
      BY <3>1 DEF GateInv, Waits
    <3>3. fromManager = <<>>
      BY <2>3, <2>7 DEF OwnInv
    <3>4. fromManager' = Append(<<>>, head.id)
      BY <1>1, <2>2, <2>3, <2>7, <3>2, <3>3 DEF Manager, Owed
    <3>5. fromManager' # <<>> /\ Head(fromManager') = head.id /\ Len(fromManager') = 1
      BY <3>4
    <3>6. \A i \in DOMAIN toManager' : ~Owed(i)'
      BY <2>3, <2>4, <2>7 DEF OwnInv
    <3>7. Waits(t)' /\ resId'[t] = Head(fromManager')
      BY <2>5, <3>1, <3>5
    <3>. HIDE DEF ResInv
    <3>. QED
      BY <2>1, <3>5, <3>6, <3>7 DEF OwnInv
  <2>8. CASE ~late /\ ~Owed(1)
    <3>1. fromManager' = fromManager
      BY <1>1, <2>2, <2>3, <2>8 DEF Manager, Owed
    <3>2. \A i, j \in DOMAIN toManager' : Owed(i)' /\ Owed(j)' => i = j
      BY <2>3, <2>4, <2>8 DEF OwnInv
    <3>3. \A i \in DOMAIN toManager' :
            Owed(i)' => \E t \in Clients : Waits(t)' /\ resId'[t] = toManager'[i].id
      <4>1. SUFFICES ASSUME NEW i \in DOMAIN toManager', Owed(i)'
                     PROVE  \E t \in Clients : Waits(t)' /\ resId'[t] = toManager'[i].id
        OBVIOUS
      <4>2. PICK t \in Clients : Waits(t) /\ resId[t] = toManager[i + 1].id
        BY <2>3, <2>4, <2>8, <4>1 DEF OwnInv
      <4>. QED BY <2>3, <2>5, <4>2
    <3>4. fromManager' # <<>> => \A i \in DOMAIN toManager' : ~Owed(i)'
      BY <2>3, <2>4, <2>8, <3>1 DEF OwnInv
    <3>5. fromManager' # <<>> => \E t \in Clients : Waits(t)' /\ resId'[t] = Head(fromManager')
      BY <2>5, <2>8, <3>1 DEF OwnInv
    <3>6. Len(fromManager') <= 1
      BY <2>8, <3>1 DEF OwnInv
    <3>. QED
      BY <2>1, <3>2, <3>3, <3>4, <3>5, <3>6 DEF OwnInv
  <2>. QED BY <2>6, <2>7, <2>8
<1>2. CASE Disconnect
  <2>1. Returns
    BY <1>2 DEF Disconnect, OwnInv, AnswerIsOwn
  <2>2. fromManager' = <<>> /\ UNCHANGED <<resPc, resId, toManager, late>>
    BY <1>2 DEF Disconnect
  <2>3. ~late => \A i \in DOMAIN toManager : ~Owed(i)
    BY <1>2, NothingOwed DEF Disconnect, Waits
  <2>. QED
    BY <2>1, <2>2, <2>3 DEF OwnInv, Owed
<1>3. ASSUME NEW t \in Clients, Connect(t) PROVE OwnInv'
  <2>0. \A u \in Clients : resPc[u] = "idle"
    BY <1>3 DEF Connect, GateInv
  <2>1. Returns
    BY <1>3 DEF Connect, Send, OwnInv, AnswerIsOwn
  <2>2. /\ Send(t, "connect") /\ UNCHANGED <<fromManager, late>>
        /\ \A u \in Clients \ {t} : Waits(u)' = Waits(u)
        /\ Waits(t)' /\ \A u \in Clients : ~Waits(u)
    BY <1>3, <2>0 DEF Connect, Waits
  <2>. QED
    BY <2>1, <2>2, SendStep DEF OwnInv
<1>4. ASSUME NEW t \in Clients, ConnectAck(t) PROVE OwnInv'
  <2>1. ~late => /\ Head(fromManager) = resId[t] /\ Tail(fromManager) = <<>>
                 /\ \A i \in DOMAIN toManager : ~Owed(i)
    BY <1>4, AnswerStep DEF ConnectAck, Waits
  <2>2. Returns
    BY <1>4, <2>1 DEF ConnectAck, OwnInv, AnswerIsOwn
  <2>3. fromManager' = Tail(fromManager) /\ UNCHANGED <<toManager, late>>
    BY <1>4 DEF ConnectAck
  <2>. QED
    BY <2>1, <2>2, <2>3 DEF OwnInv, Owed
<1>4a. ASSUME NEW t \in Clients, ConnectRefused(t) PROVE OwnInv'
  <2>1. ~late => /\ Head(fromManager) = resId[t]
                 /\ \A i \in DOMAIN toManager : ~Owed(i)
    BY <1>4a, AnswerStep DEF ConnectRefused, Waits
  <2>2. Returns
    BY <1>4a, <2>1 DEF ConnectRefused, OwnInv, AnswerIsOwn
  <2>3. fromManager' = <<>> /\ UNCHANGED <<toManager, late>>
    BY <1>4a DEF ConnectRefused
  <2>. QED
    BY <2>1, <2>2, <2>3 DEF OwnInv, Owed
<1>5. ASSUME NEW t \in Clients, ConnectTimeout(t) PROVE OwnInv'
  BY <1>5 DEF ConnectTimeout, OwnInv, AnswerIsOwn
<1>6. ASSUME NEW t \in Clients, ResPend(t) PROVE OwnInv'
  <2>1. Returns
    BY <1>6 DEF ResPend, OwnInv, AnswerIsOwn
  <2>2. \A u \in Clients : (Waits(u) <=> Waits(u)') /\ resId'[u] = resId[u]
    BY <1>6 DEF ResPend, Waits
  <2>. QED
    BY <1>6, <2>1, <2>2, QuietStep DEF ResPend, OwnInv
<1>7. ASSUME NEW t \in Clients, ResSend(t) PROVE OwnInv'
  <2>1. \A u \in Clients \ {t} : resPc[u] \in {"idle", "pend"}
    BY <1>7, PastGate DEF ResSend
  <2>2. Returns
    BY <1>7 DEF ResSend, Send, OwnInv, AnswerIsOwn
  <2>3. /\ resCall[t] \in Calls \cup {"connect", "free"}
        /\ Send(t, resCall[t]) /\ UNCHANGED <<fromManager, late>>
        /\ \A u \in Clients \ {t} : Waits(u)' = Waits(u)
        /\ \A u \in Clients : ~Waits(u)
        /\ IF resCall[t] \in Answered \cup {"connect"} THEN Waits(t)' ELSE ~Waits(t)'
    BY <1>7, <2>1 DEF ResSend, Waits, Calls, Answered
  <2>. QED
    BY <2>2, <2>3, SendStep DEF OwnInv
<1>8. ASSUME NEW t \in Clients, ResSendFails(t) PROVE OwnInv'
  <2>1. Returns
    BY <1>8 DEF ResSendFails, OwnInv, AnswerIsOwn
  <2>2. \A u \in Clients : (Waits(u) <=> Waits(u)') /\ resId'[u] = resId[u]
    BY <1>8 DEF ResSendFails, Waits
  <2>. QED
    BY <1>8, <2>1, <2>2, QuietStep DEF ResSendFails, OwnInv
<1>9. ASSUME NEW t \in Clients, ResRecv(t) PROVE OwnInv'
  <2>1. ~late => /\ Head(fromManager) = resId[t] /\ Tail(fromManager) = <<>>
                 /\ \A i \in DOMAIN toManager : ~Owed(i)
    BY <1>9, AnswerStep DEF ResRecv, Waits
  <2>2. Returns
    BY <1>9, <2>1 DEF ResRecv, OwnInv, AnswerIsOwn
  <2>3. fromManager' = Tail(fromManager) /\ UNCHANGED <<toManager, late>>
    BY <1>9 DEF ResRecv
  <2>. QED
    BY <2>1, <2>2, <2>3 DEF OwnInv, Owed
<1>10. ASSUME NEW t \in Clients, ResTimeout(t) PROVE OwnInv'
  BY <1>10 DEF ResTimeout, OwnInv, AnswerIsOwn
<1>11. ASSUME NEW t \in Clients, Release(t) PROVE OwnInv'
  <2>1. Returns
    BY <1>11 DEF Release, Send, OwnInv, AnswerIsOwn
  <2>2. /\ Send(t, "free") /\ UNCHANGED <<fromManager, late>>
        /\ \A u \in Clients : Waits(u)' = Waits(u)
        /\ ~Waits(t) /\ ~Waits(t)' /\ "free" \notin Answered \cup {"connect"}
    BY <1>11 DEF Release, Waits, Answered
  <2>. QED
    BY <2>1, <2>2, SendStep DEF OwnInv
<1>12. ASSUME NEW t \in Clients, NEW call \in Calls, Call(t, call) PROVE OwnInv'
  <2>1. Returns
    BY <1>12 DEF Call, OwnInv, AnswerIsOwn
  <2>2. \A u \in Clients : (Waits(u) <=> Waits(u)') /\ (Waits(u) => resId'[u] = resId[u])
    BY <1>12 DEF Call, Waits
  <2>. QED
    BY <1>12, <2>1, <2>2, QuietStep DEF Call, OwnInv
<1>13. CASE UNCHANGED resVars
  <2>1. Returns
    BY <1>13 DEF resVars, OwnInv, AnswerIsOwn
  <2>2. \A u \in Clients : (Waits(u) <=> Waits(u)') /\ resId'[u] = resId[u]
    BY <1>13 DEF resVars, Waits
  <2>. QED
    BY <1>13, <2>1, <2>2, QuietStep DEF resVars, OwnInv
<1>. QED
  BY <1>1, <1>2, <1>3, <1>4, <1>4a, <1>5, <1>6, <1>7, <1>8, <1>9, <1>10, <1>11, <1>12, <1>13
  DEF ResNext, InCall

(* As long as no recv has timed out each task of a connection gets the       *)
(* answer to its own request, and every way out of a call gives the          *)
(* semaphore back (IpcResource_request and its callers).                     *)
THEOREM ResourceTheorem == ResSpec => []RequestsAreSound
<1>1. ResInv => GateIsBalanced
  <2>. SUFFICES ASSUME ResInv, conn = "open"
                PROVE  resSem + Cardinality({t \in Clients : resPc[t] \in {"send", "recv"}}) = 1
    BY DEF GateIsBalanced
  <2>. USE DEF ResInv, GateInv
  <2>1. CASE \A t \in Clients : resPc[t] \notin {"send", "recv"}
    <3>1. {t \in Clients : resPc[t] \in {"send", "recv"}} = {}
      BY <2>1
    <3>. QED BY <2>1, <3>1, FS_EmptySet
  <2>2. ASSUME NEW t \in Clients, resPc[t] \in {"send", "recv"}
        PROVE  resSem + Cardinality({u \in Clients : resPc[u] \in {"send", "recv"}}) = 1
    <3>1. {u \in Clients : resPc[u] \in {"send", "recv"}} = {t} 
      BY <2>2, PastGate
    <3>2. resSem = 0
      BY <2>2, PastGate
    <3>3. Cardinality({t}) = 1
      BY FS_Singleton
    <3>4. Cardinality({u \in Clients : resPc[u] \in {"send", "recv"}}) = 1
      BY <3>1, <3>3
    <3>. QED BY <3>2, <3>4
  <2>. QED BY <2>1, <2>2
<1>2. ResInv => RequestsAreSound
  BY <1>1 DEF RequestsAreSound, ResInv, TypeInv, OwnInv
<1>. QED
  BY ResInitially, TypeStep, GateStep, OwnStep, <1>2, PTL DEF ResSpec, ResInv

-----------------------------------------------------------------------------
(***************************************************************************)
(* For any set of processors and of callbacks: the walk of callUserFxns    *)
(* over a list that tasks change while it goes on.                         *)
(***************************************************************************)

-----------------------------------------------------------------------------
LEMMA RemoveAtIs ==
  ASSUME NEW S, NEW s \in Seq(S), NEW k \in DOMAIN s
  PROVE  /\ RemoveAt(s, k) \in Seq(S)
         /\ Len(RemoveAt(s, k)) = Len(s) - 1
         /\ \A i \in 1 .. Len(s) - 1 : RemoveAt(s, k)[i] = IF i < k THEN s[i] ELSE s[i + 1]
<1>. DEFINE a == SubSeq(s, 1, k - 1)
            b == SubSeq(s, k + 1, Len(s))
<1>1. k \in 1 .. Len(s) /\ Len(s) \in Nat
  OBVIOUS
<1>2. a \in Seq(S) /\ Len(a) = k - 1 /\ \A i \in 1 .. k - 1 : a[i] = s[i]
  <2>1. \A i \in 1 .. k - 1 : s[i] \in S
    BY <1>1, ElementOfSeq
  <2>. QED BY <1>1, <2>1, SubSeqProperties
<1>3. b \in Seq(S) /\ Len(b) = Len(s) - k /\ \A i \in 1 .. Len(s) - k : b[i] = s[i + k]
  <2>1. \A i \in k + 1 .. Len(s) : s[i] \in S
    BY <1>1, ElementOfSeq
  <2>. QED BY <1>1, <2>1, SubSeqProperties
<1>. HIDE DEF a, b
<1>4. /\ a \o b \in Seq(S) /\ Len(a \o b) = Len(s) - 1
      /\ \A i \in 1 .. Len(s) - 1 : (a \o b)[i] = IF i <= Len(a) THEN a[i] ELSE b[i - Len(a)]
  <2>1. a \o b \in Seq(S) /\ Len(a \o b) = Len(a) + Len(b)
    BY <1>2, <1>3, ConcatProperties
  <2>2. \A i \in 1 .. Len(a) + Len(b) : (a \o b)[i] = IF i <= Len(a) THEN a[i] ELSE b[i - Len(a)]
    BY <1>2, <1>3, ConcatProperties
  <2>3. Len(a) + Len(b) = Len(s) - 1
    BY <1>1, <1>2, <1>3
  <2>. QED BY <2>1, <2>2, <2>3
<1>5. ASSUME NEW i \in 1 .. Len(s) - 1
      PROVE  (a \o b)[i] = IF i < k THEN s[i] ELSE s[i + 1]
  <2>1. CASE i < k
    BY <1>1, <1>2, <1>4, <2>1
  <2>2. CASE ~(i < k)
    <3>1. i - (k - 1) \in 1 .. Len(s) - k /\ ~(i <= k - 1)
      BY <1>1, <2>2
    <3>2. (a \o b)[i] = b[i - (k - 1)]
      BY <1>2, <1>4, <3>1
    <3>3. b[i - (k - 1)] = s[(i - (k - 1)) + k]
      BY <1>3, <3>1
    <3>4. (i - (k - 1)) + k = i + 1
      BY <1>1
    <3>. QED BY <2>2, <3>2, <3>3, <3>4
  <2>. QED BY <2>1, <2>2
<1>. QED BY <1>5, <1>1, <1>2, <1>3, <1>4 DEF RemoveAt, a, b

\* What is behind the node that the walk stands on, with the node itself.
Ahead(list, n) == {m \in Range(list) : \E i, j \in DOMAIN list : list[i] = n /\ i <= j /\ list[j] = m}
NoTwice(list) == \A i, j \in DOMAIN list : list[i] = list[j] => i = j

LEMMA AheadAppend ==
  ASSUME NEW S, NEW list \in Seq(S), NEW x \in S, x \notin Range(list), NoTwice(list)
  PROVE  /\ Append(list, x) \in Seq(S) /\ NoTwice(Append(list, x))
         /\ Range(Append(list, x)) = Range(list) \cup {x}
         /\ \A n : Ahead(list, n) \subseteq Ahead(Append(list, x), n)
<1>. DEFINE t == Append(list, x)
<1>1. /\ t \in Seq(S) /\ DOMAIN t = DOMAIN list \cup {Len(list) + 1} /\ Len(list) + 1 \notin DOMAIN list
      /\ \A i \in DOMAIN list : t[i] = list[i]
      /\ t[Len(list) + 1] = x
  OBVIOUS
<1>. HIDE DEF t
<1>2. Range(t) = Range(list) \cup {x}
  BY <1>1 DEF Range
<1>3. NoTwice(t)
  <2>1. \A i \in DOMAIN list : list[i] # x
    BY DEF Range
  <2>. QED BY <1>1, <2>1 DEF NoTwice
<1>4. \A n : Ahead(list, n) \subseteq Ahead(t, n)
  BY <1>1, <1>2 DEF Ahead
<1>. QED BY <1>1, <1>2, <1>3, <1>4 DEF t

LEMMA AheadRemove ==
  ASSUME NEW S, NEW list \in Seq(S), NEW k \in DOMAIN list, NoTwice(list)
  PROVE  /\ RemoveAt(list, k) \in Seq(S) /\ NoTwice(RemoveAt(list, k))
         /\ Range(RemoveAt(list, k)) = Range(list) \ {list[k]}
         /\ \A n : n # list[k] => Ahead(list, n) \ {list[k]} \subseteq Ahead(RemoveAt(list, k), n)
<1>. DEFINE t == RemoveAt(list, k)
<1>1. /\ t \in Seq(S) /\ Len(t) = Len(list) - 1
      /\ \A i \in 1 .. Len(list) - 1 : t[i] = IF i < k THEN list[i] ELSE list[i + 1]
  BY RemoveAtIs
<1>. HIDE DEF t
<1>2. Len(list) \in Nat /\ DOMAIN list = 1 .. Len(list) /\ DOMAIN t = 1 .. Len(list) - 1 /\ k \in 1 .. Len(list)
  BY <1>1
<1>. DEFINE to(i) == IF i < k THEN i ELSE i - 1
<1>3. ASSUME NEW i \in DOMAIN list, i # k PROVE to(i) \in DOMAIN t /\ t[to(i)] = list[i]
  <2>1. CASE i < k
    BY <1>1, <1>2, <1>3, <2>1
  <2>2. CASE i > k
    <3>1. i - 1 \in 1 .. Len(list) - 1 /\ ~(i - 1 < k) /\ i - 1 + 1 = i /\ to(i) = i - 1
      BY <1>2, <2>2
    <3>. QED BY <1>1, <1>2, <3>1
  <2>. QED BY <1>2, <1>3, <2>1, <2>2
<1>4. \A i, j \in DOMAIN list : i <= j => to(i) <= to(j)
  BY <1>2
<1>5. \A i \in DOMAIN t : IF i < k THEN t[i] = list[i] /\ i \in DOMAIN list /\ i # k
                          ELSE t[i] = list[i + 1] /\ i + 1 \in DOMAIN list /\ i + 1 # k
  BY <1>1, <1>2
<1>. HIDE DEF to
<1>6. NoTwice(t)
  <2>. SUFFICES ASSUME NEW i \in DOMAIN t, NEW j \in DOMAIN t, t[i] = t[j] PROVE i = j
    BY DEF NoTwice
  <2>1. i \in Int /\ j \in Int /\ k \in Int
    BY <1>2
  <2>2. CASE i < k /\ j < k
    BY <1>5, <2>2 DEF NoTwice
  <2>3. CASE i < k /\ ~(j < k)
    <3>1. i = j + 1
      BY <1>5, <2>3 DEF NoTwice
    <3>. QED BY <2>1, <2>3, <3>1
  <2>4. CASE ~(i < k) /\ j < k
    <3>1. i + 1 = j
      BY <1>5, <2>4 DEF NoTwice
    <3>. QED BY <2>1, <2>4, <3>1
  <2>5. CASE ~(i < k) /\ ~(j < k)
    <3>1. i + 1 = j + 1
      BY <1>5, <2>5 DEF NoTwice
    <3>. QED BY <2>1, <3>1
  <2>. QED BY <2>2, <2>3, <2>4, <2>5
<1>7. \A i \in DOMAIN list : i # k => list[i] # list[k]
  BY DEF NoTwice
<1>8. Range(t) = Range(list) \ {list[k]}
  <2>1. Range(t) \subseteq Range(list) \ {list[k]}
    BY <1>5, <1>7 DEF Range
  <2>2. Range(list) \ {list[k]} \subseteq Range(t)
    BY <1>3 DEF Range
  <2>. QED BY <2>1, <2>2
<1>9. ASSUME NEW n, n # list[k], NEW m \in Ahead(list, n) \ {list[k]} PROVE m \in Ahead(t, n)
  <2>1. PICK i \in DOMAIN list, j \in DOMAIN list : list[i] = n /\ i <= j /\ list[j] = m
    BY DEF Ahead
  <2>2. i # k /\ j # k
    BY <1>9, <2>1
  <2>3. /\ to(i) \in DOMAIN t /\ t[to(i)] = n /\ to(j) \in DOMAIN t /\ t[to(j)] = m
        /\ to(i) <= to(j)
    BY <1>3, <1>4, <2>1, <2>2
  <2>4. m \in Range(t)
    BY <2>3 DEF Range
  <2>. QED BY <2>3, <2>4 DEF Ahead
<1>. QED BY <1>1, <1>6, <1>8, <1>9 DEF t

LEMMA AheadNext ==
  ASSUME NEW list \in Seq(Nodes), NoTwice(list), NEW n \in Range(list)
  PROVE  /\ NodeAfter(list, n) \in Range(list) \cup {NoNode}
         /\ Ahead(list, n) \subseteq
              {n} \cup (IF NodeAfter(list, n) = NoNode THEN {} ELSE Ahead(list, NodeAfter(list, n)))
<1>1. Len(list) \in Nat /\ DOMAIN list = 1 .. Len(list) /\ \A i \in DOMAIN list : list[i] \in Nodes
  BY ElementOfSeq
<1>2. PICK k \in DOMAIN list : list[k] = n
  BY DEF Range
<1>3. \A i \in DOMAIN list : list[i] = n => i = k
  BY <1>2 DEF NoTwice
<1>4. CASE k = Len(list)
  <2>1. ~ \E i \in 1 .. Len(list) - 1 : list[i] = n
    BY <1>1, <1>3, <1>4
  <2>2. NodeAfter(list, n) = NoNode
    BY <2>1 DEF NodeAfter
  <2>3. \A i, j \in DOMAIN list : list[i] = n /\ i <= j => j = k
    BY <1>1, <1>3, <1>4
  <2>4. Ahead(list, n) \subseteq {n}
    BY <1>2, <2>3 DEF Ahead
  <2>. QED BY <2>2, <2>4
<1>5. CASE k # Len(list)
  <2>1. k \in 1 .. Len(list) - 1 /\ k + 1 \in DOMAIN list
    BY <1>1, <1>5
  <2>2. PICK i : i = CHOOSE k0 \in 1 .. Len(list) - 1 : list[k0] = n
    OBVIOUS
  <2>3. i \in 1 .. Len(list) - 1 /\ list[i] = n
    BY <1>2, <2>1, <2>2
  <2>4. i = k
    BY <1>1, <1>3, <2>3
  <2>5. NodeAfter(list, n) = list[1 + k]
    BY <2>2, <2>3, <2>4 DEF NodeAfter
  <2>6. list[1 + k] = list[k + 1] /\ list[k + 1] \in Range(list) /\ list[k + 1] # NoNode
    <3>1. 1 + k = k + 1
      BY <1>1
    <3>2. list[k + 1] # NoNode
      BY <1>1, <2>1, IpcPowerAssumption DEF IpcPowerAssumption
    <3>. QED BY <2>1, <3>1, <3>2 DEF Range
  <2>7. ASSUME NEW m \in Ahead(list, n), m # n PROVE m \in Ahead(list, list[k + 1])
    <3>1. PICK a \in DOMAIN list, j \in DOMAIN list : list[a] = n /\ a <= j /\ list[j] = m
      BY DEF Ahead
    <3>2. a = k /\ j # k
      BY <1>2, <1>3, <2>7, <3>1
    <3>3. k + 1 <= j
      BY <1>1, <3>1, <3>2
    <3>4. m \in Range(list)
      BY <3>1 DEF Range
    <3>. QED BY <2>1, <3>1, <3>3, <3>4 DEF Ahead
  <2>. QED BY <2>5, <2>6, <2>7
<1>. QED BY <1>4, <1>5

LEMMA AheadFirst ==
  ASSUME NEW list \in Seq(Nodes)
  PROVE  IF First(list) = NoNode THEN Range(list) = {}
         ELSE First(list) \in Range(list) /\ Range(list) \subseteq Ahead(list, First(list))
<1>1. Len(list) \in Nat /\ DOMAIN list = 1 .. Len(list) /\ \A i \in DOMAIN list : list[i] \in Nodes
  BY ElementOfSeq
<1>2. CASE list = <<>>
  <2>1. DOMAIN list = {} /\ First(list) = NoNode
    BY <1>2 DEF First
  <2>2. Range(list) = {}
    BY <2>1 DEF Range
  <2>. QED BY <2>1, <2>2
<1>3. CASE list # <<>>
  <2>1. 1 \in DOMAIN list /\ First(list) = list[1]
    BY <1>1, <1>3 DEF First
  <2>2. First(list) # NoNode /\ First(list) \in Range(list)
    BY <1>1, <2>1, IpcPowerAssumption DEF IpcPowerAssumption, Range
  <2>3. \A j \in DOMAIN list : 1 <= j
    BY <1>1
  <2>4. Range(list) \subseteq Ahead(list, First(list))
    BY <2>1, <2>3 DEF Ahead, Range
  <2>. QED BY <2>2, <2>4
<1>. QED BY <1>2, <1>3

-----------------------------------------------------------------------------
\* Where a processor is in its list: what it stands for and has not been called
\* is ahead.
WalkInv(c) ==
  /\ callbackList[c] \in Seq(Nodes) /\ NoTwice(callbackList[c])
  /\ node[c] # NoNode => suspPc[c] = "walk"
  /\ \A n \in standing[c] : n.event = event[c]
  /\ suspPc[c] = "walk" =>
       standing[c] \subseteq
         called[c] \cup (IF node[c] = NoNode THEN {} ELSE Ahead(callbackList[c], node[c]))

WalksInv ==
  /\ standing \in [Cpus -> SUBSET Nodes] /\ called \in [Cpus -> SUBSET Nodes]
  /\ callbackList \in [Cpus -> Seq(Nodes)]
  /\ \A c \in Cpus : ~curInit[c] /\ ~exiting[c] => suspPc[c] = "ended"
  /\ \A c \in Cpus : WalkInv(c)

PowerInv == PowerTypeOK /\ WalksInv

LEMMA PowerStarts == PowerInit => PowerInv
<1>. SUFFICES ASSUME PowerInit PROVE PowerInv
  OBVIOUS
<1>1. PowerTypeOK
  BY IpcPowerAssumption DEF IpcPowerAssumption, PowerInit, PowerTypeOK, Events
<1>2. <<>> \in Seq(Nodes) /\ NoTwice(<<>>)
  BY DEF NoTwice
<1>3. WalksInv
  BY <1>2 DEF PowerInit, WalksInv, WalkInv
<1>. QED BY <1>1, <1>3 DEF PowerInv

\* What leaves the list, the walk and the task alone.
LEMMA WalksKept ==
  ASSUME WalksInv, UNCHANGED <<suspPc, walkVars, callbackList>>,
         \A c \in Cpus : ~curInit'[c] /\ ~exiting'[c] => suspPc[c] = "ended"
  PROVE  WalksInv'
BY DEF WalksInv, WalkInv, walkVars

LEMMA LocksKeep ==
  ASSUME PowerInv, NEW c \in Cpus,
         HibernateLock(c) \/ HibernateUnlock(c) \/ WakeLock(c) \/ WakeUnlock(c) \/ Suspend(c)
  PROVE  PowerInv'
<1>1. WalksInv'
  BY WalksKept DEF PowerInv, WalksInv, HibernateLock, HibernateUnlock, WakeLock, WakeUnlock, Suspend
<1>. USE IpcPowerAssumption DEF IpcPowerAssumption, PowerTypeOK, PowerInv, Listed, walkVars, lockCounts
<1>2. CASE HibernateLock(c)
  BY <1>1, <1>2 DEF HibernateLock
<1>3. CASE HibernateUnlock(c)
  <2>1. MaxLocks \in Nat /\ hibLocks[c] \in 0 .. MaxLocks
    OBVIOUS
  <2>2. (IF hibLocks[c] > 0 THEN hibLocks[c] - 1 ELSE hibLocks[c]) \in 0 .. MaxLocks
    BY <2>1
  <2>. QED BY <1>1, <1>3, <2>2 DEF HibernateUnlock
<1>4. CASE WakeLock(c)
  BY <1>1, <1>4 DEF WakeLock
<1>5. CASE WakeUnlock(c)
  <2>1. MaxLocks \in Nat /\ wakeLocks[c] \in 0 .. MaxLocks /\ (deepSleep[c] <=> wakeLocks[c] = 0)
    OBVIOUS
  <2> DEFINE n == IF wakeLocks[c] > 0 THEN wakeLocks[c] - 1 ELSE wakeLocks[c]
  <2>2. n \in 0 .. MaxLocks /\ (wakeLocks[c] = 0 => n = 0)
    BY <2>1
  <2>3. wakeLocks' = [wakeLocks EXCEPT ![c] = n] /\ wakeLocks'[c] = n
    BY <1>5 DEF WakeUnlock
  <2>. HIDE DEF n
  <2>4. deepSleep' = [deepSleep EXCEPT ![c] = @ \/ n = 0] /\ deepSleep' \in [Cpus -> BOOLEAN]
    BY <1>5, <2>3 DEF WakeUnlock
  <2>5. \A d \in Cpus : deepSleep'[d] <=> wakeLocks'[d] = 0
    BY <2>1, <2>2, <2>3, <2>4
  <2>6. wakeLocks' \in [Cpus -> 0 .. MaxLocks]
    BY <2>2, <2>3
  <2>. QED BY <1>1, <1>5, <2>5, <2>6 DEF WakeUnlock
<1>6. CASE Suspend(c)
  BY <1>1, <1>6 DEF Suspend, PostSuspend
<1>. QED BY <1>2, <1>3, <1>4, <1>5, <1>6

LEMMA RegisterKeeps ==
  ASSUME PowerInv, NEW c \in Cpus, NEW n \in Nodes, Register(c, n)
  PROVE  PowerInv'
<1>. DEFINE list == callbackList[c]
<1>1. list \in Seq(Nodes) /\ NoTwice(list) /\ n \notin Range(list) /\ WalkInv(c)
  BY DEF PowerInv, WalksInv, WalkInv, Register, Listed
<1>2. /\ Append(list, n) \in Seq(Nodes) /\ NoTwice(Append(list, n))
      /\ Range(Append(list, n)) = Range(list) \cup {n}
      /\ \A m : Ahead(list, m) \subseteq Ahead(Append(list, n), m)
  BY <1>1, AheadAppend
<1>3. /\ callbackList'[c] = Append(list, n) /\ callbackList' \in [Cpus -> Seq(Nodes)]
      /\ \A d \in Cpus \ {c} : callbackList'[d] = callbackList[d]
      /\ UNCHANGED <<lockCounts, semSuspend, suspPc, walkVars, curInit, exiting>>
  BY <1>2 DEF Register, PowerInv, WalksInv
<1>. HIDE DEF list
<1>4. PowerTypeOK'
  <2>1. \A d \in Cpus : Listed(d) \subseteq Listed(d)'
    BY <1>2, <1>3 DEF Listed, list
  <2>. QED BY <1>3, <2>1 DEF PowerInv, PowerTypeOK, lockCounts, walkVars
<1>5. WalkInv(c)'
  BY <1>1, <1>2, <1>3 DEF WalkInv, walkVars, list
<1>6. \A d \in Cpus \ {c} : WalkInv(d)'
  BY <1>3 DEF PowerInv, WalksInv, WalkInv, walkVars
<1>7. WalksInv'
  BY <1>3, <1>5, <1>6 DEF PowerInv, WalksInv, walkVars
<1>. QED BY <1>4, <1>7 DEF PowerInv

LEMMA UnregisterKeeps ==
  ASSUME PowerInv, NEW c \in Cpus, NEW n \in Nodes, Unregister(c, n)
  PROVE  PowerInv'
<1>. DEFINE list == callbackList[c]
<1>1. list \in Seq(Nodes) /\ NoTwice(list) /\ WalkInv(c) /\ standing \in [Cpus -> SUBSET Nodes]
  BY DEF PowerInv, WalksInv, WalkInv
<1>2. PICK k \in DOMAIN list :
        list[k] = n /\ callbackList' = [callbackList EXCEPT ![c] = RemoveAt(@, k)]
  BY DEF Unregister
<1>3. /\ RemoveAt(list, k) \in Seq(Nodes) /\ NoTwice(RemoveAt(list, k))
      /\ Range(RemoveAt(list, k)) = Range(list) \ {n}
      /\ \A m : m # n => Ahead(list, m) \ {n} \subseteq Ahead(RemoveAt(list, k), m)
  BY <1>1, <1>2, AheadRemove
<1>4. /\ callbackList'[c] = RemoveAt(list, k) /\ callbackList' \in [Cpus -> Seq(Nodes)]
      /\ \A d \in Cpus \ {c} : callbackList'[d] = callbackList[d]
      /\ standing'[c] = standing[c] \ {n} /\ standing' \in [Cpus -> SUBSET Nodes]
      /\ \A d \in Cpus \ {c} : standing'[d] = standing[d]
      /\ node[c] # n
      /\ UNCHANGED <<lockCounts, semSuspend, suspPc, node, event, called, curInit, exiting>>
  BY <1>1, <1>2, <1>3 DEF Unregister, PowerInv, WalksInv
<1>. HIDE DEF list
<1>5. PowerTypeOK'
  <2>1. \A d \in Cpus : node[d] \in Listed(d) => node[d] \in Listed(d)'
    BY <1>3, <1>4 DEF Listed, list
  <2>. QED BY <1>4, <2>1 DEF PowerInv, PowerTypeOK, lockCounts
<1>6. WalkInv(c)'
  BY <1>1, <1>3, <1>4 DEF WalkInv, list
<1>7. \A d \in Cpus \ {c} : WalkInv(d)'
  BY <1>4 DEF PowerInv, WalksInv, WalkInv
<1>8. WalksInv'
  BY <1>4, <1>6, <1>7 DEF PowerInv, WalksInv
<1>. QED BY <1>5, <1>8 DEF PowerInv

LEMMA VisitKeeps ==
  ASSUME PowerInv, NEW c \in Cpus, Visit(c)
  PROVE  PowerInv'
<1>. DEFINE list == callbackList[c]
<1>1. /\ list \in Seq(Nodes) /\ NoTwice(list) /\ WalkInv(c) /\ node[c] \in Range(list)
      /\ node[c] \in Nodes /\ suspPc[c] = "walk" /\ node[c] # NoNode
  BY DEF PowerInv, WalksInv, WalkInv, Visit, PowerTypeOK, Listed
<1>2. /\ NodeAfter(list, node[c]) \in Range(list) \cup {NoNode}
      /\ Ahead(list, node[c]) \subseteq
           {node[c]} \cup (IF NodeAfter(list, node[c]) = NoNode THEN {}
                           ELSE Ahead(list, NodeAfter(list, node[c])))
  BY <1>1, AheadNext
<1>3. Range(list) \subseteq Nodes
  BY <1>1, ElementOfSeq DEF Range
<1>4. /\ node'[c] = NodeAfter(list, node[c]) /\ node' \in [Cpus -> Nodes \cup {NoNode}]
      /\ called'[c] = (IF node[c].event = event[c] THEN called[c] \cup {node[c]} ELSE called[c])
      /\ called' \in [Cpus -> SUBSET Nodes]
      /\ \A d \in Cpus \ {c} : node'[d] = node[d] /\ called'[d] = called[d]
      /\ UNCHANGED <<lockCounts, semSuspend, suspPc, event, standing, callbackList, curInit, exiting>>
  BY <1>1, <1>2, <1>3 DEF Visit, PowerInv, PowerTypeOK, WalksInv
<1>. HIDE DEF list
<1>5. PowerTypeOK'
  <2>1. \A d \in Cpus : node'[d] # NoNode => node'[d] \in Listed(d)
    BY <1>2, <1>4 DEF Listed, list, PowerInv, PowerTypeOK
  <2>. QED BY <1>4, <2>1 DEF PowerInv, PowerTypeOK, lockCounts, Listed
<1>6. WalkInv(c)'
  BY <1>1, <1>2, <1>4 DEF WalkInv, list
<1>7. \A d \in Cpus \ {c} : WalkInv(d)'
  BY <1>4 DEF PowerInv, WalksInv, WalkInv
<1>8. WalksInv'
  BY <1>4, <1>6, <1>7 DEF PowerInv, WalksInv
<1>. QED BY <1>5, <1>8 DEF PowerInv

LEMMA BeginWalkKeeps ==
  ASSUME PowerInv, NEW cs \in SUBSET Cpus, NEW e \in Events, BeginWalk(cs, e),
         UNCHANGED <<wakeLocks, hibLocks, callbackList, curInit, exiting>>,
         \A c \in cs : suspPc[c] # "ended",
         deepSleep' \in [Cpus -> BOOLEAN],
         \A c \in Cpus : deepSleep'[c] <=> wakeLocks[c] = 0, semSuspend' \in [Cpus -> Nat]
  PROVE  PowerInv'
<1>1. /\ \A c \in cs : /\ suspPc'[c] = "walk" /\ event'[c] = e
                       /\ node'[c] = First(callbackList[c])
                       /\ standing'[c] = {n \in Listed(c) : n.event = e} /\ called'[c] = {}
      /\ \A c \in Cpus \ cs : /\ suspPc'[c] = suspPc[c] /\ event'[c] = event[c]
                              /\ node'[c] = node[c] /\ standing'[c] = standing[c]
                              /\ called'[c] = called[c]
      /\ DOMAIN suspPc' = Cpus /\ DOMAIN event' = Cpus /\ DOMAIN node' = Cpus
      /\ DOMAIN standing' = Cpus /\ DOMAIN called' = Cpus
  BY DEF BeginWalk
<1>2. ASSUME NEW c \in cs
      PROVE  /\ callbackList[c] \in Seq(Nodes) /\ NoTwice(callbackList[c]) /\ Listed(c) \subseteq Nodes
             /\ IF First(callbackList[c]) = NoNode THEN Listed(c) = {}
                ELSE /\ First(callbackList[c]) \in Listed(c)
                     /\ Listed(c) \subseteq Ahead(callbackList[c], First(callbackList[c]))
  <2>1. callbackList[c] \in Seq(Nodes) /\ NoTwice(callbackList[c])
    BY DEF PowerInv, WalksInv, WalkInv
  <2>2. Listed(c) \subseteq Nodes
    BY <2>1, ElementOfSeq DEF Listed, Range
  <2>. QED BY <2>1, <2>2, AheadFirst DEF Listed
<1>3. ASSUME NEW c \in cs PROVE WalkInv(c)'
  <2>1. standing'[c] \subseteq Listed(c) /\ \A n \in standing'[c] : n.event = event'[c]
    BY <1>1
  <2>. QED BY <1>1, <1>2, <2>1 DEF WalkInv
<1>4. ASSUME NEW c \in Cpus \ cs PROVE WalkInv(c)'
  <2>1. /\ suspPc'[c] = suspPc[c] /\ event'[c] = event[c] /\ node'[c] = node[c]
        /\ standing'[c] = standing[c] /\ called'[c] = called[c]
        /\ callbackList'[c] = callbackList[c]
    BY <1>1
  <2>2. WalkInv(c)
    BY DEF PowerInv, WalksInv
  <2>. QED BY <2>1, <2>2 DEF WalkInv
<1>5. WalksInv'
  <2>1. \A c \in Cpus : standing'[c] \in SUBSET Nodes /\ called'[c] \in SUBSET Nodes
    BY <1>1, <1>2 DEF PowerInv, WalksInv
  <2>2. \A c \in Cpus : ~curInit'[c] /\ ~exiting'[c] => suspPc'[c] = "ended"
    BY <1>1 DEF PowerInv, WalksInv
  <2>3. standing' \in [Cpus -> SUBSET Nodes] /\ called' \in [Cpus -> SUBSET Nodes]
    BY <1>1, <2>1 DEF BeginWalk
  <2>. QED BY <1>3, <1>4, <2>2, <2>3 DEF PowerInv, WalksInv
<1>6. PowerTypeOK'
  <2>1. suspPc' \in [Cpus -> {"pend", "walk", "asleep", "ended"}] /\ event' \in [Cpus -> Events]
    BY DEF BeginWalk, PowerInv, PowerTypeOK
  <2>2. ASSUME NEW c \in Cpus
        PROVE  /\ node'[c] \in Nodes \cup {NoNode}
               /\ node'[c] # NoNode => node'[c] \in Listed(c)
    <3>1. CASE c \in cs
      BY <1>1, <1>2, <3>1
    <3>2. CASE c \notin cs
      <4>1. node'[c] = node[c]
        BY <1>1, <3>2
      <4>. QED BY <4>1 DEF PowerInv, PowerTypeOK
    <3>. QED BY <3>1, <3>2
  <2>3. node' \in [Cpus -> Nodes \cup {NoNode}]
    BY <1>1, <2>2 DEF BeginWalk
  <2>. QED BY <2>1, <2>2, <2>3 DEF PowerInv, PowerTypeOK, Listed
<1>. QED BY <1>5, <1>6 DEF PowerInv

\* The task goes on, at the end of a walk or outside of one.
LEMMA TaskGoesOn ==
  ASSUME PowerInv, NEW c \in Cpus, NEW to \in {"pend", "asleep", "ended"}, node[c] = NoNode,
         suspPc' = [suspPc EXCEPT ![c] = to],
         UNCHANGED <<wakeLocks, walkVars, callbackList>>,
         hibLocks' \in [Cpus -> 0 .. MaxLocks], wakeLocks' \in [Cpus -> 0 .. MaxLocks],
         deepSleep' \in [Cpus -> BOOLEAN],
         \A d \in Cpus : deepSleep'[d] <=> wakeLocks'[d] = 0, semSuspend' \in [Cpus -> Nat],
         curInit' \in [Cpus -> BOOLEAN], exiting' \in [Cpus -> BOOLEAN],
         \A d \in Cpus : ~curInit'[d] /\ ~exiting'[d] => suspPc'[d] = "ended"
  PROVE  PowerInv'
<1>1. PowerTypeOK'
  BY DEF PowerInv, PowerTypeOK, walkVars, Listed
<1>2. \A d \in Cpus : WalkInv(d)'
  BY DEF PowerInv, PowerTypeOK, WalksInv, WalkInv, walkVars
<1>. QED BY <1>1, <1>2 DEF PowerInv, WalksInv, walkVars

LEMMA TaskKeeps ==
  ASSUME PowerInv, NEW c \in Cpus,
         TaskPend(c) \/ TaskSleep(c) \/ TaskLoop(c)
  PROVE  PowerInv'
<1>. USE DEF PowerInv, PowerTypeOK
<1>1. CASE TaskPend(c)
  <2>1. /\ suspPc[c] = "pend" /\ semSuspend[c] \in Nat /\ semSuspend[c] > 0
        /\ semSuspend' = [semSuspend EXCEPT ![c] = @ - 1]
        /\ UNCHANGED <<hibLocks, wakeLocks, deepSleep, callbackList, curInit, exiting>>
    BY <1>1 DEF TaskPend, lockCounts
  <2>2. semSuspend' \in [Cpus -> Nat]
    BY <2>1
  <2>3. CASE curInit[c]
    <3>1. BeginWalk({c}, "SUSPEND") /\ "SUSPEND" \in Events
      BY <1>1, <2>3 DEF TaskPend, Events
    <3>2. {c} \in SUBSET Cpus /\ \A d \in {c} : suspPc[d] # "ended"
      BY <2>1
    <3>3. deepSleep' \in [Cpus -> BOOLEAN] /\ \A d \in Cpus : deepSleep'[d] <=> wakeLocks[d] = 0
      BY <2>1
    <3>. QED BY <2>1, <2>2, <3>1, <3>2, <3>3, BeginWalkKeeps
  <2>4. CASE ~curInit[c]
    <3>1. suspPc' = [suspPc EXCEPT ![c] = "ended"] /\ UNCHANGED walkVars
      BY <1>1, <2>4 DEF TaskPend
    <3>2. node[c] = NoNode
      BY <2>1 DEF WalksInv, WalkInv
    <3>3. \A d \in Cpus : ~curInit'[d] /\ ~exiting'[d] => suspPc'[d] = "ended"
      BY <2>1, <3>1 DEF WalksInv
    <3>. QED BY <2>1, <2>2, <3>1, <3>2, <3>3, TaskGoesOn
  <2>. QED BY <2>3, <2>4
<1>2. CASE TaskSleep(c)
  <2>1. \A d \in Cpus : ~curInit'[d] /\ ~exiting'[d] => suspPc'[d] = "ended"
    BY <1>2 DEF TaskSleep, WalksInv
  <2>. QED BY <1>2, <2>1, TaskGoesOn DEF TaskSleep, lockCounts
<1>3. CASE TaskLoop(c)
  <2> DEFINE to == IF curInit[c] THEN "pend" ELSE "ended"
  <2>1. suspPc' = [suspPc EXCEPT ![c] = to] /\ to \in {"pend", "asleep", "ended"}
    BY <1>3 DEF TaskLoop
  <2>2. \A d \in Cpus : ~curInit'[d] /\ ~exiting'[d] => suspPc'[d] = "ended"
    BY <1>3 DEF TaskLoop, WalksInv
  <2>. HIDE DEF to
  <2>. QED BY <1>3, <2>1, <2>2, TaskGoesOn DEF TaskLoop, lockCounts
<1>. QED BY <1>1, <1>2, <1>3

LEMMA WakeKeeps ==
  ASSUME PowerInv, NEW group \in SUBSET Cpus, Wake(group)
  PROVE  PowerInv'
<1>. USE DEF PowerInv, PowerTypeOK
<1>1. /\ \A c \in group : suspPc[c] # "ended"
      /\ deepSleep' = [c \in Cpus |-> deepSleep[c] \/ (c \in group /\ wakeLocks[c] = 0)]
      /\ BeginWalk(group, "RESUME") /\ "RESUME" \in Events
      /\ UNCHANGED <<hibLocks, wakeLocks, semSuspend, callbackList, curInit, exiting>>
  BY DEF Wake, Events
<1>2. deepSleep' \in [Cpus -> BOOLEAN] /\ \A c \in Cpus : deepSleep'[c] <=> wakeLocks[c] = 0
  BY <1>1
<1>3. semSuspend' \in [Cpus -> Nat]
  BY <1>1
<1>. QED BY <1>1, <1>2, <1>3, BeginWalkKeeps

LEMMA ExitKeeps ==
  ASSUME PowerInv, NEW c \in Cpus,
         ExitCall(c) \/ ExitReturn(c) \/ InitAgain(c)
  PROVE  PowerInv'
<1>. USE DEF PowerInv, PowerTypeOK
<1>1. CASE ExitCall(c)
  <2>1. WalksInv'
    BY <1>1, WalksKept DEF ExitCall, WalksInv
  <2>2. semSuspend' \in [Cpus -> Nat]
    BY <1>1 DEF ExitCall, PostSuspend
  <2>. QED BY <1>1, <2>1, <2>2 DEF ExitCall, lockCounts, walkVars, Listed
<1>2. CASE ExitReturn(c)
  <2>1. WalksInv'
    BY <1>2, WalksKept DEF ExitReturn, WalksInv
  <2>. QED BY <1>2, <2>1 DEF ExitReturn, lockCounts, walkVars, Listed
<1>3. CASE InitAgain(c)
  <2>1. node[c] = NoNode
    BY <1>3 DEF InitAgain, WalksInv, WalkInv
  <2>2. /\ MaxLocks \in Nat
        /\ hibLocks' \in [Cpus -> 0 .. MaxLocks] /\ wakeLocks' \in [Cpus -> 0 .. MaxLocks]
    BY <1>3, IpcPowerAssumption DEF InitAgain, IpcPowerAssumption
  <2>3. /\ deepSleep' \in [Cpus -> BOOLEAN]
        /\ \A d \in Cpus : deepSleep'[d] <=> wakeLocks'[d] = 0
    BY <1>3 DEF InitAgain
  <2>4. \A d \in Cpus : ~curInit'[d] /\ ~exiting'[d] => suspPc'[d] = "ended"
    BY <1>3 DEF InitAgain, WalksInv
  <2>5. semSuspend' \in [Cpus -> Nat] /\ curInit' \in [Cpus -> BOOLEAN] /\ exiting' \in [Cpus -> BOOLEAN]
    BY <1>3 DEF InitAgain
  <2>6. /\ suspPc' = [suspPc EXCEPT ![c] = "pend"] /\ UNCHANGED <<walkVars, callbackList>>
    BY <1>3 DEF InitAgain
  <2>7. \A d \in Cpus : WalkInv(d)'
    BY <2>1, <2>6 DEF WalksInv, WalkInv, walkVars
  <2>8. WalksInv'
    BY <2>4, <2>6, <2>7 DEF WalksInv, walkVars
  <2>9. PowerTypeOK'
    BY <2>2, <2>3, <2>5, <2>6 DEF walkVars, Listed
  <2>. QED BY <2>8, <2>9
<1>. QED BY <1>1, <1>2, <1>3

\* Suspends and resumes reach all who listen for them, for any processors and any
\* functions: one that is in the list of callUserFxns for the whole of its walk is
\* called, whatever other tasks add and remove before, behind and in between.  No
\* step of its proof uses what Interrupts assumes of Cpus.
THEOREM PowerTheorem == PowerSpec => []PowerIsSound
<1>1. ASSUME PowerInv, NEW c \in Cpus,
             PowerNext(c) \/ HibernateLock(c) \/ HibernateUnlock(c)
      PROVE  PowerInv'
  BY <1>1, LocksKeep, RegisterKeeps, UnregisterKeeps, VisitKeeps, TaskKeeps, WakeKeeps, ExitKeeps
     DEF PowerNext, Registering, SuspendTask
<1>2. ASSUME PowerInv, UNCHANGED powerVars PROVE PowerInv'
  <2>1. WalksInv'
    BY <1>2, WalksKept DEF powerVars, PowerInv, WalksInv
  <2>. QED BY <1>2, <2>1 DEF PowerInv, PowerTypeOK, powerVars, walkVars, lockCounts, Listed
<1>3. /\ PowerInv
      /\ [\/ \E c \in Cpus : PowerNext(c) \/ HibernateLock(c) \/ HibernateUnlock(c)
          \/ \E group \in SUBSET Cpus : Wake(group)]_powerVars
      => PowerInv'
  BY <1>1, <1>2, WakeKeeps
<1>4. PowerInv => PowerIsSound
  BY DEF PowerInv, PowerIsSound, ListenersAreCalled, WalksInv, WalkInv
<1>. QED BY PowerStarts, <1>3, <1>4, PTL DEF PowerSpec

-----------------------------------------------------------------------------
\* Mail, between the processors and with the host.
Hibs == {"hib", "hibForce"}
Replies == {"ack", "cancel"}
HostMail == {"vq", "vqApp", "ready", "echo", "hib", "hibForce", "flush"}
M3Mail == {"vqApp", "hib"}
HostGets == {"echoReply", "ack", "cancel"}
Letters == HostMail \cup HostGets
MailFor(b) == IF b \in Leads THEN HostMail ELSE IF b = "AppM3" THEN M3Mail ELSE HostGets

\* Where an Hwi can be, and what it has to send then: to AppM3 before the host.
IsrPcs(c) ==
  CASE c = "SysM3" -> {"idle", "msg", "send", "suspend", "bit", "bitSuspend"}
    [] c = "AppM3" -> {"idle", "fifo", "status", "msg", "send", "suspend"}
    [] c = "DSP" -> {"idle", "msg", "send", "suspend"}
Holding == {"status", "msg"}
Sending == {"send", "suspend", "bit", "bitSuspend"}
AppLetters == [box : {"AppM3"}, msg : M3Mail]
HostLetters(c) == [box : {HostBox(c)}, msg : HostGets]
OutOf(c) ==
  {<<>>} \cup
  CASE c = "AppM3" -> {}
    [] c = "DSP" -> {<<h>> : h \in HostLetters(c)}
    [] c = "SysM3" -> {<<h>> : h \in HostLetters(c)} \cup {<<a>> : a \in AppLetters}
                      \cup {<<a, h>> : a \in AppLetters, h \in HostLetters(c)}

\* What was sent to a processor and has not reached VirtQueue_isr.
Taken(c) == IF isrPc[c] \in Holding THEN <<isrMsg[c]>> ELSE <<>>
ToAppM3 ==
  IF out["SysM3"] # <<>> /\ Head(out["SysM3"]).box = "AppM3"
  THEN <<Head(out["SysM3"]).msg>> ELSE <<>>
Behind(c) == IF c = "AppM3" THEN ToAppM3 ELSE <<>>
Line(h, t, s, e) == h \o (t \o (s \o e))

BoxesInv ==
  /\ mbox \in [Boxes -> Seq(Letters)]
  /\ \A b \in Boxes : mbox[b] \in Seq(MailFor(b)) /\ Len(mbox[b]) <= Depth
IsrInv ==
  /\ isrPc \in [Cpus -> {"idle", "fifo"} \cup Holding \cup Sending]
  /\ isrMsg \in [Cpus -> Letters \cup {"none"}]
  /\ DOMAIN out = Cpus
  /\ \A c \in Cpus : /\ isrPc[c] \in IsrPcs(c) /\ out[c] \in OutOf(c)
                     /\ isrPc[c] \in Holding => isrMsg[c] \in MailFor(c)
                     /\ out[c] # <<>> => isrPc[c] \in Sending
DriverInv ==
  /\ BoxesInv /\ IsrInv
  /\ coreInt \in BOOLEAN /\ edge \in BOOLEAN
  /\ hostPc \in [Leads -> {"awake", "asked", "asleep", "away"}]
  /\ sent \in [Cpus -> Seq(Letters)] /\ heard \in [Cpus -> Seq(Letters)]

InOrder(c) == sent[c] = Line(heard[c], Taken(c), mbox[c], Behind(c))
OrderInv == \A c \in Cpus : InOrder(c)

\* What of a kind is in a box, or with an Hwi that has not looked at it: a request
\* to hibernate, say.
At(s, ms) == {i \in DOMAIN s : s[i] \in ms}
Once(s, ms) == \A i, j \in At(s, ms) : i = j
InHand(c, ms) == isrPc[c] \in Holding /\ isrMsg[c] \in ms
Has(c, ms) == At(mbox[c], ms) # {} \/ InHand(c, ms)
Single(c, ms) == Once(mbox[c], ms) /\ (At(mbox[c], ms) # {} => ~InHand(c, ms))

\* What was replied to the host: what its processor has still to send, or sent.
Says(o, m) == \E i \in DOMAIN o : o[i].msg = m
InOut(c, m) == Says(out[c], m)
InBox(c, m) == At(mbox[HostBox(c)], {m}) # {}
Replied(c, m) == InOut(c, m) \/ InBox(c, m)

\* What will suspend a processor, or has: a message of SysM3 to AppM3, its Hwi, the
\* semaphore, its task.
Told(d) == d = "AppM3" /\ (InOut("SysM3", "hib") \/ Has(d, {"hib"}))
IsrWill(d) == isrPc[d] \in {"suspend", "bitSuspend"}
Posted(d) == semSuspend[d] # 0
Falls(d) == suspPc[d] = "asleep" \/ (suspPc[d] = "walk" /\ event[d] = "SUSPEND")
Calm(d) == ~Told(d) /\ ~IsrWill(d) /\ ~Posted(d) /\ ~Falls(d)

\* Each of them once, and one of them at a time.
OnceInv(c) ==
  /\ Single(c, Hibs)
  /\ Once(mbox[HostBox(c)], Replies)
  /\ \A m \in Replies : InOut(c, m) => \A n \in Replies : ~InBox(c, n)
SuspendInv(d) ==
  /\ semSuspend[d] \in {0, 1} /\ suspPc[d] \in {"pend", "walk", "asleep"}
  /\ Told(d) => ~IsrWill(d) /\ ~Posted(d) /\ ~Falls(d)
  /\ IsrWill(d) => ~Posted(d) /\ ~Falls(d)
  /\ Posted(d) => ~Falls(d)
  /\ d = "AppM3" => Single(d, {"hib"}) /\ (InOut("SysM3", "hib") => ~Has(d, {"hib"}))

\* What the host knows of it.
HostInv(c) ==
  /\ Has(c, Hibs) => /\ hostPc[c] = "asked" /\ \A m \in Replies : ~Replied(c, m)
                     /\ \A d \in GroupOf(c) : Calm(d)
  /\ Replied(c, "cancel") => /\ hostPc[c] = "asked" /\ ~Replied(c, "ack")
                             /\ \A d \in GroupOf(c) : Calm(d)
  /\ Replied(c, "ack") => hostPc[c] = "asked"
  /\ hostPc[c] \in {"awake", "away"} => \A d \in GroupOf(c) : Calm(d)

GroupInv(c) == OnceInv(c) /\ HostInv(c) /\ \A d \in GroupOf(c) : SuspendInv(d)

TasksInv ==
  /\ DOMAIN semSuspend = Cpus /\ DOMAIN suspPc = Cpus /\ DOMAIN event = Cpus
  /\ curInit = [c \in Cpus |-> TRUE]

MailInv == DriverInv /\ OrderInv /\ TasksInv /\ \A c \in Leads : GroupInv(c)

-----------------------------------------------------------------------------
LEMMA Places ==
  /\ Cpus = {"SysM3", "AppM3", "DSP"} /\ Leads = {"SysM3", "DSP"} /\ Depth \in Nat \ {0}
  /\ Boxes = {"SysM3", "AppM3", "DSP", "M3Host", "DspHost"}
  /\ HostBox("DSP") = "DspHost" /\ HostBox("SysM3") = "M3Host" /\ HostBox("AppM3") = "M3Host"
  /\ GroupOf("DSP") = {"DSP"} /\ GroupOf("SysM3") = {"SysM3", "AppM3"}
BY InterruptsAssumption DEF InterruptsAssumption, Leads, Boxes, HostBox, GroupOf

LEMMA MailForIs ==
  /\ MailFor("SysM3") = HostMail /\ MailFor("DSP") = HostMail /\ MailFor("AppM3") = M3Mail
  /\ MailFor("M3Host") = HostGets /\ MailFor("DspHost") = HostGets
  /\ \A b \in Boxes : MailFor(b) \subseteq Letters
BY Places DEF MailFor, Letters, HostMail, M3Mail, HostGets

\* What a Tail and an Append do to the messages of a kind.
LEMMA AtTail ==
  ASSUME NEW S, NEW s \in Seq(S), s # <<>>, NEW ms
  PROVE  /\ Tail(s) \in Seq(S) /\ Len(Tail(s)) = Len(s) - 1 /\ Head(s) \in S
         /\ At(Tail(s), ms) # {} => At(s, ms) # {}
         /\ Head(s) \in ms => At(s, ms) # {}
         /\ Once(s, ms) => Once(Tail(s), ms)
         /\ Once(s, ms) /\ Head(s) \in ms => At(Tail(s), ms) = {}
<1>. DEFINE t == Tail(s)
<1>1. /\ t \in Seq(S) /\ Len(t) = Len(s) - 1 /\ Head(s) = s[1] /\ Len(s) \in Nat /\ 1 \in DOMAIN s
      /\ Head(s) \in S /\ DOMAIN s = 1 .. Len(s) /\ DOMAIN t = 1 .. Len(s) - 1
      /\ \A i \in 1 .. Len(s) - 1 : t[i] = s[i + 1]
  BY HeadTailProperties
<1>. HIDE DEF t
<1>2. \A i \in At(t, ms) : i \in Int /\ i + 1 \in At(s, ms) /\ i + 1 # 1
  BY <1>1 DEF At
<1>3. Head(s) \in ms => 1 \in At(s, ms)
  BY <1>1 DEF At
<1>4. Once(s, ms) => Once(t, ms)
  <2>. SUFFICES ASSUME Once(s, ms), NEW i \in At(t, ms), NEW j \in At(t, ms) PROVE i = j
    BY DEF Once
  <2>1. i + 1 = j + 1
    BY <1>2 DEF Once
  <2>. QED BY <1>2, <2>1
<1>5. Once(s, ms) /\ Head(s) \in ms => At(t, ms) = {}
  BY <1>2, <1>3 DEF Once
<1>. QED BY <1>1, <1>2, <1>3, <1>4, <1>5 DEF t

LEMMA AtAppend ==
  ASSUME NEW S, NEW s \in Seq(S), NEW x \in S, NEW ms
  PROVE  /\ Append(s, x) \in Seq(S) /\ Len(Append(s, x)) = Len(s) + 1
         /\ x \notin ms => At(Append(s, x), ms) = At(s, ms)
         /\ x \notin ms /\ Once(s, ms) => Once(Append(s, x), ms)
         /\ At(s, ms) = {} => Once(Append(s, x), ms)
<1>. DEFINE t == Append(s, x)
<1>1. /\ t \in Seq(S) /\ Len(t) = Len(s) + 1 /\ DOMAIN t = DOMAIN s \cup {Len(s) + 1}
      /\ \A i \in DOMAIN s : t[i] = s[i]
      /\ t[Len(s) + 1] = x /\ Len(s) + 1 \notin DOMAIN s
  OBVIOUS
<1>. HIDE DEF t
<1>2. x \notin ms => At(t, ms) = At(s, ms)
  BY <1>1 DEF At
<1>3. At(s, ms) = {} => At(t, ms) \subseteq {Len(s) + 1}
  BY <1>1 DEF At
<1>. QED BY <1>1, <1>2, <1>3 DEF Once, t

LEMMA SaysIs ==
  /\ \A m : ~Says(<<>>, m)
  /\ \A x, m : Says(<<x>>, m) <=> x.msg = m
  /\ \A x, y, m : Says(<<x, y>>, m) <=> x.msg = m \/ y.msg = m
  /\ \A x : Head(<<x>>) = x /\ Tail(<<x>>) = <<>> /\ <<x>> # <<>>
  /\ \A x, y : Head(<<x, y>>) = x /\ Tail(<<x, y>>) = <<y>> /\ <<x, y>> # <<>>
<1>1. DOMAIN <<>> = {} /\ \A x : DOMAIN <<x>> = {1} /\ <<x>>[1] = x
  OBVIOUS
<1>2. \A x, y : DOMAIN <<x, y>> = {1, 2} /\ <<x, y>>[1] = x /\ <<x, y>>[2] = y
  OBVIOUS
<1>3. \A x : Head(<<x>>) = x /\ Tail(<<x>>) = <<>> /\ <<x>> # <<>>
  OBVIOUS
<1>4. \A x, y : Head(<<x, y>>) = x /\ Tail(<<x, y>>) = <<y>> /\ <<x, y>> # <<>>
  OBVIOUS
<1>. QED BY <1>1, <1>2, <1>3, <1>4 DEF Says

LEMMA ToIs ==
  ASSUME NEW b, NEW x
  PROVE  To(b, <<>>) = <<>> /\ To(b, <<x>>) = <<[box |-> b, msg |-> x]>>
<1>1. To(b, <<>>) = <<>>
  <2>1. DOMAIN <<>> = 1 .. 0 /\ 1 .. 0 = {}
    OBVIOUS
  <2>2. <<>> = [i \in {} |-> i]
    OBVIOUS
  <2>. QED BY <2>1, <2>2 DEF To
<1>2. To(b, <<x>>) = <<[box |-> b, msg |-> x]>>
  <2>. DEFINE r == [box |-> b, msg |-> x]
  <2>1. To(b, <<x>>) = [i \in 1 .. 1 |-> r]
    <3>1. DOMAIN <<x>> = 1 .. 1 /\ \A i \in 1 .. 1 : <<x>>[i] = x
      OBVIOUS
    <3>. QED BY <3>1 DEF To
  <2>. HIDE DEF r
  <2>2. <<r>> = [i \in 1 .. 1 |-> r]
    OBVIOUS
  <2>. QED BY <2>1, <2>2 DEF r
<1>. QED BY <1>1, <1>2

LEMMA Pairs ==
  ASSUME NEW x, NEW y
  PROVE  /\ <<>> \o <<>> = <<>> /\ <<x>> \o <<>> = <<x>> /\ <<>> \o <<y>> = <<y>>
         /\ <<x>> \o <<y>> = <<x, y>>
<1>. DEFINE S == {x, y}
<1>1. <<>> \in Seq(S) /\ <<x>> \in Seq(S) /\ <<y>> \in Seq(S) /\ <<x, y>> \in Seq(S)
  OBVIOUS
<1>. x \in S /\ y \in S
  OBVIOUS
<1>. HIDE DEF S
<1>2. Append(<<x>>, y) = <<x, y>>
  <2>1. Len(<<x>>) = 1 /\ <<x>>[1] = x /\ Len(<<x, y>>) = 2 /\ <<x, y>>[1] = x /\ <<x, y>>[2] = y
    OBVIOUS
  <2>2. /\ Append(<<x>>, y) \in Seq(S) /\ Len(Append(<<x>>, y)) = 1 + 1
        /\ Append(<<x>>, y)[1 + 1] = y /\ Append(<<x>>, y)[1] = x
    BY <1>1, <2>1, AppendProperties
  <2>3. \A i \in 1 .. Len(<<x, y>>) : Append(<<x>>, y)[i] = <<x, y>>[i]
    BY <2>1, <2>2
  <2>. DEFINE u == Append(<<x>>, y)
             v == <<x, y>>
  <2>4. u \in Seq(S) /\ v \in Seq(S) /\ Len(u) = Len(v) /\ \A i \in 1 .. Len(u) : u[i] = v[i]
    BY <1>1, <2>1, <2>2, <2>3
  <2>. HIDE DEF u, v
  <2>5. u = v
    BY <2>4, SeqEqual
  <2>. QED BY <2>5 DEF u, v
<1>3. Append(<<x>>, y) = <<x>> \o <<y>>
  BY <1>1, AppendIsConcat
<1>. QED BY <1>1, <1>2, <1>3, ConcatEmptySeq

\* Mail that moves from one place to the next is the same mail.
LEMMA MovedToHand ==
  ASSUME NEW S, NEW h \in Seq(S), NEW s \in Seq(S), NEW e \in Seq(S), s # <<>>
  PROVE  Line(h, <<>>, s, e) = Line(h, <<Head(s)>>, Tail(s), e)
<1>1. Head(s) \in S /\ Tail(s) \in Seq(S) /\ <<Head(s)>> \in Seq(S)
  BY HeadTailProperties
<1>2. <<Head(s)>> \o Tail(s) = s
  <2>1. Len(<<Head(s)>>) = 1 /\ <<Head(s)>>[1] = Head(s)
    OBVIOUS
  <2>2. /\ Len(<<Head(s)>> \o Tail(s)) = Len(s) /\ <<Head(s)>> \o Tail(s) \in Seq(S)
        /\ \A i \in 1 .. Len(s) : (<<Head(s)>> \o Tail(s))[i] = IF i <= 1 THEN <<Head(s)>>[i] ELSE Tail(s)[i - 1]
    BY <1>1, <2>1, HeadTailProperties, ConcatProperties
  <2>3. \A i \in 1 .. Len(s) : (<<Head(s)>> \o Tail(s))[i] = s[i]
    <3>. TAKE i \in 1 .. Len(s)
    <3>1. CASE i = 1
      BY <2>1, <2>2, <3>1, HeadTailProperties
    <3>2. CASE i # 1
      <4>1. i - 1 \in 1 .. Len(s) - 1 /\ ~(i <= 1) /\ (i - 1) + 1 = i
        BY <3>2, LenProperties
      <4>2. Tail(s)[i - 1] = s[(i - 1) + 1]
        BY <4>1, HeadTailProperties
      <4>. QED BY <2>2, <4>1, <4>2
    <3>. QED BY <3>1, <3>2
  <2>. QED BY <2>2, <2>3, SeqEqual
<1>3. <<Head(s)>> \o (Tail(s) \o e) = s \o e
  BY <1>1, <1>2, ConcatAssociative, SMTT(30)
<1>4. <<>> \o (s \o e) = s \o e
  BY ConcatEmptySeq, ConcatProperties
<1>. QED BY <1>3, <1>4 DEF Line

LEMMA MovedToHeard ==
  ASSUME NEW S, NEW h \in Seq(S), NEW s \in Seq(S), NEW e \in Seq(S), NEW m \in S
  PROVE  Line(h, <<m>>, s, e) = Line(Append(h, m), <<>>, s, e)
<1>. DEFINE r == s \o e
            one == <<m>>
<1>1. r \in Seq(S) /\ one \in Seq(S)
  BY ConcatProperties
<1>2. Append(h, m) = h \o one
  BY AppendIsConcat
<1>. HIDE DEF r, one
<1>3. <<>> \o r = r
  BY <1>1, ConcatEmptySeq
<1>4. (h \o one) \o r = h \o (one \o r)
  BY <1>1, ConcatAssociative, SMTT(30)
<1>. QED BY <1>2, <1>3, <1>4 DEF Line, r, one

LEMMA MovedToBox ==
  ASSUME NEW S, NEW h, NEW t, NEW s \in Seq(S), NEW m \in S
  PROVE  Line(h, t, s, <<m>>) = Line(h, t, Append(s, m), <<>>)
<1>1. Append(s, m) \o <<>> = s \o <<m>>
  BY AppendIsConcat, ConcatEmptySeq, AppendProperties
<1>. QED BY <1>1 DEF Line

LEMMA PassedBehind ==
  ASSUME NEW S, NEW h \in Seq(S), NEW t \in Seq(S), NEW s \in Seq(S), NEW e \in Seq(S)
  PROVE  Line(h, t, s, <<>>) \o e = Line(h, t, s, e)
<1>1. s \o <<>> = s
  BY ConcatEmptySeq
<1>2. (t \o s) \o e = t \o (s \o e)
  BY ConcatAssociative, SMTT(30)
<1>. DEFINE ts == t \o s
<1>3. ts \in Seq(S)
  BY ConcatProperties
<1>. HIDE DEF ts
<1>4. (h \o ts) \o e = h \o (ts \o e)
  BY <1>3, ConcatAssociative, SMTT(30)
<1>. QED BY <1>1, <1>2, <1>4 DEF Line, ts

LEMMA SentToBox ==
  ASSUME NEW S, NEW h \in Seq(S), NEW t \in Seq(S), NEW s \in Seq(S), NEW m \in S
  PROVE  Append(Line(h, t, s, <<>>), m) = Line(h, t, Append(s, m), <<>>)
<1>. DEFINE one == <<m>>
            l == Line(h, t, s, <<>>)
<1>1. one \in Seq(S)
  OBVIOUS
<1>2. l \in Seq(S)
  <2>1. s \o <<>> = s /\ t \o s \in Seq(S)
    BY ConcatEmptySeq, ConcatProperties
  <2>2. h \o (t \o s) \in Seq(S)
    BY <2>1, ConcatProperties
  <2>. QED BY <2>1, <2>2 DEF Line
<1>. HIDE DEF l
<1>3. Append(l, m) = l \o one
  BY <1>2, AppendIsConcat
<1>. HIDE DEF one
<1>4. l \o one = Line(h, t, s, one)
  BY <1>1, PassedBehind, ZenonT(60) DEF l
<1>5. Line(h, t, s, one) = Line(h, t, Append(s, m), <<>>)
  BY MovedToBox DEF one
<1>. QED BY <1>3, <1>4, <1>5 DEF l

LEMMA PrefixOfConcat ==
  ASSUME NEW S, NEW s \in Seq(S), NEW t \in Seq(S)
  PROVE  IsPrefix(s, s \o t)
<1>1. Len(s) \in Nat /\ Len(t) \in Nat /\ Len(s \o t) = Len(s) + Len(t) /\ s \o t \in Seq(S)
  BY ConcatProperties, LenProperties
<1>2. \A i \in 1 .. Len(s) : (s \o t)[i] = s[i] /\ s[i] \in S
  BY <1>1, ConcatProperties, ElementOfSeq
<1>. DEFINE a == SubSeq(s, 1, Len(s))
            b == SubSeq(s \o t, 1, Len(s))
<1>3. a \in Seq(S) /\ Len(a) = Len(s) /\ \A i \in 1 .. Len(s) : a[i] = s[i]
  BY <1>1, <1>2, SubSeqProperties
<1>4. b \in Seq(S) /\ Len(b) = Len(s) /\ \A i \in 1 .. Len(s) : b[i] = s[i]
  BY <1>1, <1>2, SubSeqProperties
<1>5. a = b
  BY <1>3, <1>4, SeqEqual
<1>. QED BY <1>1, <1>5 DEF IsPrefix

-----------------------------------------------------------------------------
\* What the Hwis do, one step at a time.
Goes(c, to) == isrPc' = [isrPc EXCEPT ![c] = to]

LEMMA ClearIs ==
  ASSUME DriverInv, NEW c \in Cpus, Clear(c)
  PROVE  /\ UNCHANGED <<out, hostPc, sentVars, powerVars>>
         /\ coreInt' \in BOOLEAN /\ edge' \in BOOLEAN
         /\ \/ /\ mbox[c] # <<>> /\ isrPc[c] \in {"idle", "fifo"}
               /\ mbox' = [mbox EXCEPT ![c] = Tail(@)]
               /\ isrMsg' = [isrMsg EXCEPT ![c] = Head(mbox[c])]
               /\ \E to \in Holding : to \in IsrPcs(c) /\ Goes(c, to)
            \/ /\ UNCHANGED <<mbox, isrMsg>>
               /\ \/ UNCHANGED isrPc
                  \/ c = "AppM3" /\ isrPc[c] = "idle" /\ Goes(c, "fifo")
                  \/ c = "AppM3" /\ isrPc[c] = "fifo" /\ Goes(c, "idle")
                  \/ c = "AppM3" /\ isrPc[c] = "status" /\ Goes(c, "msg")
<1>. USE DEF DriverInv, BoxesInv, IsrInv, IsrGoto, Goes, Pop, Holding, IsrPcs
<1>1. CASE c = "SysM3" /\ ClearSysM3
  BY <1>1 DEF ClearSysM3
<1>2. CASE c = "DSP" /\ ClearDsp
  <2>1. (Len(mbox["DSP"]) > 1) \in BOOLEAN
    OBVIOUS
  <2>. QED BY <1>2, <2>1 DEF ClearDsp, TakeDsp
<1>3. CASE c = "AppM3" /\ ClearBit
  BY <1>3 DEF ClearBit
<1>4. CASE c = "AppM3" /\ ClearFifo
  BY <1>4 DEF ClearFifo
<1>5. CASE c = "AppM3" /\ ClearStatus
  <2>1. (coreInt \/ mbox["AppM3"] # <<>>) \in BOOLEAN
    OBVIOUS
  <2>. QED BY <1>5, <2>1 DEF ClearStatus
<1>. QED BY <1>1, <1>2, <1>3, <1>4, <1>5 DEF Clear

\* What VirtQueue_isr decides, for each processor.
LEMMA Decides ==
  ASSUME NEW c \in Cpus, NEW m \in MailFor(c)
  PROVE  /\ Suspends(c, m) => m \in Hibs
         /\ c = "AppM3" => (Suspends(c, m) => m = "hib")
         /\ c # "SysM3" => PassedOn(c, m) = <<>>
         /\ c = "SysM3" =>
              \/ m = "vqApp" /\ PassedOn(c, m) = <<"vqApp">>
              \/ Suspends(c, m) /\ PassedOn(c, m) = <<"hib">>
              \/ ~Suspends(c, m) /\ PassedOn(c, m) = <<>>
         /\ c # "AppM3" =>
              \/ m = "echo" /\ Answers(c, m) = <<"echoReply">>
              \/ m \in Hibs /\ ~Suspends(c, m) /\ Answers(c, m) = <<"cancel">>
              \/ Suspends(c, m) /\ Answers(c, m) = <<"ack">>
              \/ m \notin Hibs /\ Answers(c, m) = <<>>
<1>. DEFINE can == CanHibernate(GroupOf(c))
<1>. can \in BOOLEAN
  BY DEF CanHibernate
<1>1. Suspends(c, m) <=> m = "hibForce" \/ (m = "hib" /\ (c = "AppM3" \/ can))
  BY DEF Suspends
<1>2. c # "SysM3" => PassedOn(c, m) = <<>>
  BY DEF PassedOn
<1>3. c = "SysM3" =>
        PassedOn(c, m) = IF m = "vqApp" THEN <<m>>
                         ELSE IF m = "hibForce" \/ (m = "hib" /\ can) THEN <<"hib">> ELSE <<>>
  BY DEF PassedOn
<1>4. /\ m = "echo" => Answers(c, m) = <<"echoReply">>
      /\ m = "hib" /\ ~can => Answers(c, m) = <<"cancel">>
      /\ m = "hibForce" \/ (m = "hib" /\ can) => Answers(c, m) = <<"ack">>
      /\ m \notin {"echo", "hib", "hibForce"} => Answers(c, m) = <<>>
  BY DEF Answers
<1>. HIDE DEF can
<1>5. c = "AppM3" => m \in {"vqApp", "hib"}
  BY MailForIs DEF M3Mail
<1>. QED BY <1>1, <1>2, <1>3, <1>4, <1>5 DEF Hibs

LEMMA DispatchIs ==
  ASSUME DriverInv, NEW c \in Cpus, Dispatch(c)
  PROVE  LET m == isrMsg[c] IN
         /\ UNCHANGED <<mbox, coreInt, edge, isrMsg, hostPc, powerVars>>
         /\ isrPc[c] = "msg" /\ m \in MailFor(c) /\ out[c] = <<>>
         /\ heard' = [heard EXCEPT ![c] = Append(@, m)]
         /\ sent' = [sent EXCEPT !["AppM3"] = @ \o PassedOn(c, m)]
         /\ Goes(c, IF Suspends(c, m) THEN "suspend" ELSE "send")
         /\ DOMAIN out' = Cpus /\ out'[c] \in OutOf(c) /\ \A d \in Cpus \ {c} : out'[d] = out[d]
         /\ Suspends(c, m) => m \in Hibs
         /\ c = "AppM3" => out'[c] = <<>> /\ (Suspends(c, m) => m = "hib")
         /\ c # "AppM3" =>
              /\ Says(out'[c], "ack") <=> Suspends(c, m)
              /\ Says(out'[c], "cancel") <=> m \in Hibs /\ ~Suspends(c, m)
              /\ Says(out'[c], "hib") => Suspends(c, m)
         /\ c # "SysM3" => PassedOn(c, m) = <<>>
         /\ c = "SysM3" => /\ PassedOn(c, m) = ToAppM3'
                           /\ PassedOn(c, m) \in {<<>>} \cup {<<x>> : x \in M3Mail}
<1>. DEFINE m == isrMsg[c]
            p == PassedOn(c, m)
            a == Answers(c, m)
            o == out'[c]
<1>1. /\ UNCHANGED <<mbox, coreInt, edge, isrMsg, hostPc, powerVars>>
      /\ isrPc[c] = "msg" /\ m \in MailFor(c) /\ out[c] = <<>>
      /\ heard' = [heard EXCEPT ![c] = Append(@, m)]
      /\ sent' = [sent EXCEPT !["AppM3"] = @ \o PassedOn(c, m)]
      /\ Goes(c, IF Suspends(c, m) THEN "suspend" ELSE "send")
      /\ DOMAIN out' = Cpus /\ \A d \in Cpus \ {c} : out'[d] = out[d]
      /\ o = IF c = "AppM3" THEN <<>> ELSE To("AppM3", p) \o To(HostBox(c), a)
  BY DEF Dispatch, DriverInv, IsrInv, IsrGoto, Goes, Holding, Sending
<1>2. /\ Suspends(c, m) => m \in Hibs
      /\ c = "AppM3" => (Suspends(c, m) => m = "hib")
      /\ c # "SysM3" => p = <<>>
      /\ c = "SysM3" =>
           \/ m = "vqApp" /\ p = <<"vqApp">>
           \/ Suspends(c, m) /\ p = <<"hib">>
           \/ ~Suspends(c, m) /\ p = <<>>
      /\ c # "AppM3" =>
           \/ m = "echo" /\ a = <<"echoReply">>
           \/ m \in Hibs /\ ~Suspends(c, m) /\ a = <<"cancel">>
           \/ Suspends(c, m) /\ a = <<"ack">>
           \/ m \notin Hibs /\ a = <<>>
  BY <1>1, Decides
<1>. DEFINE sus == Suspends(c, m)
            refused == m \in Hibs /\ ~sus
            vq == m = "vqApp"
\* In the two cases, what the host is told and what is passed on.
<1>3. ASSUME c # "AppM3"
      PROVE  \/ a = <<>> /\ ~sus /\ ~refused
             \/ \E y \in HostGets : a = <<y>> /\ (y = "ack" <=> sus) /\ (y = "cancel" <=> refused)
  BY <1>2, <1>3 DEF HostGets, Hibs
<1>4. ASSUME c = "SysM3"
      PROVE  \/ p = <<>>
             \/ \E x \in M3Mail : p = <<x>> /\ (x = "hib" => sus)
  BY <1>2, <1>4 DEF M3Mail
<1>5. CASE c = "AppM3"
  BY <1>1, <1>2, <1>5 DEF OutOf
<1>. HIDE DEF sus, refused, p, a, m, o
<1>. DEFINE letter(b, x) == [box |-> b, msg |-> x]
<1>6. ASSUME c # "AppM3", p = <<>>, a = <<>>
      PROVE  o = <<>>
  BY <1>1, <1>6, ToIs, Pairs
<1>7. ASSUME c # "AppM3", p = <<>>, NEW y, a = <<y>>
      PROVE  o = <<letter(HostBox(c), y)>>
  <2>1. To("AppM3", p) = <<>> /\ To(HostBox(c), a) = <<letter(HostBox(c), y)>>
    BY <1>7, ToIs
  <2>. QED BY <1>1, <1>7, <2>1, Pairs
<1>8. ASSUME c # "AppM3", NEW x, p = <<x>>, a = <<>>
      PROVE  o = <<letter("AppM3", x)>>
  <2>1. To("AppM3", p) = <<letter("AppM3", x)>> /\ To(HostBox(c), a) = <<>>
    BY <1>8, ToIs
  <2>. QED BY <1>1, <1>8, <2>1, Pairs
<1>9. ASSUME c # "AppM3", NEW x, p = <<x>>, NEW y, a = <<y>>
      PROVE  o = <<letter("AppM3", x), letter(HostBox(c), y)>>
  <2>1. To("AppM3", p) = <<letter("AppM3", x)>> /\ To(HostBox(c), a) = <<letter(HostBox(c), y)>>
    BY <1>9, ToIs
  <2>. QED BY <1>1, <1>9, <2>1, Pairs
<1>10. \A b, x : letter(b, x).msg = x /\ letter(b, x).box = b
  OBVIOUS
<1>11. /\ \A x \in M3Mail : letter("AppM3", x) \in AppLetters /\ x # "ack" /\ x # "cancel"
       /\ \A y \in HostGets : letter(HostBox(c), y) \in HostLetters(c) /\ y # "hib"
       /\ HostBox(c) # "AppM3"
  BY Places DEF AppLetters, HostLetters, M3Mail, HostGets
<1>. HIDE DEF letter
<1>. DEFINE Good == /\ Says(o, "ack") <=> sus
                    /\ Says(o, "cancel") <=> refused
                    /\ Says(o, "hib") => sus
                    /\ o \in OutOf(c)
            first == IF o # <<>> /\ Head(o).box = "AppM3" THEN <<Head(o).msg>> ELSE <<>>
<1>12. ASSUME c # "AppM3", p = <<>> PROVE Good /\ first = <<>>
  <2>1. CASE a = <<>> /\ ~sus /\ ~refused
    BY <1>6, <1>12, <2>1, SaysIs DEF OutOf
  <2>2. ASSUME NEW y \in HostGets, a = <<y>>, y = "ack" <=> sus, y = "cancel" <=> refused
        PROVE  Good /\ first = <<>>
    <3>. DEFINE h == letter(HostBox(c), y)
    <3>1. o = <<h>> /\ h.msg = y /\ h.box # "AppM3" /\ h \in HostLetters(c)
      BY <1>7, <1>10, <1>11, <1>12, <2>2
    <3>. HIDE DEF h
    <3>2. o \in OutOf(c)
      BY <1>12, <3>1, Places DEF OutOf
    <3>3. /\ \A k : Says(o, k) <=> h.msg = k
          /\ Head(o) = h
      BY <3>1, SaysIs
    <3>. QED BY <1>11, <2>2, <3>1, <3>2, <3>3
  <2>. QED BY <1>3, <1>12, <2>1, <2>2
<1>13. CASE c = "DSP"
  <2>1. Good
    BY <1>2, <1>12, <1>13
  <2>. HIDE DEF Good
  <2>. QED BY <1>1, <1>2, <1>13, <2>1 DEF Good, sus, refused, p, m, o
<1>14. CASE c = "SysM3"
  <2>1. Good /\ first = p
    <3>1. CASE p = <<>>
      BY <1>12, <1>14, <3>1
    <3>2. ASSUME NEW x \in M3Mail, p = <<x>>, x = "hib" => sus PROVE Good /\ first = p
      <4>. DEFINE n == letter("AppM3", x)
      <4>1. n.msg = x /\ n.box = "AppM3" /\ n \in AppLetters
        BY <1>10, <1>11
      <4>2. CASE a = <<>> /\ ~sus /\ ~refused
        <5>1. o = <<n>>
          BY <1>8, <1>14, <3>2, <4>2
        <5>. HIDE DEF n
        <5>2. o \in OutOf(c)
          BY <1>14, <4>1, <5>1 DEF OutOf
        <5>3. /\ \A k : Says(o, k) <=> n.msg = k
              /\ Head(o) = n /\ o # <<>>
          BY <5>1, SaysIs
        <5>. QED BY <1>11, <3>2, <4>1, <4>2, <5>2, <5>3
      <4>3. ASSUME NEW y \in HostGets, a = <<y>>, y = "ack" <=> sus, y = "cancel" <=> refused
            PROVE  Good /\ first = p
        <5>. DEFINE h == letter(HostBox(c), y)
        <5>1. o = <<n, h>>
          BY <1>9, <1>14, <3>2, <4>3
        <5>2. h.msg = y /\ h \in HostLetters(c)
          BY <1>10, <1>11
        <5>. HIDE DEF n, h
        <5>3. o \in OutOf(c)
          BY <1>14, <4>1, <5>1, <5>2 DEF OutOf
        <5>4. /\ \A k : Says(o, k) <=> n.msg = k \/ h.msg = k
              /\ Head(o) = n /\ o # <<>>
          BY <5>1, SaysIs
        <5>. QED BY <1>11, <3>2, <4>1, <4>3, <5>2, <5>3, <5>4
      <4>. QED BY <1>3, <1>14, <4>2, <4>3
    <3>. QED BY <1>4, <1>14, <3>1, <3>2
  <2>2. p \in {<<>>} \cup {<<x>> : x \in M3Mail}
    BY <1>4, <1>14
  <2>3. first = ToAppM3'
    BY <1>14 DEF ToAppM3, o
  <2>. HIDE DEF Good, first
  <2>. QED BY <1>1, <1>2, <1>14, <2>1, <2>2, <2>3 DEF Good, sus, refused, p, m, o
<1>. QED BY <1>5, <1>13, <1>14, Places

\* What intSend does: to AppM3, or to the host.
LEMMA SendIs ==
  ASSUME DriverInv, NEW c \in Cpus, IntSend(c)
  PROVE  /\ UNCHANGED <<coreInt, edge, isrMsg, hostPc, sentVars, powerVars>>
         /\ isrPc[c] \in {"send", "suspend"} /\ c \in Leads
         /\ DOMAIN out' = Cpus /\ out'[c] \in OutOf(c) /\ \A d \in Cpus \ {c} : out'[d] = out[d]
         /\ ~Says(out'[c], "hib")
         /\ \/ /\ c = "SysM3" /\ Goes(c, IF isrPc[c] = "send" THEN "bit" ELSE "bitSuspend")
               /\ \A m \in Replies : Says(out'[c], m) <=> Says(out[c], m)
               /\ \E x \in M3Mail :
                    /\ ToAppM3 = <<x>> /\ ToAppM3' = <<>>
                    /\ Says(out[c], "hib") <=> x = "hib"
                    /\ Len(mbox["AppM3"]) < Depth
                    /\ mbox' = [mbox EXCEPT !["AppM3"] = Append(@, x)]
            \/ /\ UNCHANGED isrPc /\ ToAppM3' = ToAppM3 /\ out'[c] = <<>>
               /\ \E y \in HostGets :
                    /\ \A m : Says(out[c], m) <=> m = y
                    /\ \/ UNCHANGED mbox
                       \/ /\ Len(mbox[HostBox(c)]) < Depth
                          /\ mbox' = [mbox EXCEPT ![HostBox(c)] = Append(@, y)]
<1>. DEFINE o == Head(out[c])
            room == Len(mbox[o.box]) < Depth
<1>1. /\ UNCHANGED <<coreInt, edge, isrMsg, hostPc, sentVars, powerVars>>
      /\ isrPc[c] \in {"send", "suspend"} /\ out[c] # <<>>
      /\ DOMAIN out' = Cpus /\ out'[c] = Tail(out[c]) /\ \A d \in Cpus \ {c} : out'[d] = out[d]
      /\ mbox' = [mbox EXCEPT ![o.box] = IF room THEN Append(@, o.msg) ELSE @]
      /\ c = "DSP" \/ room
      /\ Goes(c, IF o.box # "AppM3" THEN isrPc[c] ELSE IF isrPc[c] = "send" THEN "bit" ELSE "bitSuspend")
      /\ mbox \in [Boxes -> Seq(Letters)] /\ out[c] \in OutOf(c)
      /\ isrPc \in [Cpus -> {"idle", "fifo"} \cup Holding \cup Sending]
  BY DEF IntSend, SendWhen, PutMail, IsrGoto, Goes, DriverInv, IsrInv, BoxesInv
<1>2. c # "AppM3" /\ (c = "SysM3" \/ c = "DSP") /\ c \in Leads
  BY <1>1, Places DEF OutOf
<1>3. /\ \A h \in HostLetters(c) : h.box = HostBox(c) /\ h.msg \in HostGets
      /\ \A a \in AppLetters : a.box = "AppM3" /\ a.msg \in M3Mail
      /\ HostBox(c) # "AppM3" /\ "hib" \notin HostGets
      /\ \A m \in Replies : m \notin M3Mail
  BY Places DEF HostLetters, AppLetters, HostGets, Replies, M3Mail
<1>. HIDE DEF room
<1>4. ASSUME NEW h \in HostLetters(c), out[c] = <<h>>
      PROVE  /\ out'[c] = <<>> /\ o = h /\ UNCHANGED isrPc /\ ToAppM3' = ToAppM3
             /\ \A m : Says(out[c], m) <=> m = h.msg
  <2>1. Tail(<<h>>) = <<>> /\ Head(<<h>>) = h /\ \A m : Says(<<h>>, m) <=> h.msg = m
    BY SaysIs
  <2>2. out'[c] = <<>> /\ o = h /\ \A m : Says(out[c], m) <=> m = h.msg
    BY <1>1, <1>4, <2>1
  <2>3. UNCHANGED isrPc
    BY <1>1, <1>3, <2>2 DEF Goes
  <2>4. ToAppM3' = ToAppM3
    <3>1. CASE c = "SysM3"
      BY <1>3, <2>2, <3>1 DEF ToAppM3
    <3>2. CASE c = "DSP"
      BY <1>1, <3>2, Places DEF ToAppM3
    <3>. QED BY <1>2, <3>1, <3>2
  <2>. QED BY <2>2, <2>3, <2>4
<1>5. ASSUME NEW h \in HostLetters(c), out[c] = <<h>>
      PROVE  \/ UNCHANGED mbox
             \/ /\ Len(mbox[HostBox(c)]) < Depth
                /\ mbox' = [mbox EXCEPT ![HostBox(c)] = Append(@, h.msg)]
  <2>1. o.box = HostBox(c) /\ o.msg = h.msg
    BY <1>3, <1>4, <1>5
  <2>2. CASE room
    BY <1>1, <2>1, <2>2 DEF room
  <2>3. CASE ~room
    BY <1>1, <2>3
  <2>. QED BY <2>2, <2>3
<1>6. ASSUME NEW a \in AppLetters, c = "SysM3", NEW rest, out'[c] = rest, rest = <<>> \/ \E h \in HostLetters(c) : rest = <<h>>,
             o = a
      PROVE  /\ ToAppM3 = <<a.msg>> /\ ToAppM3' = <<>>
             /\ Len(mbox["AppM3"]) < Depth
             /\ mbox' = [mbox EXCEPT !["AppM3"] = Append(@, a.msg)]
             /\ Goes(c, IF isrPc[c] = "send" THEN "bit" ELSE "bitSuspend")
  <2>1. ToAppM3 = <<a.msg>>
    BY <1>1, <1>3, <1>6 DEF ToAppM3
  <2>2. ToAppM3' = <<>>
    BY <1>3, <1>6, SaysIs DEF ToAppM3
  <2>. QED BY <1>1, <1>3, <1>6, <2>1, <2>2 DEF room
<1>7. CASE \E h \in HostLetters(c) : out[c] = <<h>>
  <2>1. PICK h \in HostLetters(c) : out[c] = <<h>>
    BY <1>7
  <2>2. ~Says(out'[c], "hib") /\ out'[c] \in OutOf(c)
    BY <1>4, <2>1, SaysIs DEF OutOf
  <2>. HIDE DEF o
  <2>. QED BY <1>1, <1>2, <1>3, <1>4, <1>5, <2>1, <2>2
<1>8. CASE c = "SysM3" /\ \E a \in AppLetters : out[c] = <<a>>
  <2>1. PICK a \in AppLetters : out[c] = <<a>>
    BY <1>8
  <2>2. /\ out'[c] = <<>> /\ o = a /\ \A m : Says(out[c], m) <=> m = a.msg
        /\ \A m : ~Says(out'[c], m)
    BY <1>1, <2>1, SaysIs
  <2>3. out'[c] \in OutOf(c)
    BY <2>2 DEF OutOf
  <2>4. /\ ToAppM3 = <<a.msg>> /\ ToAppM3' = <<>>
        /\ Len(mbox["AppM3"]) < Depth
        /\ mbox' = [mbox EXCEPT !["AppM3"] = Append(@, a.msg)]
        /\ Goes(c, IF isrPc[c] = "send" THEN "bit" ELSE "bitSuspend")
    BY <1>6, <1>8, <2>2
  <2>5. /\ Says(out[c], "hib") <=> a.msg = "hib"
        /\ ~Says(out'[c], "hib") /\ a.msg \in M3Mail
        /\ \A m \in Replies : Says(out'[c], m) <=> Says(out[c], m)
    BY <1>3, <2>2
  <2>. HIDE DEF o
  <2>. QED BY <1>1, <1>2, <1>3, <1>8, <2>3, <2>4, <2>5
<1>9. CASE c = "SysM3" /\ \E a \in AppLetters, h \in HostLetters(c) : out[c] = <<a, h>>
  <2>1. PICK a \in AppLetters, h \in HostLetters(c) : out[c] = <<a, h>>
    BY <1>9
  <2>2. /\ out'[c] = <<h>> /\ o = a /\ \A m : Says(out[c], m) <=> a.msg = m \/ h.msg = m
        /\ \A m : Says(out'[c], m) <=> h.msg = m
    BY <1>1, <2>1, SaysIs
  <2>3. out'[c] \in OutOf(c)
    BY <1>9, <2>2 DEF OutOf
  <2>4. /\ ToAppM3 = <<a.msg>> /\ ToAppM3' = <<>>
        /\ Len(mbox["AppM3"]) < Depth
        /\ mbox' = [mbox EXCEPT !["AppM3"] = Append(@, a.msg)]
        /\ Goes(c, IF isrPc[c] = "send" THEN "bit" ELSE "bitSuspend")
    BY <1>6, <1>9, <2>2
  <2>5. /\ Says(out[c], "hib") <=> a.msg = "hib"
        /\ ~Says(out'[c], "hib")
        /\ \A m \in Replies : Says(out'[c], m) <=> Says(out[c], m)
    BY <1>3, <2>2
  <2>. HIDE DEF o
  <2>. QED BY <1>1, <1>2, <1>3, <1>9, <2>2, <2>3, <2>4, <2>5
<1>10. CASE c = "SysM3"
  <2>1. \/ \E h \in HostLetters(c) : out[c] = <<h>>
        \/ \E a \in AppLetters : out[c] = <<a>>
        \/ \E a \in AppLetters, h \in HostLetters(c) : out[c] = <<a, h>>
    BY <1>1, <1>10 DEF OutOf
  <2>. QED BY <1>7, <1>8, <1>9, <1>10, <2>1
<1>11. CASE c = "DSP"
  <2>1. \E h \in HostLetters(c) : out[c] = <<h>>
    BY <1>1, <1>11 DEF OutOf
  <2>. QED BY <1>7, <2>1
<1>. QED BY <1>2, <1>10, <1>11

-----------------------------------------------------------------------------
\* Types, and what is in the mailboxes.
LEMMA BoxSet ==
  ASSUME BoxesInv, NEW b \in Boxes, NEW s \in Seq(MailFor(b)), Len(s) <= Depth,
         mbox' = [mbox EXCEPT ![b] = s]
  PROVE  BoxesInv'
<1>1. MailFor(b) \subseteq Letters
  BY MailForIs
<1>2. s \in Seq(Letters)
  BY <1>1, SeqMonotonic
<1>. QED BY <1>2 DEF BoxesInv

LEMMA IsrSet ==
  ASSUME IsrInv, NEW c \in Cpus, NEW pc \in IsrPcs(c), NEW m \in Letters \cup {"none"},
         isrPc' = [isrPc EXCEPT ![c] = pc], isrMsg' = [isrMsg EXCEPT ![c] = m],
         DOMAIN out' = Cpus, out'[c] \in OutOf(c), \A d \in Cpus \ {c} : out'[d] = out[d],
         pc \in Holding => m \in MailFor(c), out'[c] # <<>> => pc \in Sending
  PROVE  IsrInv'
<1>1. pc \in {"idle", "fifo"} \cup Holding \cup Sending
  BY Places DEF IsrPcs, Holding, Sending
<1>2. /\ isrPc' \in [Cpus -> {"idle", "fifo"} \cup Holding \cup Sending]
      /\ isrMsg' \in [Cpus -> Letters \cup {"none"}]
  BY <1>1 DEF IsrInv
<1>3. \A d \in Cpus : /\ isrPc'[d] \in IsrPcs(d) /\ out'[d] \in OutOf(d)
                      /\ isrPc'[d] \in Holding => isrMsg'[d] \in MailFor(d)
                      /\ out'[d] # <<>> => isrPc'[d] \in Sending
  <2>. TAKE d \in Cpus
  <2>1. CASE d = c
    BY <2>1 DEF IsrInv
  <2>2. CASE d # c
    BY <2>2 DEF IsrInv
  <2>. QED BY <2>1, <2>2
<1>. QED BY <1>2, <1>3 DEF IsrInv

LEMMA ClearTypes ==
  ASSUME DriverInv, NEW c \in Cpus, Clear(c)
  PROVE  DriverInv'
<1>1. /\ UNCHANGED <<out, hostPc, sentVars>> /\ coreInt' \in BOOLEAN /\ edge' \in BOOLEAN
      /\ BoxesInv /\ IsrInv
  BY ClearIs DEF DriverInv
<1>2. CASE /\ mbox[c] # <<>> /\ isrPc[c] \in {"idle", "fifo"}
           /\ mbox' = [mbox EXCEPT ![c] = Tail(@)]
           /\ isrMsg' = [isrMsg EXCEPT ![c] = Head(mbox[c])]
           /\ \E to \in Holding : to \in IsrPcs(c) /\ Goes(c, to)
  <2>1. c \in Boxes /\ mbox[c] \in Seq(MailFor(c)) /\ Len(mbox[c]) <= Depth /\ Depth \in Nat
    BY <1>1, Places DEF BoxesInv
  <2>2. Tail(mbox[c]) \in Seq(MailFor(c)) /\ Len(Tail(mbox[c])) <= Depth /\ Head(mbox[c]) \in MailFor(c)
    <3>1. /\ Tail(mbox[c]) \in Seq(MailFor(c)) /\ Head(mbox[c]) \in MailFor(c)
          /\ Len(Tail(mbox[c])) = Len(mbox[c]) - 1
      BY <1>2, <2>1, AtTail
    <3>2. Len(mbox[c]) \in Nat
      BY <2>1, LenProperties
    <3>. QED BY <2>1, <3>1, <3>2
  <2>3. BoxesInv'
    BY <1>1, <1>2, <2>1, <2>2, BoxSet
  <2>4. PICK to \in Holding : to \in IsrPcs(c) /\ Goes(c, to)
    BY <1>2
  <2>5. out[c] = <<>> /\ out'[c] \in OutOf(c) /\ DOMAIN out' = Cpus /\ Head(mbox[c]) \in Letters
    BY <1>1, <1>2, <2>1, <2>2, MailForIs DEF IsrInv, Sending
  <2>6. IsrInv'
    BY <1>1, <1>2, <2>2, <2>4, <2>5, IsrSet DEF Goes
  <2>. QED BY <1>1, <2>3, <2>6 DEF DriverInv, sentVars
<1>3. CASE /\ UNCHANGED <<mbox, isrMsg>>
           /\ \/ UNCHANGED isrPc
              \/ c = "AppM3" /\ isrPc[c] = "idle" /\ Goes(c, "fifo")
              \/ c = "AppM3" /\ isrPc[c] = "fifo" /\ Goes(c, "idle")
              \/ c = "AppM3" /\ isrPc[c] = "status" /\ Goes(c, "msg")
  <2>1. PICK to \in IsrPcs(c) : /\ Goes(c, to) /\ (to \in Holding => isrPc[c] \in Holding)
                                /\ (isrPc[c] \in Sending => to \in Sending)
    <3>1. CASE UNCHANGED isrPc
      <4>1. Goes(c, isrPc[c])
        BY <1>1, <3>1 DEF Goes, IsrInv
      <4>. QED BY <1>1, <4>1 DEF IsrInv
    <3>2. CASE c = "AppM3" /\ isrPc[c] = "idle" /\ Goes(c, "fifo")
      BY <3>2 DEF IsrPcs, Holding, Sending
    <3>3. CASE c = "AppM3" /\ isrPc[c] = "fifo" /\ Goes(c, "idle")
      BY <3>3 DEF IsrPcs, Holding, Sending
    <3>4. CASE c = "AppM3" /\ isrPc[c] = "status" /\ Goes(c, "msg")
      BY <3>4 DEF IsrPcs, Holding, Sending
    <3>. QED BY <1>3, <3>1, <3>2, <3>3, <3>4
  <2>2. /\ isrMsg[c] \in Letters \cup {"none"} /\ isrMsg' = [isrMsg EXCEPT ![c] = isrMsg[c]]
        /\ DOMAIN out' = Cpus /\ out'[c] \in OutOf(c) /\ out'[c] = out[c]
        /\ to \in Holding => isrMsg[c] \in MailFor(c)
        /\ out'[c] # <<>> => to \in Sending
    BY <1>1, <1>3, <2>1 DEF IsrInv
  <2>3. IsrInv'
    BY <1>1, <2>1, <2>2, IsrSet DEF Goes
  <2>4. BoxesInv'
    BY <1>1, <1>3 DEF BoxesInv
  <2>. QED BY <1>1, <2>3, <2>4 DEF DriverInv, sentVars
<1>. QED BY <1>2, <1>3, ClearIs

LEMMA DispatchTypes ==
  ASSUME DriverInv, NEW c \in Cpus, Dispatch(c)
  PROVE  DriverInv'
<1>. DEFINE m == isrMsg[c]
            p == PassedOn(c, m)
<1>1. /\ UNCHANGED <<mbox, coreInt, edge, isrMsg, hostPc>>
      /\ m \in MailFor(c)
      /\ heard' = [heard EXCEPT ![c] = Append(@, m)]
      /\ sent' = [sent EXCEPT !["AppM3"] = @ \o p]
      /\ Goes(c, IF Suspends(c, m) THEN "suspend" ELSE "send")
      /\ DOMAIN out' = Cpus /\ out'[c] \in OutOf(c) /\ \A d \in Cpus \ {c} : out'[d] = out[d]
      /\ p = <<>> \/ \E x \in M3Mail : p = <<x>>
  BY DispatchIs, Places, ZenonT(60)
<1>2. c \in Boxes /\ "AppM3" \in Boxes /\ "AppM3" \in Cpus /\ m \in Letters /\ p \in Seq(Letters)
  <2>1. c \in Boxes /\ "AppM3" \in Boxes /\ "AppM3" \in Cpus
    BY Places
  <2>2. M3Mail \subseteq Letters /\ m \in Letters
    BY <1>1, <2>1, MailForIs
  <2>3. <<>> \in Seq(Letters) /\ \A x \in M3Mail : <<x>> \in Seq(Letters)
    BY <2>2
  <2>. QED BY <1>1, <2>1, <2>2, <2>3
<1>. HIDE DEF m, p
<1>3. /\ heard' \in [Cpus -> Seq(Letters)] /\ sent' \in [Cpus -> Seq(Letters)]
  BY <1>1, <1>2, AppendProperties, ConcatProperties DEF DriverInv
<1>. DEFINE to == IF Suspends(c, m) THEN "suspend" ELSE "send"
<1>4. to \in IsrPcs(c) /\ to \notin Holding /\ to \in Sending
  BY Places DEF IsrPcs, Holding, Sending
<1>5. isrMsg' = [isrMsg EXCEPT ![c] = m] /\ IsrInv
  BY <1>1 DEF DriverInv, IsrInv, m
<1>. HIDE DEF to
<1>6. IsrInv'
  BY <1>1, <1>2, <1>4, <1>5, IsrSet DEF Goes, to
<1>7. BoxesInv'
  BY <1>1 DEF BoxesInv, DriverInv
<1>. QED BY <1>1, <1>3, <1>6, <1>7 DEF DriverInv

LEMMA BoxAppend ==
  ASSUME BoxesInv, NEW b \in Boxes, NEW x \in MailFor(b), Len(mbox[b]) < Depth,
         mbox' = [mbox EXCEPT ![b] = Append(@, x)]
  PROVE  BoxesInv'
<1>1. /\ mbox[b] \in Seq(MailFor(b)) /\ Depth \in Nat /\ Len(mbox[b]) \in Nat
      /\ mbox' = [mbox EXCEPT ![b] = Append(mbox[b], x)]
  BY Places, LenProperties DEF BoxesInv
<1>2. Append(mbox[b], x) \in Seq(MailFor(b)) /\ Len(Append(mbox[b], x)) = Len(mbox[b]) + 1
  BY <1>1, AppendProperties
<1>3. Len(Append(mbox[b], x)) <= Depth
  BY <1>1, <1>2
<1>. QED BY <1>1, <1>2, <1>3, BoxSet

LEMMA SendTypes ==
  ASSUME DriverInv, NEW c \in Cpus, IntSend(c)
  PROVE  DriverInv'
<1>1. /\ UNCHANGED <<coreInt, edge, isrMsg, hostPc, sentVars>>
      /\ isrPc[c] \in {"send", "suspend"} /\ c \in Leads
      /\ DOMAIN out' = Cpus /\ out'[c] \in OutOf(c) /\ \A d \in Cpus \ {c} : out'[d] = out[d]
      /\ BoxesInv /\ IsrInv
  BY SendIs DEF DriverInv
<1>2. isrMsg' = [isrMsg EXCEPT ![c] = isrMsg[c]] /\ isrMsg[c] \in Letters \cup {"none"}
  BY <1>1 DEF IsrInv
<1>3. CASE /\ c = "SysM3" /\ Goes(c, IF isrPc[c] = "send" THEN "bit" ELSE "bitSuspend")
           /\ \E x \in M3Mail :
                /\ Len(mbox["AppM3"]) < Depth
                /\ mbox' = [mbox EXCEPT !["AppM3"] = Append(@, x)]
  <2>. DEFINE to == IF isrPc[c] = "send" THEN "bit" ELSE "bitSuspend"
  <2>1. to \in IsrPcs(c) /\ to \notin Holding /\ to \in Sending
    BY <1>3 DEF IsrPcs, Holding, Sending
  <2>2. isrPc' = [isrPc EXCEPT ![c] = to]
    BY <1>3 DEF Goes
  <2>. HIDE DEF to
  <2>3. IsrInv'
    BY <1>1, <1>2, <2>1, <2>2, IsrSet
  <2>4. BoxesInv'
    BY <1>1, <1>3, BoxAppend, Places, MailForIs
  <2>. QED BY <1>1, <2>3, <2>4 DEF DriverInv, sentVars
<1>4. CASE /\ UNCHANGED isrPc
           /\ \E y \in HostGets :
                \/ UNCHANGED mbox
                \/ /\ Len(mbox[HostBox(c)]) < Depth
                   /\ mbox' = [mbox EXCEPT ![HostBox(c)] = Append(@, y)]
  <2>1. /\ isrPc[c] \in IsrPcs(c) /\ isrPc[c] \notin Holding /\ isrPc[c] \in Sending
        /\ isrPc' = [isrPc EXCEPT ![c] = isrPc[c]]
    BY <1>1, <1>4 DEF IsrInv, Holding, Sending
  <2>2. IsrInv'
    BY <1>1, <1>2, <2>1, IsrSet
  <2>3. HostBox(c) \in Boxes /\ MailFor(HostBox(c)) = HostGets
    BY <1>1, Places, MailForIs
  <2>4. BoxesInv'
    <3>1. CASE UNCHANGED mbox
      BY <1>1, <3>1 DEF BoxesInv
    <3>2. CASE ~UNCHANGED mbox
      BY <1>1, <1>4, <2>3, <3>2, BoxAppend
    <3>. QED BY <3>1, <3>2
  <2>. QED BY <1>1, <2>2, <2>4 DEF DriverInv, sentVars
<1>. QED BY <1>3, <1>4, SendIs

LEMMA TriggerIs ==
  ASSUME DriverInv, NEW c \in Cpus, IntTrigger(c)
  PROVE  /\ UNCHANGED <<mbox, edge, isrMsg, out, hostPc, sentVars, powerVars>> /\ coreInt' = TRUE
         /\ isrPc[c] \in {"bit", "bitSuspend"}
         /\ Goes(c, IF isrPc[c] = "bit" THEN "send" ELSE "suspend")
BY DEF IntTrigger, IsrGoto, Goes

LEMMA ReturnIs ==
  ASSUME DriverInv, NEW c \in Cpus, IsrReturn(c)
  PROVE  /\ UNCHANGED <<mbox, coreInt, edge, out, hostPc, sentVars, suspPc, event, curInit>>
         /\ isrPc[c] \in {"send", "suspend"} /\ Goes(c, "idle") /\ out[c] = <<>>
         /\ isrMsg' = [isrMsg EXCEPT ![c] = "none"]
         /\ semSuspend' = IF isrPc[c] = "suspend" THEN [semSuspend EXCEPT ![c] = @ + 1] ELSE semSuspend
BY DEF IsrReturn, IsrGoto, Goes, PostSuspend, walkVars

LEMMA OtherTypes ==
  ASSUME DriverInv, NEW c \in Cpus, IntTrigger(c) \/ IsrReturn(c)
  PROVE  DriverInv'
<1>. DEFINE to == IF IntTrigger(c) THEN IF isrPc[c] = "bit" THEN "send" ELSE "suspend" ELSE "idle"
            m == IF IntTrigger(c) THEN isrMsg[c] ELSE "none"
<1>1. /\ UNCHANGED <<mbox, edge, out, hostPc, sentVars>> /\ coreInt' \in BOOLEAN
      /\ BoxesInv /\ IsrInv
  BY TriggerIs, ReturnIs DEF DriverInv
<1>2. isrPc' = [isrPc EXCEPT ![c] = to] /\ isrMsg' = [isrMsg EXCEPT ![c] = m]
      /\ m \in Letters \cup {"none"}
  BY <1>1, TriggerIs, ReturnIs DEF Goes, IsrInv
<1>3. /\ to \in IsrPcs(c) /\ to \notin Holding /\ (out[c] # <<>> => to \in Sending)
  <2>1. CASE IntTrigger(c)
    <3>1. isrPc[c] \in {"bit", "bitSuspend"} /\ to \in {"send", "suspend"}
      BY <2>1, TriggerIs
    <3>2. to \in IsrPcs(c)
      BY <3>1, Places DEF IsrPcs
    <3>. QED BY <3>1, <3>2 DEF Holding, Sending
  <2>2. CASE ~IntTrigger(c)
    <3>1. to = "idle" /\ out[c] = <<>>
      BY <2>2, ReturnIs
    <3>2. to \in IsrPcs(c)
      BY <3>1, Places DEF IsrPcs
    <3>. QED BY <3>1, <3>2 DEF Holding, Sending
  <2>. QED BY <2>1, <2>2
<1>4. DOMAIN out' = Cpus /\ out'[c] \in OutOf(c) /\ \A d \in Cpus \ {c} : out'[d] = out[d]
  BY <1>1 DEF IsrInv
<1>. HIDE DEF to, m
<1>5. IsrInv'
  BY <1>1, <1>2, <1>3, <1>4, IsrSet
<1>6. BoxesInv'
  BY <1>1 DEF BoxesInv
<1>. QED BY <1>1, <1>5, <1>6 DEF DriverInv, sentVars

LEMMA HostTypes ==
  ASSUME DriverInv, NEW c \in Leads, (\E m \in Mail[c] : HostSend(c, m)) \/ HostReceive(c) \/ HostWake(c)
  PROVE  DriverInv'
<1>1. BoxesInv /\ IsrInv /\ c \in Cpus /\ c \in Boxes /\ HostBox(c) \in Boxes /\ MailFor(c) = HostMail
      /\ hostPc \in [Leads -> {"awake", "asked", "asleep", "away"}]
  BY Places, MailForIs DEF DriverInv
<1>2. ASSUME UNCHANGED isrVars PROVE IsrInv'
  BY <1>1, <1>2 DEF isrVars, IsrInv
<1>3. ASSUME NEW m \in Mail[c], HostSend(c, m) PROVE DriverInv'
  <2>1. /\ Len(mbox[c]) < Depth /\ mbox' = [mbox EXCEPT ![c] = Append(@, m)]
        /\ edge' = (edge \/ (c = "DSP" /\ mbox[c] = <<>>))
        /\ hostPc' = [hostPc EXCEPT ![c] = IF m \in {"hib", "hibForce"} THEN "asked" ELSE @]
        /\ sent' = [sent EXCEPT ![c] = Append(@, m)]
        /\ UNCHANGED <<coreInt, isrVars, heard>>
    BY <1>3 DEF HostSend
  <2>2. m \in HostMail /\ m \in Letters
    BY Places, InterruptsAssumption DEF InterruptsAssumption, HostMail, Letters
  <2>3. BoxesInv'
    BY <1>1, <2>1, <2>2, BoxAppend
  <2>4. edge' \in BOOLEAN
    BY <2>1
  <2>5. hostPc' \in [Leads -> {"awake", "asked", "asleep", "away"}]
    BY <1>1, <2>1
  <2>6. sent' \in [Cpus -> Seq(Letters)]
    BY <1>1, <2>1, <2>2, AppendProperties DEF DriverInv
  <2>. QED BY <1>2, <2>1, <2>3, <2>4, <2>5, <2>6 DEF DriverInv
<1>4. CASE HostReceive(c)
  <2>. DEFINE b == HostBox(c)
              to == CASE Head(mbox[b]) = "ack" -> "asleep"
                      [] Head(mbox[b]) = "cancel" -> "awake" [] OTHER -> hostPc[c]
  <2>1. /\ mbox[b] # <<>> /\ mbox' = [mbox EXCEPT ![b] = Tail(@)]
        /\ hostPc' = [hostPc EXCEPT ![c] = to]
        /\ UNCHANGED <<coreInt, edge, isrVars, sentVars>>
    BY <1>4 DEF HostReceive, Pop
  <2>2. to \in {"awake", "asked", "asleep", "away"}
    BY <1>1
  <2>. HIDE DEF to
  <2>3. hostPc' \in [Leads -> {"awake", "asked", "asleep", "away"}]
    BY <1>1, <2>1, <2>2
  <2>4. Tail(mbox[b]) \in Seq(MailFor(b)) /\ Len(Tail(mbox[b])) <= Depth
    <3>1. mbox[b] \in Seq(MailFor(b)) /\ Len(mbox[b]) <= Depth /\ Depth \in Nat
      BY <1>1, Places DEF BoxesInv
    <3>2. Tail(mbox[b]) \in Seq(MailFor(b)) /\ Len(Tail(mbox[b])) = Len(mbox[b]) - 1 /\ Len(mbox[b]) \in Nat
      BY <2>1, <3>1, AtTail, LenProperties
    <3>. QED BY <3>1, <3>2
  <2>5. BoxesInv'
    BY <1>1, <2>1, <2>4, BoxSet
  <2>. QED BY <1>2, <2>1, <2>3, <2>5 DEF DriverInv, sentVars
<1>5. CASE HostWake(c)
  <2>1. hostPc' = [hostPc EXCEPT ![c] = "awake"] /\ UNCHANGED <<mbox, coreInt, edge, isrVars, sentVars>>
    BY <1>5 DEF HostWake
  <2>2. hostPc' \in [Leads -> {"awake", "asked", "asleep", "away"}] /\ BoxesInv'
    BY <1>1, <2>1 DEF BoxesInv
  <2>. QED BY <1>2, <2>1, <2>2 DEF DriverInv, sentVars
<1>. QED BY <1>3, <1>4, <1>5

-----------------------------------------------------------------------------
\* The order of the mail.
LEMMA MailTypes ==
  ASSUME DriverInv, NEW c \in Cpus
  PROVE  /\ heard[c] \in Seq(Letters) /\ sent[c] \in Seq(Letters) /\ mbox[c] \in Seq(Letters)
         /\ Taken(c) \in Seq(Letters) /\ Behind(c) \in Seq(Letters)
         /\ Behind(c) = <<>> \/ \E x \in M3Mail : Behind(c) = <<x>>
<1>1. heard[c] \in Seq(Letters) /\ sent[c] \in Seq(Letters) /\ mbox[c] \in Seq(Letters) /\ c \in Boxes
  BY Places DEF DriverInv, BoxesInv
<1>2. <<>> \in Seq(Letters) /\ \A x \in Letters : <<x>> \in Seq(Letters)
  OBVIOUS
<1>3. Taken(c) \in Seq(Letters)
  <2>1. isrPc[c] \in Holding => isrMsg[c] \in Letters
    BY <1>1, MailForIs DEF DriverInv, IsrInv
  <2>. QED BY <1>2, <2>1 DEF Taken
<1>4. Behind(c) = <<>> \/ \E x \in M3Mail : Behind(c) = <<x>>
  <2>1. "SysM3" \in Cpus /\ out["SysM3"] \in OutOf("SysM3")
    BY Places DEF DriverInv, IsrInv
  <2>2. ASSUME NEW h, out["SysM3"] = <<h>> PROVE Head(out["SysM3"]) = h
    BY <2>2
  <2>3. ASSUME NEW h, NEW k, out["SysM3"] = <<h, k>> PROVE Head(out["SysM3"]) = h
    BY <2>3
  <2>4. \/ out["SysM3"] = <<>>
        \/ Head(out["SysM3"]) \in HostLetters("SysM3")
        \/ Head(out["SysM3"]) \in AppLetters
    BY <2>1, <2>2, <2>3 DEF OutOf
  <2>5. ToAppM3 = <<>> \/ \E x \in M3Mail : ToAppM3 = <<x>>
    BY <2>4, Places DEF ToAppM3, HostLetters, AppLetters
  <2>. QED BY <2>5 DEF Behind
<1>5. Behind(c) \in Seq(Letters)
  <2>1. M3Mail \subseteq Letters
    BY Places, MailForIs
  <2>. QED BY <1>2, <1>4, <2>1
<1>. QED BY <1>1, <1>3, <1>4, <1>5

LEMMA SameOrder ==
  ASSUME NEW d \in Cpus, InOrder(d), heard'[d] = heard[d], sent'[d] = sent[d], Taken(d)' = Taken(d),
         mbox'[d] = mbox[d], Behind(d)' = Behind(d)
  PROVE  InOrder(d)'
BY DEF InOrder

LEMMA ClearOrder ==
  ASSUME DriverInv, OrderInv, NEW c \in Cpus, Clear(c)
  PROVE  OrderInv'
<1>1. UNCHANGED <<out, sentVars>>
  BY ClearIs
<1>2. \A d \in Cpus : Behind(d)' = Behind(d) /\ heard'[d] = heard[d] /\ sent'[d] = sent[d]
  BY <1>1 DEF Behind, ToAppM3, sentVars
<1>3. mbox \in [Boxes -> Seq(Letters)] /\ c \in Boxes /\ isrMsg \in [Cpus -> Letters \cup {"none"}]
      /\ isrPc \in [Cpus -> {"idle", "fifo"} \cup Holding \cup Sending] /\ Cpus \subseteq Boxes
  BY Places DEF DriverInv, BoxesInv, IsrInv
<1>4. CASE /\ mbox[c] # <<>> /\ isrPc[c] \in {"idle", "fifo"}
           /\ mbox' = [mbox EXCEPT ![c] = Tail(@)]
           /\ isrMsg' = [isrMsg EXCEPT ![c] = Head(mbox[c])]
           /\ \E to \in Holding : to \in IsrPcs(c) /\ Goes(c, to)
  <2>1. PICK to \in Holding : Goes(c, to)
    BY <1>4
  <2>2. Taken(c) = <<>> /\ Taken(c)' = <<Head(mbox[c])>> /\ mbox'[c] = Tail(mbox[c])
    <3>1. isrPc[c] \notin Holding
      BY <1>4 DEF Holding
    <3>. QED BY <1>3, <1>4, <2>1, <3>1 DEF Taken, Goes
  <2>3. \A d \in Cpus \ {c} : Taken(d)' = Taken(d) /\ mbox'[d] = mbox[d]
    BY <1>3, <1>4, <2>1 DEF Taken, Goes
  <2>4. InOrder(c)'
    <3>. DEFINE h == heard[c]
               s == mbox[c]
               e == Behind(c)
    <3>1. h \in Seq(Letters) /\ s \in Seq(Letters) /\ e \in Seq(Letters) /\ s # <<>>
      BY <1>4, MailTypes
    <3>2. sent[c] = Line(h, <<>>, s, e)
      BY <2>2 DEF OrderInv, InOrder
    <3>3. InOrder(c)' <=> sent[c] = Line(h, <<Head(s)>>, Tail(s), e)
      BY <1>2, <2>2 DEF InOrder
    <3>. HIDE DEF h, s, e
    <3>4. Line(h, <<>>, s, e) = Line(h, <<Head(s)>>, Tail(s), e)
      BY <3>1, MovedToHand
    <3>. QED BY <3>2, <3>3, <3>4
  <2>. QED BY <1>2, <2>3, <2>4, SameOrder DEF OrderInv
<1>5. CASE /\ UNCHANGED <<mbox, isrMsg>>
           /\ \/ UNCHANGED isrPc
              \/ c = "AppM3" /\ isrPc[c] = "idle" /\ Goes(c, "fifo")
              \/ c = "AppM3" /\ isrPc[c] = "fifo" /\ Goes(c, "idle")
              \/ c = "AppM3" /\ isrPc[c] = "status" /\ Goes(c, "msg")
  <2>1. \A d \in Cpus : isrPc'[d] \in Holding <=> isrPc[d] \in Holding
    BY <1>3, <1>5 DEF Goes, Holding
  <2>2. \A d \in Cpus : Taken(d)' = Taken(d) /\ mbox'[d] = mbox[d]
    BY <1>5, <2>1 DEF Taken
  <2>. QED BY <1>2, <2>2, SameOrder DEF OrderInv
<1>. QED BY <1>4, <1>5, ClearIs

LEMMA DispatchOrder ==
  ASSUME DriverInv, OrderInv, NEW c \in Cpus, Dispatch(c)
  PROVE  OrderInv'
<1>. DEFINE m == isrMsg[c]
            p == PassedOn(c, m)
            to == IF Suspends(c, m) THEN "suspend" ELSE "send"
<1>1. /\ UNCHANGED <<mbox, isrMsg>> /\ isrPc[c] = "msg" /\ m \in MailFor(c) /\ out[c] = <<>>
      /\ heard' = [heard EXCEPT ![c] = Append(@, m)]
      /\ sent' = [sent EXCEPT !["AppM3"] = @ \o p]
      /\ Goes(c, to)
      /\ \A d \in Cpus \ {c} : out'[d] = out[d]
      /\ c # "SysM3" => p = <<>>
      /\ c = "SysM3" => p = ToAppM3' /\ p \in {<<>>} \cup {<<x>> : x \in M3Mail}
  BY DispatchIs
<1>2. /\ isrPc \in [Cpus -> {"idle", "fifo"} \cup Holding \cup Sending]
      /\ heard \in [Cpus -> Seq(Letters)] /\ sent \in [Cpus -> Seq(Letters)]
      /\ m \in Letters /\ "AppM3" \in Cpus /\ "SysM3" \in Cpus
  BY <1>1, Places, MailForIs DEF DriverInv, IsrInv
<1>3. Taken(c) = <<m>> /\ Taken(c)' = <<>> /\ \A d \in Cpus \ {c} : Taken(d)' = Taken(d)
  <2>1. "msg" \in Holding /\ to \notin Holding
    BY DEF Holding
  <2>. HIDE DEF to
  <2>. QED BY <1>1, <1>2, <2>1 DEF Taken, Goes
<1>. HIDE DEF m, p, to
<1>4. \A d \in Cpus \ {"AppM3"} : sent'[d] = sent[d] /\ Behind(d)' = <<>> /\ Behind(d) = <<>>
  BY <1>1, <1>2 DEF Behind
<1>5. \A d \in Cpus \ {c} : heard'[d] = heard[d] /\ mbox'[d] = mbox[d]
  BY <1>1, <1>2
<1>6. heard'[c] = Append(heard[c], m) /\ mbox'[c] = mbox[c]
  BY <1>1, <1>2
<1>7. \A d \in Cpus : /\ heard[d] \in Seq(Letters) /\ sent[d] \in Seq(Letters) /\ mbox[d] \in Seq(Letters)
                      /\ Taken(d) \in Seq(Letters) /\ Behind(d) \in Seq(Letters)
  BY MailTypes
<1>8. c # "SysM3" => sent'["AppM3"] = sent["AppM3"] /\ Behind("AppM3")' = Behind("AppM3")
  <2>. SUFFICES ASSUME c # "SysM3" PROVE sent'["AppM3"] = sent["AppM3"] /\ Behind("AppM3")' = Behind("AppM3")
    OBVIOUS
  <2>1. sent'["AppM3"] = sent["AppM3"] \o <<>> /\ sent["AppM3"] \o <<>> = sent["AppM3"]
    BY <1>1, <1>2, ConcatEmptySeq
  <2>2. out'["SysM3"] = out["SysM3"]
    BY <1>1, <1>2
  <2>. QED BY <2>1, <2>2 DEF Behind, ToAppM3
<1>9. ASSUME sent'[c] = sent[c], Behind(c)' = Behind(c) PROVE InOrder(c)'
  <2>. DEFINE h == heard[c]
             s == mbox[c]
             e == Behind(c)
  <2>1. h \in Seq(Letters) /\ s \in Seq(Letters) /\ e \in Seq(Letters)
    BY <1>7
  <2>2. sent[c] = Line(h, <<m>>, s, e)
    BY <1>3 DEF OrderInv, InOrder
  <2>3. InOrder(c)' <=> sent[c] = Line(Append(h, m), <<>>, s, e)
    BY <1>3, <1>6, <1>9 DEF InOrder
  <2>. HIDE DEF h, s, e
  <2>4. Line(h, <<m>>, s, e) = Line(Append(h, m), <<>>, s, e)
    BY <1>2, <2>1, MovedToHeard
  <2>. QED BY <2>2, <2>3, <2>4
<1>10. CASE c # "SysM3"
  <2>1. \A d \in Cpus : sent'[d] = sent[d] /\ Behind(d)' = Behind(d)
    BY <1>4, <1>8, <1>10
  <2>. QED BY <1>3, <1>5, <1>9, <2>1, SameOrder DEF OrderInv
<1>11. CASE c = "SysM3"
  <2>1. InOrder(c)'
    BY <1>4, <1>9, <1>11
  <2>2. \A d \in Cpus \ {c, "AppM3"} : InOrder(d)'
    BY <1>3, <1>4, <1>5, SameOrder DEF OrderInv
  <2>3. InOrder("AppM3")'
    <3>. DEFINE a == "AppM3"
               h == heard[a]
               s == mbox[a]
               t == Taken(a)
    <3>1. h \in Seq(Letters) /\ s \in Seq(Letters) /\ t \in Seq(Letters)
      BY <1>2, <1>7
    <3>2. p \in Seq(Letters)
      <4>1. M3Mail \subseteq Letters
        BY Places, MailForIs
      <4>2. <<>> \in Seq(Letters) /\ \A x \in Letters : <<x>> \in Seq(Letters)
        OBVIOUS
      <4>. QED BY <1>1, <1>11, <4>1, <4>2
    <3>3. Behind(a) = <<>> /\ Behind(a)' = p
      BY <1>1, <1>11 DEF Behind, ToAppM3
    <3>4. sent[a] = Line(h, t, s, <<>>)
      BY <1>2, <3>3 DEF OrderInv, InOrder
    <3>5. sent'[a] = sent[a] \o p
      BY <1>1, <1>2
    <3>6. InOrder(a)' <=> sent'[a] = Line(h, t, s, p)
      BY <1>2, <1>3, <1>5, <1>11, <3>3 DEF InOrder
    <3>. HIDE DEF h, s, t
    <3>7. Line(h, t, s, <<>>) \o p = Line(h, t, s, p)
      BY <3>1, <3>2, PassedBehind, ZenonT(60)
    <3>. QED BY <3>4, <3>5, <3>6, <3>7
  <2>. QED BY <1>11, <2>1, <2>2, <2>3 DEF OrderInv
<1>. QED BY <1>10, <1>11

LEMMA SendOrder ==
  ASSUME DriverInv, OrderInv, NEW c \in Cpus, IntSend(c)
  PROVE  OrderInv'
<1>1. /\ UNCHANGED <<isrMsg, sentVars>> /\ isrPc[c] \in {"send", "suspend"} /\ c \in Leads
      /\ isrPc \in [Cpus -> {"idle", "fifo"} \cup Holding \cup Sending]
      /\ mbox \in [Boxes -> Seq(Letters)] /\ Cpus \subseteq Boxes /\ "AppM3" \in Cpus
  BY SendIs, Places DEF DriverInv, BoxesInv, IsrInv
<1>2. CASE /\ c = "SysM3" /\ Goes(c, IF isrPc[c] = "send" THEN "bit" ELSE "bitSuspend")
           /\ \E x \in M3Mail :
                /\ ToAppM3 = <<x>> /\ ToAppM3' = <<>>
                /\ mbox' = [mbox EXCEPT !["AppM3"] = Append(@, x)]
  <2>1. PICK x \in M3Mail : /\ ToAppM3 = <<x>> /\ ToAppM3' = <<>>
                            /\ mbox' = [mbox EXCEPT !["AppM3"] = Append(@, x)]
    BY <1>2
  <2>2. \A d \in Cpus : Taken(d)' = Taken(d)
    <3>1. \A d \in Cpus : isrPc'[d] \in Holding <=> isrPc[d] \in Holding
      BY <1>1, <1>2 DEF Goes, Holding
    <3>. QED BY <1>1, <3>1 DEF Taken
  <2>3. \A d \in Cpus \ {"AppM3"} : InOrder(d)'
    <3>1. \A d \in Cpus \ {"AppM3"} : mbox'[d] = mbox[d] /\ Behind(d)' = Behind(d)
      BY <1>1, <2>1 DEF Behind
    <3>. QED BY <1>1, <2>2, <3>1, SameOrder DEF OrderInv, sentVars
  <2>4. InOrder("AppM3")'
    <3>. DEFINE a == "AppM3"
               h == heard[a]
               s == mbox[a]
               t == Taken(a)
    <3>1. h \in Seq(Letters) /\ s \in Seq(Letters) /\ t \in Seq(Letters) /\ x \in Letters
      BY <1>1, MailTypes, Places, MailForIs
    <3>2. sent[a] = Line(h, t, s, <<x>>)
      BY <1>1, <2>1 DEF OrderInv, InOrder, Behind
    <3>3. InOrder(a)' <=> sent[a] = Line(h, t, Append(s, x), <<>>)
      BY <1>1, <2>1, <2>2 DEF InOrder, Behind, sentVars
    <3>. HIDE DEF h, s, t
    <3>4. Line(h, t, s, <<x>>) = Line(h, t, Append(s, x), <<>>)
      BY <3>1, MovedToBox
    <3>. QED BY <3>2, <3>3, <3>4
  <2>. QED BY <2>3, <2>4 DEF OrderInv
<1>3. CASE /\ UNCHANGED isrPc /\ ToAppM3' = ToAppM3
           /\ \E y \in HostGets :
                \/ UNCHANGED mbox
                \/ mbox' = [mbox EXCEPT ![HostBox(c)] = Append(@, y)]
  <2>1. \A d \in Cpus : d # HostBox(c)
    BY Places
  <2>2. \A d \in Cpus : mbox'[d] = mbox[d] /\ Taken(d)' = Taken(d) /\ Behind(d)' = Behind(d)
    BY <1>1, <1>3, <2>1 DEF Taken, Behind
  <2>. QED BY <1>1, <2>2, SameOrder DEF OrderInv, sentVars
<1>. QED BY <1>2, <1>3, SendIs

LEMMA OtherOrder ==
  ASSUME DriverInv, OrderInv, NEW c \in Cpus, IntTrigger(c) \/ IsrReturn(c)
  PROVE  OrderInv'
<1>1. /\ UNCHANGED <<mbox, out, sentVars>> /\ \A d \in Cpus \ {c} : isrMsg'[d] = isrMsg[d]
      /\ isrPc \in [Cpus -> {"idle", "fifo"} \cup Holding \cup Sending]
      /\ isrMsg \in [Cpus -> Letters \cup {"none"}]
  <2>1. /\ isrPc \in [Cpus -> {"idle", "fifo"} \cup Holding \cup Sending]
        /\ isrMsg \in [Cpus -> Letters \cup {"none"}]
    BY DEF DriverInv, IsrInv
  <2>2. CASE IntTrigger(c)
    BY <2>1, <2>2, TriggerIs
  <2>3. CASE IsrReturn(c)
    BY <2>1, <2>3, ReturnIs
  <2>. QED BY <2>1, <2>2, <2>3
<1>2. isrPc[c] \notin Holding /\ isrPc'[c] \notin Holding /\ \A d \in Cpus \ {c} : isrPc'[d] = isrPc[d]
  BY <1>1, TriggerIs, ReturnIs DEF Goes, Holding
<1>3. \A d \in Cpus : /\ Taken(d)' = Taken(d) /\ mbox'[d] = mbox[d] /\ Behind(d)' = Behind(d)
                      /\ heard'[d] = heard[d] /\ sent'[d] = sent[d]
  BY <1>1, <1>2 DEF Taken, Behind, ToAppM3, sentVars
<1>. QED BY <1>3, SameOrder DEF OrderInv

LEMMA HostOrder ==
  ASSUME DriverInv, OrderInv, NEW c \in Leads,
         (\E m \in Mail[c] : HostSend(c, m)) \/ HostReceive(c) \/ HostWake(c)
  PROVE  OrderInv'
<1>1. UNCHANGED <<isrVars, heard>> /\ c \in Cpus /\ c # "AppM3" /\ Cpus \subseteq Boxes
      /\ mbox \in [Boxes -> Seq(Letters)] /\ sent \in [Cpus -> Seq(Letters)]
  BY Places DEF HostSend, HostReceive, HostWake, DriverInv, BoxesInv, sentVars
<1>2. \A d \in Cpus : Taken(d)' = Taken(d) /\ Behind(d)' = Behind(d) /\ heard'[d] = heard[d]
  BY <1>1 DEF Taken, Behind, ToAppM3, isrVars
<1>3. ASSUME NEW m \in Mail[c], HostSend(c, m) PROVE OrderInv'
  <2>1. mbox' = [mbox EXCEPT ![c] = Append(@, m)] /\ sent' = [sent EXCEPT ![c] = Append(@, m)]
    BY <1>3 DEF HostSend
  <2>2. \A d \in Cpus \ {c} : InOrder(d)'
    BY <1>1, <1>2, <2>1, SameOrder DEF OrderInv
  <2>3. InOrder(c)'
    <3>. DEFINE h == heard[c]
               s == mbox[c]
               t == Taken(c)
    <3>1. h \in Seq(Letters) /\ s \in Seq(Letters) /\ t \in Seq(Letters)
      BY <1>1, MailTypes
    <3>2. m \in Letters
      BY Places, InterruptsAssumption DEF InterruptsAssumption, HostMail, Letters
    <3>3. sent[c] = Line(h, t, s, <<>>)
      BY <1>1 DEF OrderInv, InOrder, Behind
    <3>4. InOrder(c)' <=> sent'[c] = Line(h, t, Append(s, m), <<>>)
      BY <1>1, <1>2, <2>1 DEF InOrder, Behind
    <3>5. sent'[c] = Append(sent[c], m)
      BY <1>1, <2>1
    <3>. HIDE DEF h, s, t
    <3>6. Append(Line(h, t, s, <<>>), m) = Line(h, t, Append(s, m), <<>>)
      BY <3>1, <3>2, SentToBox
    <3>. QED BY <3>3, <3>4, <3>5, <3>6
  <2>. QED BY <2>2, <2>3 DEF OrderInv
<1>4. CASE HostReceive(c) \/ HostWake(c)
  <2>1. \A d \in Cpus : d # HostBox(c)
    BY Places
  <2>2. \A d \in Cpus : mbox'[d] = mbox[d] /\ sent'[d] = sent[d]
    BY <1>1, <1>4, <2>1 DEF HostReceive, HostWake, Pop, sentVars
  <2>. QED BY <1>2, <2>2, SameOrder DEF OrderInv
<1>. QED BY <1>3, <1>4

-----------------------------------------------------------------------------
\* Who is asked, told and suspended.
SameGroup(c) ==
  /\ hostPc'[c] = hostPc[c] /\ mbox'[HostBox(c)] = mbox[HostBox(c)]
  /\ \A d \in GroupOf(c) : /\ mbox'[d] = mbox[d] /\ isrPc'[d] = isrPc[d] /\ isrMsg'[d] = isrMsg[d]
                           /\ out'[d] = out[d] /\ semSuspend'[d] = semSuspend[d]
                           /\ suspPc'[d] = suspPc[d] /\ event'[d] = event[d]

LEMMA GroupKept ==
  ASSUME NEW c \in Leads, GroupInv(c), SameGroup(c)
  PROVE  GroupInv(c)'
<1>1. c \in GroupOf(c) /\ (\A d \in GroupOf(c) : d = "AppM3" => c = "SysM3" /\ "SysM3" \in GroupOf(c))
  BY Places
<1>2. \A m : InOut(c, m)' = InOut(c, m) /\ InBox(c, m)' = InBox(c, m)
  BY <1>1 DEF SameGroup, InOut, InBox
<1>3. \A d \in GroupOf(c) : \A ms : Has(d, ms)' = Has(d, ms) /\ Single(d, ms)' = Single(d, ms)
  BY DEF SameGroup, Has, Single, InHand
<1>4. \A d \in GroupOf(c) : /\ Told(d)' = Told(d) /\ IsrWill(d)' = IsrWill(d)
                            /\ Posted(d)' = Posted(d) /\ Falls(d)' = Falls(d)
  <2>. TAKE d \in GroupOf(c)
  <2>1. Told(d)' = Told(d)
    BY <1>1, <1>2, <1>3 DEF Told
  <2>2. IsrWill(d)' = IsrWill(d) /\ Posted(d)' = Posted(d) /\ Falls(d)' = Falls(d)
    BY DEF SameGroup, IsrWill, Posted, Falls
  <2>. QED BY <2>1, <2>2
<1>5. OnceInv(c)'
  BY <1>1, <1>2, <1>3 DEF SameGroup, OnceInv, GroupInv
<1>6. HostInv(c)'
  <2>1. \A d \in GroupOf(c) : Calm(d)' = Calm(d)
    BY <1>4 DEF Calm
  <2>2. \A m : Replied(c, m)' = Replied(c, m)
    BY <1>2 DEF Replied
  <2>3. Has(c, Hibs)' = Has(c, Hibs) /\ hostPc'[c] = hostPc[c]
    BY <1>1, <1>3 DEF SameGroup
  <2>. QED BY <2>1, <2>2, <2>3 DEF HostInv, GroupInv
<1>7. ASSUME NEW d \in GroupOf(c) PROVE SuspendInv(d)'
  <2>1. d = "AppM3" => InOut("SysM3", "hib")' = InOut("SysM3", "hib")
    BY <1>1, <1>2
  <2>2. SuspendInv(d) /\ semSuspend'[d] = semSuspend[d] /\ suspPc'[d] = suspPc[d]
    BY DEF GroupInv, SameGroup
  <2>. QED BY <1>3, <1>4, <2>1, <2>2 DEF SuspendInv
<1>. QED BY <1>5, <1>6, <1>7 DEF GroupInv

LEMMA Groups ==
  /\ \A c \in Cpus : \E g \in Leads : c \in GroupOf(g)
  /\ \A g \in Leads : /\ g \in GroupOf(g) /\ GroupOf(g) \subseteq Cpus /\ g \in Cpus
                      /\ HostBox(g) \in Boxes \ Cpus /\ Cpus \subseteq Boxes
                      /\ \A d \in GroupOf(g) : HostBox(d) = HostBox(g)
                      /\ \A d \in GroupOf(g) \ {g} : d = "AppM3" /\ g = "SysM3"
                      /\ "AppM3" \in GroupOf(g) => g = "SysM3"
                      /\ g # "AppM3"
  /\ \A g, h \in Leads : g # h => HostBox(g) # HostBox(h) /\ GroupOf(g) \cap GroupOf(h) = {}
BY Places

\* Where only less is under way than before.
LEMMA Fewer ==
  ASSUME NEW g \in Leads, GroupInv(g),
         \A d \in GroupOf(g) : \A ms \in {Hibs, {"hib"}} :
           (Has(d, ms)' => Has(d, ms)) /\ (Single(d, ms) => Single(d, ms)'),
         \A m \in {"ack", "cancel", "hib"} : InOut(g, m)' => InOut(g, m),
         mbox'[HostBox(g)] = mbox[HostBox(g)], hostPc'[g] = hostPc[g],
         \A d \in GroupOf(g) : /\ IsrWill(d)' <=> IsrWill(d)
                               /\ semSuspend'[d] = semSuspend[d] /\ suspPc'[d] = suspPc[d]
                               /\ event'[d] = event[d]
  PROVE  GroupInv(g)'
<1>1. \A m : InBox(g, m)' = InBox(g, m)
  BY DEF InBox
<1>2. \A d \in GroupOf(g) : Posted(d)' = Posted(d) /\ Falls(d)' = Falls(d)
  BY DEF Posted, Falls
<1>3. \A d \in GroupOf(g) : Told(d)' => Told(d)
  BY Groups DEF Told
<1>4. \A d \in GroupOf(g) : Calm(d) => Calm(d)'
  BY <1>2, <1>3 DEF Calm
<1>5. \A m \in Replies : Replied(g, m)' => Replied(g, m)
  BY <1>1 DEF Replied, Replies
<1>6. OnceInv(g)'
  BY <1>1, Groups DEF OnceInv, GroupInv, Replies
<1>7. HostInv(g)'
  <2>1. Has(g, Hibs)' => Has(g, Hibs)
    BY Groups
  <2>2. HostInv(g)
    BY DEF GroupInv
  <2>. QED BY <1>4, <1>5, <2>1, <2>2 DEF HostInv, Replies
<1>8. ASSUME NEW d \in GroupOf(g) PROVE SuspendInv(d)'
  <2>1. SuspendInv(d)
    BY DEF GroupInv
  <2>2. d = "AppM3" => (InOut("SysM3", "hib")' => InOut("SysM3", "hib"))
    BY Groups
  <2>. QED BY <1>2, <1>3, <2>1, <2>2 DEF SuspendInv
<1>. QED BY <1>6, <1>7, <1>8 DEF GroupInv

Outside(g) == \A h \in Leads \ {g} : SameGroup(h)

LEMMA ClearGroup ==
  ASSUME DriverInv, TasksInv, NEW g \in Leads, GroupInv(g), NEW c \in GroupOf(g), Clear(c)
  PROVE  TasksInv' /\ Outside(g) /\ GroupInv(g)'
<1>1. /\ UNCHANGED <<out, hostPc, powerVars>> /\ c \in Cpus
      /\ mbox \in [Boxes -> Seq(Letters)] /\ isrMsg \in [Cpus -> Letters \cup {"none"}]
      /\ isrPc \in [Cpus -> {"idle", "fifo"} \cup Holding \cup Sending]
  BY ClearIs, Groups DEF DriverInv, BoxesInv, IsrInv
<1>2. /\ \A b \in Boxes \ {c} : mbox'[b] = mbox[b]
      /\ \A d \in Cpus \ {c} : isrPc'[d] = isrPc[d] /\ isrMsg'[d] = isrMsg[d]
      /\ isrPc[c] \notin Sending /\ isrPc'[c] \notin Sending
  <2>1. CASE /\ mbox' = [mbox EXCEPT ![c] = Tail(@)] /\ isrPc[c] \in {"idle", "fifo"}
             /\ isrMsg' = [isrMsg EXCEPT ![c] = Head(mbox[c])]
             /\ \E to \in Holding : Goes(c, to)
    BY <1>1, <2>1 DEF Goes, Holding, Sending
  <2>2. CASE /\ UNCHANGED <<mbox, isrMsg>>
             /\ \/ UNCHANGED isrPc
                \/ c = "AppM3" /\ isrPc[c] = "idle" /\ Goes(c, "fifo")
                \/ c = "AppM3" /\ isrPc[c] = "fifo" /\ Goes(c, "idle")
                \/ c = "AppM3" /\ isrPc[c] = "status" /\ Goes(c, "msg")
    <3>1. isrPc[c] \notin Sending
      <4>1. CASE c = "SysM3"
        BY <4>1 DEF Clear, ClearSysM3, Sending
      <4>2. CASE c = "DSP"
        BY <4>2 DEF Clear, ClearDsp, TakeDsp, Sending
      <4>3. CASE c = "AppM3"
        BY <4>3 DEF Clear, ClearBit, ClearFifo, ClearStatus, Sending
      <4>. QED BY <1>1, <4>1, <4>2, <4>3, Places
    <3>. QED BY <1>1, <2>2, <3>1 DEF Goes, Sending
  <2>. QED BY <1>1, <2>1, <2>2, ClearIs
<1>3. TasksInv' /\ Outside(g)
  <2>1. TasksInv'
    BY <1>1 DEF TasksInv, powerVars, walkVars
  <2>2. Outside(g)
    BY <1>1, <1>2, Groups DEF Outside, SameGroup, powerVars, walkVars
  <2>. QED BY <2>1, <2>2
<1>4. ASSUME NEW d \in GroupOf(g), NEW ms
      PROVE  (Has(d, ms)' => Has(d, ms)) /\ (Single(d, ms) => Single(d, ms)')
  <2>1. CASE d # c
    BY <1>2, <2>1, Groups DEF Has, Single, InHand
  <2>2. CASE /\ mbox[c] # <<>> /\ isrPc[c] \in {"idle", "fifo"} /\ d = c
             /\ mbox' = [mbox EXCEPT ![c] = Tail(@)]
             /\ isrMsg' = [isrMsg EXCEPT ![c] = Head(mbox[c])]
             /\ \E to \in Holding : Goes(c, to)
    <3>. DEFINE s == mbox[c]
    <3>1. s \in Seq(Letters) /\ s # <<>> /\ mbox'[c] = Tail(s)
      BY <1>1, <2>2, Groups
    <3>2. ~InHand(c, ms) /\ (InHand(c, ms)' <=> Head(s) \in ms)
      BY <1>1, <2>2 DEF InHand, Goes, Holding
    <3>. HIDE DEF s
    <3>3. /\ At(Tail(s), ms) # {} => At(s, ms) # {}
          /\ Head(s) \in ms => At(s, ms) # {}
          /\ Once(s, ms) => Once(Tail(s), ms)
          /\ Once(s, ms) /\ Head(s) \in ms => At(Tail(s), ms) = {}
      BY <3>1, AtTail
    <3>. QED BY <2>2, <3>1, <3>2, <3>3 DEF Has, Single, s
  <2>3. CASE /\ UNCHANGED <<mbox, isrMsg>> /\ d = c
             /\ \/ UNCHANGED isrPc
                \/ c = "AppM3" /\ isrPc[c] = "idle" /\ Goes(c, "fifo")
                \/ c = "AppM3" /\ isrPc[c] = "fifo" /\ Goes(c, "idle")
                \/ c = "AppM3" /\ isrPc[c] = "status" /\ Goes(c, "msg")
    <3>1. isrPc'[c] \in Holding <=> isrPc[c] \in Holding
      BY <1>1, <2>3 DEF Goes, Holding
    <3>. QED BY <2>3, <3>1 DEF Has, Single, InHand
  <2>. QED BY <1>1, <2>1, <2>2, <2>3, ClearIs
<1>5. /\ \A m : InOut(g, m)' = InOut(g, m)
      /\ mbox'[HostBox(g)] = mbox[HostBox(g)] /\ hostPc'[g] = hostPc[g]
      /\ \A d \in GroupOf(g) : /\ semSuspend'[d] = semSuspend[d] /\ suspPc'[d] = suspPc[d]
                               /\ event'[d] = event[d]
  BY <1>1, <1>2, Groups DEF InOut, powerVars, walkVars
<1>6. \A d \in GroupOf(g) : IsrWill(d)' <=> IsrWill(d)
  BY <1>2, Groups DEF IsrWill, Sending
<1>. QED BY <1>3, <1>4, <1>5, <1>6, Fewer

LEMMA DispatchGroup ==
  ASSUME DriverInv, TasksInv, NEW g \in Leads, GroupInv(g), NEW c \in GroupOf(g), Dispatch(c)
  PROVE  TasksInv' /\ Outside(g) /\ GroupInv(g)'
<1>. DEFINE m == isrMsg[c]
            sus == Suspends(c, m)
            to == IF sus THEN "suspend" ELSE "send"
<1>1. /\ UNCHANGED <<mbox, isrMsg, hostPc, powerVars>> /\ c \in Cpus
      /\ isrPc[c] = "msg" /\ m \in MailFor(c) /\ out[c] = <<>>
      /\ Goes(c, to) /\ \A d \in Cpus \ {c} : out'[d] = out[d]
      /\ sus => m \in Hibs
      /\ c = "AppM3" => (sus => m = "hib")
      /\ c # "AppM3" =>
           /\ InOut(c, "ack")' <=> sus
           /\ InOut(c, "cancel")' <=> m \in Hibs /\ ~sus
           /\ InOut(c, "hib")' => sus
      /\ isrPc \in [Cpus -> {"idle", "fifo"} \cup Holding \cup Sending]
  BY DispatchIs, Groups DEF DriverInv, IsrInv, InOut
<1>2. /\ \A d \in Cpus \ {c} : isrPc'[d] = isrPc[d]
      /\ isrPc'[c] = to
      /\ \A x : ~InOut(c, x)
  BY <1>1, SaysIs DEF Goes, InOut
<1>3. TasksInv' /\ Outside(g)
  <2>1. TasksInv'
    BY <1>1 DEF TasksInv, powerVars, walkVars
  <2>2. Outside(g)
    BY <1>1, <1>2, Groups DEF Outside, SameGroup, powerVars, walkVars
  <2>. QED BY <2>1, <2>2
<1>4. \A d \in GroupOf(g) \ {c} : \A ms : /\ Has(d, ms)' = Has(d, ms) /\ Single(d, ms)' = Single(d, ms)
                                         /\ IsrWill(d)' = IsrWill(d)
  BY <1>1, <1>2, Groups DEF Has, Single, InHand, IsrWill
<1>5. \A ms : /\ InHand(c, ms) <=> m \in ms
              /\ ~InHand(c, ms)'
              /\ Has(c, ms)' => Has(c, ms)
              /\ Single(c, ms) => Single(c, ms)'
              /\ m \in ms /\ Single(c, ms) => ~Has(c, ms)'
  <2>1. to \in {"send", "suspend"} /\ isrPc'[c] = to /\ isrPc[c] = "msg"
    BY <1>1, <1>2
  <2>2. isrPc'[c] \notin Holding /\ isrPc[c] \in Holding /\ mbox'[c] = mbox[c]
    <3>. HIDE DEF to
    <3>. QED BY <1>1, <2>1 DEF Holding
  <2>. HIDE DEF to, sus
  <2>. TAKE ms
  <2>3. (InHand(c, ms) <=> m \in ms) /\ ~InHand(c, ms)'
    BY <2>2 DEF InHand
  <2>4. At(mbox[c], ms)' = At(mbox[c], ms) /\ Once(mbox[c], ms)' = Once(mbox[c], ms)
    BY <2>2 DEF At, Once
  <2>. HIDE DEF m
  <2>. QED BY <2>3, <2>4 DEF Has, Single
<1>6. ~IsrWill(c) /\ (IsrWill(c)' <=> sus)
  <2>1. /\ isrPc'[c] = to /\ isrPc[c] = "msg"
        /\ sus => to = "suspend"
        /\ ~sus => to = "send"
    BY <1>1, <1>2
  <2>. HIDE DEF to, sus, m
  <2>. QED BY <2>1 DEF IsrWill
<1>7. /\ \A x : InBox(g, x)' = InBox(g, x)
      /\ mbox'[HostBox(g)] = mbox[HostBox(g)] /\ hostPc'[g] = hostPc[g]
      /\ \A d \in GroupOf(g) : /\ semSuspend'[d] = semSuspend[d] /\ suspPc'[d] = suspPc[d]
                               /\ event'[d] = event[d]
  BY <1>1 DEF InBox, powerVars, walkVars
<1>8. \A d \in GroupOf(g) : Posted(d)' = Posted(d) /\ Falls(d)' = Falls(d)
  BY <1>7 DEF Posted, Falls
<1>9. c # g => \A x : InOut(g, x)' = InOut(g, x)
  BY <1>1, Groups DEF InOut
<1>10. GroupInv(g) /\ OnceInv(g) /\ HostInv(g) /\ \A d \in GroupOf(g) : SuspendInv(d)
  BY DEF GroupInv
<1>. HIDE DEF m, sus, to
<1>11. CASE ~sus /\ (c = "AppM3" \/ m \notin Hibs)
  <2>1. \A x \in {"ack", "cancel", "hib"} : InOut(g, x)' => InOut(g, x)
    BY <1>1, <1>9, <1>11, Groups
  <2>. QED BY <1>3, <1>4, <1>5, <1>6, <1>7, <1>10, <1>11, <2>1, Fewer
<1>12. CASE c # "AppM3" /\ m \in Hibs
  <2>1. c = g /\ Has(g, Hibs) /\ ~Has(g, Hibs)'
    BY <1>5, <1>10, <1>12, Groups DEF Has, OnceInv
  <2>2. hostPc[g] = "asked" /\ (\A x \in Replies : ~Replied(g, x)) /\ \A d \in GroupOf(g) : Calm(d)
    BY <1>10, <2>1 DEF HostInv
  <2>3. \A x \in Replies : ~InBox(g, x)'
    BY <1>7, <2>2 DEF Replied
  <2>4. OnceInv(g)'
    BY <1>5, <1>7, <1>10, <2>1, <2>3 DEF OnceInv
  <2>5. \A d \in GroupOf(g) : ~Posted(d)' /\ ~Falls(d)' /\ (d # c => ~IsrWill(d)')
    BY <1>4, <1>8, <2>2 DEF Calm
  <2>6. \A d \in GroupOf(g) : d = "AppM3" => ~Has(d, {"hib"})' /\ Single(d, {"hib"})'
    BY <1>4, <1>10, <1>12, <2>2 DEF Calm, Told, SuspendInv
  <2>7. \A d \in GroupOf(g) : Told(d)' => d # c /\ sus
    BY <1>1, <1>12, <2>1, <2>6, Groups DEF Told
  <2>8. ASSUME NEW d \in GroupOf(g) PROVE SuspendInv(d)'
    BY <1>7, <1>10, <2>5, <2>6, <2>7 DEF SuspendInv
  <2>9. HostInv(g)'
    <3>1. Replied(g, "cancel")' => ~sus /\ ~Replied(g, "ack")'
      BY <1>1, <1>12, <2>1, <2>3 DEF Replied, Replies
    <3>2. ~sus => \A d \in GroupOf(g) : Calm(d)'
      BY <1>6, <2>1, <2>5, <2>7 DEF Calm
    <3>3. hostPc'[g] = "asked" /\ ~Has(g, Hibs)'
      BY <1>7, <2>1, <2>2
    <3>. QED BY <3>1, <3>2, <3>3 DEF HostInv
  <2>. QED BY <1>3, <2>4, <2>8, <2>9 DEF GroupInv
<1>13. CASE c = "AppM3" /\ sus
  <2>1. g = "SysM3" /\ c # g /\ m = "hib" /\ Has(c, {"hib"}) /\ Single(c, {"hib"})
    BY <1>1, <1>5, <1>10, <1>13, Groups DEF Has, SuspendInv
  <2>2. Told(c) /\ ~Posted(c) /\ ~Falls(c) /\ ~InOut("SysM3", "hib")
    BY <1>10, <1>13, <2>1 DEF Told, SuspendInv
  <2>3. ~Calm(c)
    BY <2>2 DEF Calm
  <2>4. ~Has(g, Hibs) /\ ~Replied(g, "cancel") /\ hostPc[g] \notin {"awake", "away"}
    BY <1>10, <2>3 DEF HostInv
  <2>5. ~Has(c, {"hib"})' /\ Single(c, {"hib"})'
    BY <1>5, <2>1
  <2>6. ~Told(c)' /\ ~InOut("SysM3", "hib")'
    BY <1>9, <2>1, <2>2, <2>5 DEF Told
  <2>7. ASSUME NEW d \in GroupOf(g) PROVE SuspendInv(d)'
    <3>1. CASE d = c
      BY <1>7, <1>8, <1>10, <2>2, <2>5, <2>6, <3>1 DEF SuspendInv
    <3>2. CASE d # c
      <4>1. d # "AppM3" /\ ~Told(d)' /\ IsrWill(d)' = IsrWill(d)
        BY <1>4, <1>13, <3>2 DEF Told
      <4>. QED BY <1>7, <1>8, <1>10, <4>1 DEF SuspendInv
    <3>. QED BY <3>1, <3>2
  <2>8. OnceInv(g)'
    BY <1>4, <1>7, <1>9, <1>10, <2>1, Groups DEF OnceInv
  <2>9. HostInv(g)'
    <3>1. \A x : Replied(g, x)' = Replied(g, x)
      BY <1>7, <1>9, <2>1 DEF Replied
    <3>2. ~Has(g, Hibs)'
      BY <1>4, <2>1, <2>4, Groups
    <3>. QED BY <1>7, <1>10, <2>4, <3>1, <3>2 DEF HostInv
  <2>. QED BY <1>3, <2>7, <2>8, <2>9 DEF GroupInv
<1>. QED BY <1>1, <1>11, <1>12, <1>13


\* What the host knows stays true when less is under way.
LEMMA HostFewer ==
  ASSUME NEW g \in Leads, HostInv(g), Has(g, Hibs)' => Has(g, Hibs),
         \A m \in Replies : Replied(g, m)' => Replied(g, m),
         \A d \in GroupOf(g) : Calm(d) => Calm(d)', hostPc'[g] = hostPc[g]
  PROVE  HostInv(g)'
<1>1. /\ Replied(g, "ack")' => Replied(g, "ack")
      /\ Replied(g, "cancel")' => Replied(g, "cancel")
  BY DEF Replies
<1>2. CASE Has(g, Hibs)
  BY <1>1, <1>2 DEF HostInv, Replies
<1>3. CASE ~Has(g, Hibs)
  BY <1>1, <1>3 DEF HostInv
<1>. QED BY <1>2, <1>3

\* Where a processor goes on to be suspended, and nothing else.
LEMMA Steady ==
  ASSUME NEW g \in Leads, GroupInv(g),
         \A m \in Replies : InOut(g, m)' <=> InOut(g, m),
         mbox'[HostBox(g)] = mbox[HostBox(g)], hostPc'[g] = hostPc[g],
         Has(g, Hibs)' = Has(g, Hibs), Single(g, Hibs)' = Single(g, Hibs),
         \A d \in GroupOf(g) : SuspendInv(d)' /\ (Calm(d) => Calm(d)')
  PROVE  GroupInv(g)'
<1>1. \A m : InBox(g, m)' = InBox(g, m)
  BY DEF InBox
<1>2. \A m \in Replies : Replied(g, m)' => Replied(g, m)
  BY <1>1 DEF Replied
<1>3. OnceInv(g)'
  BY <1>1 DEF OnceInv, GroupInv
<1>4. HostInv(g)'
  BY <1>2, HostFewer DEF GroupInv
<1>. QED BY <1>3, <1>4 DEF GroupInv

LEMMA SendGroup ==
  ASSUME DriverInv, TasksInv, NEW g \in Leads, GroupInv(g), NEW c \in GroupOf(g), IntSend(c)
  PROVE  TasksInv' /\ Outside(g) /\ GroupInv(g)'
<1>1. /\ UNCHANGED <<coreInt, edge, isrMsg, hostPc, sentVars, powerVars>>
      /\ isrPc[c] \in {"send", "suspend"} /\ c \in Leads /\ c \in Cpus
      /\ DOMAIN out' = Cpus /\ \A d \in Cpus \ {c} : out'[d] = out[d]
      /\ ~InOut(c, "hib")'
      /\ \/ /\ c = "SysM3" /\ Goes(c, IF isrPc[c] = "send" THEN "bit" ELSE "bitSuspend")
            /\ \A m \in Replies : InOut(c, m)' <=> InOut(c, m)
            /\ \E x \in M3Mail : /\ InOut(c, "hib") <=> x = "hib"
                                 /\ mbox' = [mbox EXCEPT !["AppM3"] = Append(@, x)]
         \/ /\ UNCHANGED isrPc /\ out'[c] = <<>>
            /\ \E y \in HostGets :
                 /\ \A m : InOut(c, m) <=> m = y
                 /\ UNCHANGED mbox \/ mbox' = [mbox EXCEPT ![HostBox(c)] = Append(@, y)]
  BY SendIs, Groups DEF InOut
<1>2. /\ c = g /\ mbox \in [Boxes -> Seq(Letters)]
      /\ isrPc \in [Cpus -> {"idle", "fifo"} \cup Holding \cup Sending]
  BY <1>1, Groups, Places DEF DriverInv, BoxesInv, IsrInv
<1>3. TasksInv'
  BY <1>1 DEF TasksInv, powerVars, walkVars
<1>4. \A d \in GroupOf(g) : /\ semSuspend'[d] = semSuspend[d] /\ suspPc'[d] = suspPc[d]
                            /\ event'[d] = event[d] /\ isrMsg'[d] = isrMsg[d]
                            /\ Posted(d)' = Posted(d) /\ Falls(d)' = Falls(d)
  BY <1>1 DEF powerVars, walkVars, Posted, Falls
<1>5. GroupInv(g) /\ OnceInv(g) /\ HostInv(g) /\ (\A d \in GroupOf(g) : SuspendInv(d)) /\ hostPc'[g] = hostPc[g]
  BY <1>1 DEF GroupInv
<1>6. ASSUME c = "SysM3", Goes(c, IF isrPc[c] = "send" THEN "bit" ELSE "bitSuspend"),
             \A m \in Replies : InOut(c, m)' <=> InOut(c, m),
             NEW x \in M3Mail, InOut(c, "hib") <=> x = "hib",
             mbox' = [mbox EXCEPT !["AppM3"] = Append(@, x)]
      PROVE  Outside(g) /\ GroupInv(g)'
  <2>. DEFINE s == mbox["AppM3"]
  <2>1. /\ s \in Seq(Letters) /\ x \in Letters /\ mbox'["AppM3"] = Append(s, x)
        /\ \A b \in Boxes \ {"AppM3"} : mbox'[b] = mbox[b]
    BY <1>2, <1>6, Places DEF M3Mail, Letters, HostMail
  <2>2. /\ \A d \in Cpus \ {c} : isrPc'[d] = isrPc[d]
        /\ isrPc'[c] \notin Holding /\ isrPc[c] \notin Holding
        /\ IsrWill(c)' <=> IsrWill(c)
    BY <1>1, <1>2, <1>6 DEF Goes, Holding, IsrWill
  <2>3. Outside(g)
    BY <1>1, <1>2, <1>6, <2>1, <2>2, Groups, Places DEF Outside, SameGroup, powerVars, walkVars
  <2>4. \A d \in GroupOf(g) : IsrWill(d)' <=> IsrWill(d)
    BY <1>2, <2>2, Groups DEF IsrWill
  <2>5. Has(g, Hibs)' = Has(g, Hibs) /\ Single(g, Hibs)' = Single(g, Hibs)
    <3>1. mbox'[g] = mbox[g]
      BY <1>2, <1>6, <2>1, Places
    <3>. QED BY <1>2, <2>2, <3>1 DEF Has, Single, InHand
  <2>6. "AppM3" \in GroupOf(g) /\ (\A ms : InHand("AppM3", ms)' = InHand("AppM3", ms))
    BY <1>2, <1>4, <1>6, <2>2, Places DEF InHand
  <2>. DEFINE hib == {"hib"}
  <2>7. /\ x \notin hib => At(Append(s, x), hib) = At(s, hib)
        /\ x \notin hib /\ Once(s, hib) => Once(Append(s, x), hib)
        /\ At(s, hib) = {} => Once(Append(s, x), hib)
    <3>. HIDE DEF s, hib
    <3>. QED BY <2>1, AtAppend
  <2>8. SuspendInv("AppM3")
    BY <1>5, <2>6
  <2>9. /\ Single("AppM3", hib) /\ (x = "hib" => ~Has("AppM3", hib)) /\ (x = "hib" => Told("AppM3"))
        /\ ~InOut("SysM3", "hib")'
    BY <1>1, <1>6, <2>8 DEF SuspendInv, Told
  <2>10. Single("AppM3", hib)' /\ (Told("AppM3")' => Told("AppM3"))
    <3>1. CASE x = "hib"
      <4>1. At(s, hib) = {} /\ ~InHand("AppM3", hib)
        BY <2>9, <3>1 DEF Has
      <4>2. Once(mbox'["AppM3"], hib) /\ ~InHand("AppM3", hib)'
        BY <2>1, <2>6, <2>7, <4>1
      <4>. QED BY <2>9, <3>1, <4>2 DEF Single, Once, At
    <3>2. CASE x # "hib"
      <4>1. At(mbox'["AppM3"], hib) = At(s, hib) /\ Once(mbox'["AppM3"], hib)
        BY <2>1, <2>7, <2>9, <3>2 DEF Single
      <4>2. Has("AppM3", hib)' = Has("AppM3", hib) /\ Single("AppM3", hib)'
        BY <2>6, <2>9, <4>1 DEF Has, Single, Once, At
      <4>. QED BY <2>9, <4>2 DEF Told
    <3>. QED BY <3>1, <3>2
  <2>11. ASSUME NEW d \in GroupOf(g) PROVE SuspendInv(d)' /\ (Calm(d) => Calm(d)')
    <3>1. Told(d)' => Told(d)
      BY <2>10 DEF Told
    <3>2. Calm(d) => Calm(d)'
      BY <1>4, <2>4, <3>1 DEF Calm
    <3>3. SuspendInv(d) /\ (d = "AppM3" => Single(d, {"hib"})' /\ ~InOut("SysM3", "hib")')
      BY <1>5, <2>9, <2>10
    <3>. QED BY <1>4, <2>4, <3>1, <3>2, <3>3 DEF SuspendInv
  <2>12. mbox'[HostBox(g)] = mbox[HostBox(g)]
    BY <1>2, <1>6, <2>1, Places
  <2>13. \A m \in Replies : InOut(g, m)' <=> InOut(g, m)
    BY <1>2, <1>6
  <2>14. GroupInv(g)'
    BY <1>5, <2>5, <2>11, <2>12, <2>13, Steady
  <2>. QED BY <2>3, <2>14
<1>7. ASSUME UNCHANGED isrPc, out'[c] = <<>>, NEW y \in HostGets, \A m : InOut(c, m) <=> m = y,
             UNCHANGED mbox \/ mbox' = [mbox EXCEPT ![HostBox(c)] = Append(@, y)]
      PROVE  Outside(g) /\ GroupInv(g)'
  <2>. DEFINE b == HostBox(g)
              s == mbox[b]
  <2>1. /\ b \in Boxes \ Cpus /\ s \in Seq(Letters) /\ y \in Letters
        /\ \A a \in Boxes \ {b} : mbox'[a] = mbox[a]
        /\ mbox'[b] = s \/ mbox'[b] = Append(s, y)
    BY <1>2, <1>7, Groups DEF Letters
  <2>2. \A d \in Cpus : mbox'[d] = mbox[d] /\ isrPc'[d] = isrPc[d]
    BY <1>7, <2>1, Groups
  <2>3. Outside(g)
    <3>1. \A h \in Leads \ {g} : mbox'[HostBox(h)] = mbox[HostBox(h)]
      BY <2>1, Groups
    <3>. HIDE DEF b, s
    <3>. QED BY <1>1, <1>2, <2>2, <3>1, Groups DEF Outside, SameGroup, powerVars, walkVars
  <2>4. \A d \in GroupOf(g) : \A ms : /\ Has(d, ms)' = Has(d, ms) /\ Single(d, ms)' = Single(d, ms)
                                      /\ IsrWill(d)' = IsrWill(d)
    BY <1>4, <2>2, Groups DEF Has, Single, InHand, IsrWill
  <2>5. \A m : ~InOut(g, m)'
    BY <1>2, <1>7, SaysIs DEF InOut
  <2>. HIDE DEF b, s
  <2>6. \A m : m # y => At(Append(s, y), {m}) = At(s, {m})
    BY <2>1, AtAppend
  <2>7. \A m : At(mbox'[b], {m}) # {} => At(s, {m}) # {} \/ m = y
    BY <2>1, <2>6
  <2>8. \A m \in Replies : Replied(g, m)' => Replied(g, m)
    BY <1>2, <1>7, <2>5, <2>7 DEF Replied, InBox, b, s
  <2>9. Once(s, Replies)
    BY <1>5 DEF OnceInv, b, s
  <2>10. y \in Replies => At(s, Replies) = {}
    <3>1. y \in Replies => \A n \in Replies : At(s, {n}) = {}
      BY <1>2, <1>5, <1>7 DEF OnceInv, InBox, b, s
    <3>. QED BY <3>1 DEF At
  <2>11. Once(mbox'[b], Replies)
    <3>1. /\ y \notin Replies /\ Once(s, Replies) => Once(Append(s, y), Replies)
          /\ At(s, Replies) = {} => Once(Append(s, y), Replies)
      BY <2>1, AtAppend
    <3>. QED BY <2>1, <2>9, <2>10, <3>1
  <2>12. OnceInv(g)'
    <3>1. Once(mbox[HostBox(g)], Replies)'
      BY <2>11 DEF Once, At, b
    <3>. QED BY <1>5, <2>4, <2>5, <3>1, Groups DEF OnceInv
  <2>13. ASSUME NEW d \in GroupOf(g) PROVE SuspendInv(d)' /\ (Calm(d) => Calm(d)')
    <3>1. Told(d)' => Told(d)
      BY <2>4, <2>5, Groups DEF Told
    <3>2. SuspendInv(d) /\ (d = "AppM3" => ~InOut("SysM3", "hib")')
      BY <1>5, <2>5, Groups
    <3>. QED BY <1>4, <2>4, <3>1, <3>2 DEF SuspendInv, Calm
  <2>14. HostInv(g)'
    BY <1>5, <2>4, <2>8, <2>13, HostFewer, Groups
  <2>. QED BY <2>3, <2>12, <2>13, <2>14 DEF GroupInv
<1>. QED BY <1>1, <1>3, <1>6, <1>7

LEMMA OtherGroup ==
  ASSUME DriverInv, TasksInv, NEW g \in Leads, GroupInv(g), NEW c \in GroupOf(g),
         IntTrigger(c) \/ IsrReturn(c)
  PROVE  TasksInv' /\ Outside(g) /\ GroupInv(g)'
<1>1. /\ UNCHANGED <<mbox, out, hostPc, suspPc, event, curInit>> /\ c \in Cpus
      /\ isrPc \in [Cpus -> {"idle", "fifo"} \cup Holding \cup Sending]
      /\ isrMsg \in [Cpus -> Letters \cup {"none"}]
  BY TriggerIs, ReturnIs, Groups DEF DriverInv, IsrInv, powerVars, walkVars
<1>2. /\ \A d \in Cpus \ {c} : isrPc'[d] = isrPc[d] /\ isrMsg'[d] = isrMsg[d]
      /\ isrPc[c] \notin Holding /\ isrPc'[c] \notin Holding
      /\ DOMAIN semSuspend' = Cpus
      /\ \A d \in Cpus \ {c} : semSuspend'[d] = semSuspend[d]
      /\ \/ (IsrWill(c)' <=> IsrWill(c)) /\ semSuspend'[c] = semSuspend[c]
         \/ IsrWill(c) /\ ~IsrWill(c)' /\ semSuspend'[c] = semSuspend[c] + 1
  <2>1. CASE IntTrigger(c)
    BY <1>1, <2>1, TriggerIs, ZenonT(60) DEF Goes, Holding, IsrWill, TasksInv, powerVars
  <2>2. CASE IsrReturn(c)
    <3>1. /\ isrPc[c] \in {"send", "suspend"} /\ isrPc'[c] = "idle"
          /\ \A d \in Cpus \ {c} : isrPc'[d] = isrPc[d] /\ isrMsg'[d] = isrMsg[d]
      BY <1>1, <2>2, ReturnIs DEF Goes
    <3>2. semSuspend' = IF isrPc[c] = "suspend" THEN [semSuspend EXCEPT ![c] = @ + 1] ELSE semSuspend
      BY <1>1, <2>2, ReturnIs
    <3>. QED BY <1>1, <3>1, <3>2 DEF Holding, IsrWill, TasksInv
  <2>. QED BY <2>1, <2>2
<1>3. TasksInv'
  BY <1>1, <1>2 DEF TasksInv
<1>4. Outside(g)
  BY <1>1, <1>2, Groups DEF Outside, SameGroup
<1>5. \A d \in GroupOf(g) : \A ms : Has(d, ms)' = Has(d, ms) /\ Single(d, ms)' = Single(d, ms)
  BY <1>1, <1>2, Groups DEF Has, Single, InHand
<1>6. \A m : InOut(g, m)' = InOut(g, m)
  BY <1>1 DEF InOut
<1>7. ASSUME NEW d \in GroupOf(g) PROVE SuspendInv(d)' /\ (Calm(d) => Calm(d)')
  <2>1. Told(d)' = Told(d) /\ Falls(d)' = Falls(d) /\ SuspendInv(d) /\ d \in Cpus
    BY <1>1, <1>5, <1>6, Groups DEF Told, Falls, GroupInv
  <2>2. d = "AppM3" => InOut("SysM3", "hib")' = InOut("SysM3", "hib")
    BY <1>6, Groups
  <2>3. CASE (IsrWill(d)' <=> IsrWill(d)) /\ semSuspend'[d] = semSuspend[d]
    BY <1>1, <1>5, <2>1, <2>2, <2>3 DEF SuspendInv, Calm, Posted
  <2>4. CASE d = c /\ IsrWill(c) /\ ~IsrWill(c)' /\ semSuspend'[c] = semSuspend[c] + 1
    <3>1. semSuspend[d] = 0 /\ ~Falls(d) /\ ~Told(d) /\ ~Calm(d)
      BY <2>1, <2>4 DEF SuspendInv, Posted, Calm
    <3>2. semSuspend'[d] = 1
      BY <2>4, <3>1
    <3>. QED BY <1>1, <1>5, <2>1, <2>2, <2>4, <3>1, <3>2 DEF SuspendInv, Posted
  <2>. QED BY <1>2, <2>1, <2>3, <2>4 DEF IsrWill
<1>. QED BY <1>1, <1>3, <1>4, <1>5, <1>6, <1>7, Steady, Groups

LEMMA HostSendGroup ==
  ASSUME DriverInv, TasksInv, NEW g \in Leads, GroupInv(g), NEW m \in Mail[g], HostSend(g, m)
  PROVE  TasksInv' /\ Outside(g) /\ GroupInv(g)'
<1>. DEFINE s == mbox[g]
<1>1. /\ UNCHANGED <<isrVars, powerVars>> /\ g \in Boxes /\ g \in Cpus
      /\ mbox \in [Boxes -> Seq(Letters)] /\ hostPc[g] = "awake" /\ DOMAIN hostPc = Leads
      /\ mbox' = [mbox EXCEPT ![g] = Append(@, m)]
      /\ hostPc' = [hostPc EXCEPT ![g] = IF m \in Hibs THEN "asked" ELSE @]
  BY Groups DEF HostSend, Hibs, DriverInv, BoxesInv
<1>2. m \in Letters
  BY InterruptsAssumption, Places DEF Letters, HostMail
<1>3. TasksInv'
  BY <1>1 DEF TasksInv, powerVars, walkVars
<1>4. \A b \in Boxes \ {g} : mbox'[b] = mbox[b]
  BY <1>1
<1>5. Outside(g)
  BY <1>1, <1>4, Groups DEF Outside, SameGroup, isrVars, powerVars, walkVars
<1>6. GroupInv(g) /\ OnceInv(g) /\ HostInv(g) /\ \A d \in GroupOf(g) : SuspendInv(d)
  BY DEF GroupInv
<1>7. /\ ~Has(g, Hibs) /\ ~Replied(g, "ack") /\ ~Replied(g, "cancel")
      /\ \A d \in GroupOf(g) : Calm(d)
  BY <1>1, <1>6 DEF HostInv
<1>8. /\ \A x : InOut(g, x)' = InOut(g, x) /\ InBox(g, x)' = InBox(g, x)
      /\ mbox'[HostBox(g)] = mbox[HostBox(g)]
  <2>1. mbox'[HostBox(g)] = mbox[HostBox(g)]
    BY <1>1, <1>4, Groups
  <2>2. out' = out
    BY <1>1 DEF isrVars
  <2>. QED BY <2>1, <2>2 DEF InOut, InBox
<1>9. \A d \in GroupOf(g) : d = "AppM3" => /\ Has(d, {"hib"})' = Has(d, {"hib"})
                                         /\ Single(d, {"hib"})' = Single(d, {"hib"})
                                         /\ InOut("SysM3", "hib")' = InOut("SysM3", "hib")
  BY <1>1, <1>4, <1>8, Groups DEF Has, Single, InHand, isrVars
<1>10. \A d \in GroupOf(g) : /\ Told(d)' = Told(d) /\ IsrWill(d)' = IsrWill(d)
                             /\ Posted(d)' = Posted(d) /\ Falls(d)' = Falls(d)
                             /\ semSuspend'[d] = semSuspend[d] /\ suspPc'[d] = suspPc[d]
  BY <1>1, <1>9 DEF Told, IsrWill, Posted, Falls, isrVars, powerVars, walkVars
<1>11. ASSUME NEW d \in GroupOf(g) PROVE SuspendInv(d)' /\ Calm(d)'
  BY <1>6, <1>7, <1>9, <1>10 DEF SuspendInv, Calm
<1>12. Single(g, Hibs)' /\ (Has(g, Hibs)' => m \in Hibs)
  <2>1. s \in Seq(Letters) /\ mbox'[g] = Append(s, m) /\ At(s, Hibs) = {} /\ ~InHand(g, Hibs)'
    BY <1>1, <1>7 DEF Has, InHand, isrVars
  <2>. HIDE DEF s
  <2>2. /\ m \notin Hibs => At(Append(s, m), Hibs) = At(s, Hibs)
        /\ Once(Append(s, m), Hibs)
    BY <1>2, <2>1, AtAppend
  <2>3. Once(mbox[g], Hibs)' /\ (m \notin Hibs => At(mbox[g], Hibs)' = {})
    BY <2>1, <2>2 DEF Once, At
  <2>. QED BY <2>1, <2>3 DEF Single, Has
<1>13. OnceInv(g)'
  BY <1>6, <1>8, <1>12 DEF OnceInv
<1>14. HostInv(g)'
  <2>1. /\ m \in Hibs => hostPc'[g] = "asked"
        /\ ~Replied(g, "ack")' /\ ~Replied(g, "cancel")'
    BY <1>1, <1>7, <1>8 DEF Replied
  <2>. QED BY <1>11, <1>12, <2>1 DEF HostInv, Replies
<1>. QED BY <1>3, <1>5, <1>11, <1>13, <1>14 DEF GroupInv

LEMMA HostReceiveGroup ==
  ASSUME DriverInv, TasksInv, NEW g \in Leads, GroupInv(g), HostReceive(g)
  PROVE  TasksInv' /\ Outside(g) /\ GroupInv(g)'
<1>. DEFINE b == HostBox(g)
            s == mbox[b]
<1>1. /\ UNCHANGED <<isrVars, powerVars>> /\ g \in Cpus /\ b \in Boxes \ Cpus
      /\ mbox \in [Boxes -> Seq(Letters)] /\ DOMAIN hostPc = Leads
      /\ s # <<>> /\ mbox' = [mbox EXCEPT ![b] = Tail(@)]
      /\ hostPc' = [hostPc EXCEPT ![g] = CASE Head(s) = "ack" -> "asleep"
                                           [] Head(s) = "cancel" -> "awake" [] OTHER -> @]
  BY Groups DEF HostReceive, Pop, DriverInv, BoxesInv
<1>2. TasksInv'
  BY <1>1 DEF TasksInv, powerVars, walkVars
<1>3. /\ \A a \in Boxes \ {b} : mbox'[a] = mbox[a]
      /\ \A d \in Cpus : mbox'[d] = mbox[d]
      /\ \A h \in Leads \ {g} : hostPc'[h] = hostPc[h]
      /\ s \in Seq(Letters) /\ mbox'[b] = Tail(s)
      /\ Head(s) = "ack" => hostPc'[g] = "asleep"
      /\ Head(s) = "cancel" => hostPc'[g] = "awake"
      /\ Head(s) \notin Replies => hostPc'[g] = hostPc[g]
  <2>. HIDE DEF b
  <2>. QED BY <1>1, Groups DEF Replies
<1>4. Outside(g)
  <2>1. \A h \in Leads \ {g} : mbox'[HostBox(h)] = mbox[HostBox(h)]
    BY <1>3, Groups
  <2>. HIDE DEF b, s
  <2>. QED BY <1>1, <1>3, <2>1, Groups DEF Outside, SameGroup, isrVars, powerVars, walkVars
<1>5. GroupInv(g) /\ OnceInv(g) /\ HostInv(g) /\ \A d \in GroupOf(g) : SuspendInv(d)
  BY DEF GroupInv
<1>. HIDE DEF b, s
<1>6. \A d \in Cpus : \A ms : Has(d, ms)' = Has(d, ms) /\ Single(d, ms)' = Single(d, ms)
  BY <1>1, <1>3 DEF Has, Single, InHand, isrVars
<1>7. \A x : InOut(g, x)' = InOut(g, x)
  BY <1>1 DEF InOut, isrVars
<1>8. \A d \in GroupOf(g) : /\ Told(d)' = Told(d) /\ IsrWill(d)' = IsrWill(d)
                            /\ Posted(d)' = Posted(d) /\ Falls(d)' = Falls(d)
                            /\ semSuspend'[d] = semSuspend[d] /\ suspPc'[d] = suspPc[d]
                            /\ Calm(d)' = Calm(d)
  <2>. TAKE d \in GroupOf(g)
  <2>1. Told(d)' = Told(d)
    BY <1>6, <1>7, Groups DEF Told
  <2>2. /\ IsrWill(d)' = IsrWill(d) /\ Posted(d)' = Posted(d) /\ Falls(d)' = Falls(d)
        /\ semSuspend'[d] = semSuspend[d] /\ suspPc'[d] = suspPc[d]
    BY <1>1 DEF IsrWill, Posted, Falls, isrVars, powerVars, walkVars
  <2>. QED BY <2>1, <2>2 DEF Calm
<1>9. ASSUME NEW d \in GroupOf(g) PROVE SuspendInv(d)'
  <2>1. d = "AppM3" => InOut("SysM3", "hib")' = InOut("SysM3", "hib")
    BY <1>7, Groups
  <2>2. SuspendInv(d) /\ d \in Cpus
    BY <1>5, Groups
  <2>. QED BY <1>6, <1>8, <2>1, <2>2 DEF SuspendInv
<1>10. /\ Once(s, Replies) /\ (\A m \in Replies : InOut(g, m) => \A n \in Replies : At(s, {n}) = {})
       /\ \A m : Replied(g, m) <=> InOut(g, m) \/ At(s, {m}) # {}
       /\ \A m : Replied(g, m)' <=> InOut(g, m) \/ At(Tail(s), {m}) # {}
       /\ \A m : InBox(g, m)' <=> At(Tail(s), {m}) # {}
  BY <1>3, <1>5, <1>7 DEF OnceInv, Replied, InBox, At, b, s
<1>11. /\ \A m : At(Tail(s), {m}) # {} => At(s, {m}) # {}
       /\ Head(s) \in Replies => At(Tail(s), Replies) = {} /\ At(s, {Head(s)}) # {}
       /\ Once(Tail(s), Replies)
  <2>1. s # <<>> /\ s \in Seq(Letters)
    BY <1>1, <1>3 DEF s
  <2>2. \A m : At(Tail(s), {m}) # {} => At(s, {m}) # {}
    BY <2>1, AtTail
  <2>3. At(s, {Head(s)}) # {}
    <3>1. Head(s) \in {Head(s)} => At(s, {Head(s)}) # {}
      BY <2>1, AtTail
    <3>. QED BY <3>1
  <2>4. /\ Once(s, Replies) /\ Head(s) \in Replies => At(Tail(s), Replies) = {}
        /\ Once(s, Replies) => Once(Tail(s), Replies)
    BY <2>1, AtTail
  <2>. QED BY <1>10, <2>2, <2>3, <2>4
<1>12. OnceInv(g)'
  <2>1. Once(mbox[HostBox(g)], Replies)'
    BY <1>3, <1>11 DEF Once, At, b
  <2>2. \A m \in Replies : InOut(g, m)' => \A n \in Replies : ~InBox(g, n)'
    BY <1>7, <1>10, <1>11
  <2>. QED BY <1>5, <1>6, <2>1, <2>2, Groups DEF OnceInv
<1>13. HostInv(g)'
  <2>1. CASE Head(s) \in Replies
    <3>1. \A m \in Replies : ~InOut(g, m)
      BY <1>10, <1>11, <2>1
    <3>2. \A m \in Replies : At(Tail(s), {m}) = {}
      BY <1>11, <2>1 DEF At
    <3>3. \A m \in Replies : ~Replied(g, m)'
      BY <1>10, <3>1, <3>2
    <3>4. Replied(g, Head(s)) /\ ~Has(g, Hibs)
      BY <1>5, <1>10, <1>11, <2>1 DEF HostInv
    <3>5. ~Has(g, Hibs)'
      BY <1>1, <1>6, <3>4
    <3>6. CASE Head(s) = "ack"
      BY <1>3, <3>3, <3>5, <3>6 DEF HostInv, Replies
    <3>7. CASE Head(s) = "cancel"
      <4>1. \A d \in GroupOf(g) : Calm(d)'
        BY <1>5, <1>8, <3>4, <3>7 DEF HostInv
      <4>. QED BY <1>3, <3>3, <3>5, <4>1 DEF HostInv, Replies
    <3>. QED BY <2>1, <3>6, <3>7 DEF Replies
  <2>2. CASE Head(s) \notin Replies
    <3>1. \A m \in Replies : Replied(g, m)' => Replied(g, m)
      BY <1>10, <1>11
    <3>. QED BY <1>1, <1>3, <1>5, <1>6, <1>8, <2>2, <3>1, HostFewer
  <2>. QED BY <2>1, <2>2
<1>. QED BY <1>2, <1>4, <1>9, <1>12, <1>13 DEF GroupInv

LEMMA HostWakeGroup ==
  ASSUME DriverInv, TasksInv, NEW g \in Leads, GroupInv(g), HostWake(g)
  PROVE  TasksInv' /\ Outside(g) /\ GroupInv(g)'
<1>1. /\ UNCHANGED <<mbox, isrVars, semSuspend, curInit>> /\ g \in Cpus
      /\ \A d \in GroupOf(g) : suspPc[d] = "asleep"
      /\ suspPc' = [d \in Cpus |-> IF d \in GroupOf(g) THEN "walk" ELSE suspPc[d]]
      /\ event' = [d \in Cpus |-> IF d \in GroupOf(g) THEN "RESUME" ELSE event[d]]
      /\ hostPc[g] = "asleep" /\ hostPc' = [hostPc EXCEPT ![g] = "awake"] /\ DOMAIN hostPc = Leads
  BY Groups DEF HostWake, Wake, BeginWalk, DriverInv
<1>2. TasksInv'
  BY <1>1 DEF TasksInv
<1>3. Outside(g)
  <2>1. \A h \in Leads \ {g}, d \in Cpus : d \in GroupOf(h) => d \notin GroupOf(g)
    BY Groups
  <2>. QED BY <1>1, <2>1, Groups DEF Outside, SameGroup, isrVars
<1>4. GroupInv(g) /\ OnceInv(g) /\ HostInv(g) /\ \A d \in GroupOf(g) : SuspendInv(d)
  BY DEF GroupInv
<1>5. /\ \A x : InOut(g, x)' = InOut(g, x) /\ InBox(g, x)' = InBox(g, x)
      /\ \A d, ms : Has(d, ms)' = Has(d, ms) /\ Single(d, ms)' = Single(d, ms)
      /\ mbox'[HostBox(g)] = mbox[HostBox(g)]
  BY <1>1 DEF InOut, InBox, Has, Single, InHand, isrVars
<1>6. \A d \in GroupOf(g) : ~Told(d) /\ ~IsrWill(d) /\ ~Posted(d)
  BY <1>1, <1>4 DEF SuspendInv, Falls
<1>7. \A d \in GroupOf(g) : Told(d)' = Told(d) /\ IsrWill(d)' = IsrWill(d) /\ Posted(d)' = Posted(d)
  <2>1. \A d \in GroupOf(g) : d = "AppM3" => InOut("SysM3", "hib")' = InOut("SysM3", "hib")
    BY <1>5, Groups
  <2>. QED BY <1>1, <1>5, <2>1 DEF Told, IsrWill, Posted, isrVars
<1>8. \A d \in GroupOf(g) : ~Falls(d)' /\ suspPc'[d] = "walk" /\ semSuspend'[d] = semSuspend[d]
  BY <1>1, Groups DEF Falls
<1>9. ASSUME NEW d \in GroupOf(g) PROVE SuspendInv(d)' /\ Calm(d)'
  <2>1. d = "AppM3" => InOut("SysM3", "hib")' = InOut("SysM3", "hib")
    BY <1>5, Groups
  <2>2. SuspendInv(d)
    BY <1>4
  <2>. QED BY <1>5, <1>6, <1>7, <1>8, <2>1, <2>2 DEF SuspendInv, Calm
<1>10. OnceInv(g)'
  BY <1>4, <1>5 DEF OnceInv
<1>11. HostInv(g)'
  <2>1. ~Has(g, Hibs) /\ ~Replied(g, "cancel") /\ ~Replied(g, "ack")
    BY <1>1, <1>4 DEF HostInv
  <2>2. ~Has(g, Hibs)' /\ ~Replied(g, "cancel")' /\ ~Replied(g, "ack")'
    BY <1>5, <2>1 DEF Replied
  <2>. QED BY <1>9, <2>2 DEF HostInv
<1>. QED BY <1>2, <1>3, <1>9, <1>10, <1>11 DEF GroupInv

LEMMA SleepingGroup ==
  ASSUME DriverInv, TasksInv, NEW g \in Leads, GroupInv(g), NEW c \in GroupOf(g), Sleeping(c)
  PROVE  TasksInv' /\ Outside(g) /\ GroupInv(g)'
<1>1. /\ UNCHANGED <<mbox, isrVars, hostPc, curInit>> /\ c \in Cpus /\ curInit[c]
      /\ DOMAIN semSuspend = Cpus /\ DOMAIN suspPc = Cpus /\ DOMAIN event = Cpus
  BY Groups DEF Sleeping, SuspendTask, TaskPend, Visit, TaskSleep, TaskLoop, TasksInv, intVars
<1>2. /\ DOMAIN semSuspend' = Cpus /\ DOMAIN suspPc' = Cpus /\ DOMAIN event' = Cpus
      /\ \A d \in Cpus \ {c} : /\ semSuspend'[d] = semSuspend[d] /\ suspPc'[d] = suspPc[d]
                               /\ event'[d] = event[d]
      /\ \/ /\ suspPc[c] = "pend" /\ semSuspend[c] > 0 /\ semSuspend'[c] = semSuspend[c] - 1
            /\ suspPc'[c] = "walk" /\ event'[c] = "SUSPEND"
         \/ /\ semSuspend'[c] = semSuspend[c] /\ suspPc[c] = "walk" /\ event'[c] = event[c]
            /\ \/ suspPc'[c] = "walk"
               \/ event[c] = "SUSPEND" /\ suspPc'[c] = "asleep"
               \/ event[c] = "RESUME" /\ suspPc'[c] = "pend"
  <2>1. CASE TaskPend(c)
    BY <1>1, <2>1 DEF TaskPend, BeginWalk
  <2>2. CASE Visit(c)
    BY <1>1, <2>2 DEF Visit
  <2>3. CASE TaskSleep(c)
    BY <1>1, <2>3 DEF TaskSleep, walkVars
  <2>4. CASE TaskLoop(c)
    BY <1>1, <2>4 DEF TaskLoop, walkVars
  <2>. QED BY <2>1, <2>2, <2>3, <2>4 DEF Sleeping, SuspendTask
<1>3. TasksInv'
  BY <1>1, <1>2 DEF TasksInv
<1>4. Outside(g)
  BY <1>1, <1>2, Groups DEF Outside, SameGroup, isrVars
<1>5. /\ \A x : InOut(g, x)' = InOut(g, x) /\ InBox(g, x)' = InBox(g, x)
      /\ \A d, ms : Has(d, ms)' = Has(d, ms) /\ Single(d, ms)' = Single(d, ms)
      /\ mbox'[HostBox(g)] = mbox[HostBox(g)] /\ hostPc'[g] = hostPc[g]
  BY <1>1 DEF InOut, InBox, Has, Single, InHand, isrVars
<1>6. ASSUME NEW d \in GroupOf(g) PROVE SuspendInv(d)' /\ (Calm(d) => Calm(d)')
  <2>1. d = "AppM3" => InOut("SysM3", "hib")' = InOut("SysM3", "hib")
    BY <1>5, Groups
  <2>2. SuspendInv(d) /\ d \in Cpus
    BY Groups DEF GroupInv
  <2>3. Told(d)' = Told(d) /\ IsrWill(d)' = IsrWill(d)
    BY <1>1, <1>5, <2>1 DEF Told, IsrWill, isrVars
  <2>4. \/ /\ semSuspend'[d] = semSuspend[d] /\ (Falls(d)' <=> Falls(d)) /\ (Posted(d)' <=> Posted(d))
           /\ suspPc'[d] \in {"pend", "walk", "asleep"}
        \/ /\ Posted(d) /\ ~Posted(d)' /\ ~Falls(d) /\ semSuspend'[d] = 0 /\ suspPc'[d] = "walk"
    <3>1. CASE d # c
      BY <1>2, <2>2, <3>1 DEF Falls, Posted, SuspendInv
    <3>2. CASE d = c /\ suspPc[c] = "pend"
      <4>1. semSuspend[c] = 1 /\ semSuspend'[c] = 0 /\ suspPc'[c] = "walk" /\ Posted(c)
        BY <1>2, <2>2, <3>2 DEF SuspendInv, Posted
      <4>. QED BY <2>2, <3>2, <4>1 DEF Posted, SuspendInv
    <3>3. CASE d = c /\ suspPc[c] # "pend"
      BY <1>2, <3>3 DEF Falls, Posted
    <3>. QED BY <3>1, <3>2, <3>3
  <2>. QED BY <1>5, <2>1, <2>2, <2>3, <2>4 DEF SuspendInv, Calm
<1>. QED BY <1>3, <1>4, <1>5, <1>6, Steady

\* Locks, wake locks and callbacks have nothing to do with it.
LEMMA OtherPowerIs ==
  ASSUME NEW c \in Cpus, HibernateLock(c) \/ HibernateUnlock(c) \/ WakeLock(c) \/ WakeUnlock(c) \/ Registering(c)
  PROVE  UNCHANGED <<semSuspend, suspPc, event, curInit>>
BY DEF HibernateLock, HibernateUnlock, WakeLock, WakeUnlock, Registering, Register, Unregister, walkVars

LEMMA SameMail ==
  ASSUME MailInv, UNCHANGED intVars, UNCHANGED <<semSuspend, suspPc, event, curInit>>
  PROVE  MailInv'
<1>. USE DEF intVars, isrVars, sentVars
<1>1. DriverInv'
  BY DEF MailInv, DriverInv, BoxesInv, IsrInv
<1>2. OrderInv'
  BY DEF MailInv, OrderInv, InOrder, Taken, Behind, ToAppM3
<1>3. TasksInv'
  BY DEF MailInv, TasksInv
<1>4. \A g \in Leads : GroupInv(g)'
  <2>1. \A g \in Leads : SameGroup(g)
    BY DEF SameGroup
  <2>. QED BY <2>1, GroupKept DEF MailInv
<1>. QED BY <1>1, <1>2, <1>3, <1>4 DEF MailInv

LEMMA MailStep ==
  ASSUME MailInv, NEW g \in Leads, IntNext(g)
  PROVE  MailInv'
<1>. USE DEF MailInv
<1>1. SUFFICES DriverInv' /\ OrderInv' /\ TasksInv' /\ Outside(g) /\ GroupInv(g)'
  <2>1. ASSUME Outside(g), NEW h \in Leads \ {g} PROVE GroupInv(h)'
    BY <2>1, GroupKept DEF Outside
  <2>. QED BY <2>1
<1>2. ASSUME NEW c \in GroupOf(g), IsrStep(c)
      PROVE  DriverInv' /\ OrderInv' /\ TasksInv' /\ Outside(g) /\ GroupInv(g)'
  <2>. c \in Cpus
    BY Groups
  <2>1. CASE Clear(c)
    BY <2>1, ClearTypes, ClearOrder, ClearGroup
  <2>2. CASE Dispatch(c)
    BY <2>2, DispatchTypes, DispatchOrder, DispatchGroup
  <2>3. CASE IntSend(c)
    BY <2>3, SendTypes, SendOrder, SendGroup
  <2>4. CASE IntTrigger(c) \/ IsrReturn(c)
    BY <2>4, OtherTypes, OtherOrder, OtherGroup
  <2>. QED BY <1>2, <2>1, <2>2, <2>3, <2>4 DEF IsrStep
<1>3. ASSUME UNCHANGED intVars PROVE DriverInv' /\ OrderInv'
  <2>1. DriverInv'
    BY <1>3 DEF DriverInv, BoxesInv, IsrInv, intVars, isrVars, sentVars
  <2>2. OrderInv'
    BY <1>3 DEF OrderInv, InOrder, Taken, Behind, ToAppM3, intVars, isrVars, sentVars
  <2>. QED BY <2>1, <2>2
<1>4. ASSUME NEW c \in GroupOf(g), Sleeping(c)
      PROVE  DriverInv' /\ OrderInv' /\ TasksInv' /\ Outside(g) /\ GroupInv(g)'
  BY <1>3, <1>4, SleepingGroup DEF Sleeping
<1>5. ASSUME NEW c \in GroupOf(g), HibernateLock(c) \/ HibernateUnlock(c), UNCHANGED intVars
      PROVE  DriverInv' /\ OrderInv' /\ TasksInv' /\ Outside(g) /\ GroupInv(g)'
  <2>1. MailInv'
    BY <1>5, OtherPowerIs, SameMail, Groups
  <2>2. Outside(g)
    BY <1>5, OtherPowerIs, Groups DEF Outside, SameGroup, intVars, isrVars
  <2>. QED BY <2>1, <2>2
<1>6. ASSUME NEW m \in Mail[g], HostSend(g, m)
      PROVE  DriverInv' /\ OrderInv' /\ TasksInv' /\ Outside(g) /\ GroupInv(g)'
  BY <1>6, HostTypes, HostOrder, HostSendGroup
<1>7. CASE HostReceive(g)
  BY <1>7, HostTypes, HostOrder, HostReceiveGroup
<1>8. CASE HostWake(g)
  BY <1>8, HostTypes, HostOrder, HostWakeGroup
<1>. QED BY <1>2, <1>4, <1>5, <1>6, <1>7, <1>8 DEF IntNext

LEMMA MailStarts ==
  IntInit /\ PowerInit => MailInv
<1>. SUFFICES ASSUME IntInit, PowerInit PROVE MailInv
  OBVIOUS
<1>1. DriverInv
  <2>1. BoxesInv
    BY Places DEF IntInit, BoxesInv
  <2>2. IsrInv
    BY Places DEF IntInit, IsrInv, IsrPcs, OutOf, Holding, Sending
  <2>3. /\ sent \in [Cpus -> Seq(Letters)] /\ heard \in [Cpus -> Seq(Letters)]
        /\ coreInt \in BOOLEAN /\ edge \in BOOLEAN
    <3>1. /\ sent = [c \in Cpus |-> <<>>] /\ heard = [c \in Cpus |-> <<>>]
          /\ coreInt = FALSE /\ edge = FALSE
      BY DEF IntInit
    <3>2. <<>> \in Seq(Letters)
      OBVIOUS
    <3>. QED BY <3>1, <3>2
  <2>4. hostPc \in [Leads -> {"awake", "asked", "asleep", "away"}]
    <3>1. PICK h \in {"awake", "away"} : hostPc = [c \in Leads |-> h]
      BY DEF IntInit
    <3>. QED BY <3>1
  <2>. QED BY <2>1, <2>2, <2>3, <2>4 DEF DriverInv
<1>2. OrderInv
  <2>1. \A c \in Cpus : Taken(c) = <<>> /\ Behind(c) = <<>>
    BY Places DEF IntInit, Taken, Behind, ToAppM3, Holding
  <2>2. Line(<<>>, <<>>, <<>>, <<>>) = <<>>
    BY Pairs DEF Line
  <2>3. \A c \in Cpus : sent[c] = <<>> /\ heard[c] = <<>> /\ mbox[c] = <<>>
    BY Groups, Places DEF IntInit
  <2>. QED BY <2>1, <2>2, <2>3 DEF OrderInv, InOrder
<1>3. TasksInv
  BY DEF PowerInit, TasksInv
<1>4. ASSUME NEW g \in Leads PROVE GroupInv(g)
  <2>1. \A b \in Boxes : \A ms : At(mbox[b], ms) = {}
    BY DEF IntInit, At
  <2>2. \A d \in Cpus : \A ms : ~InHand(d, ms) /\ ~Has(d, ms) /\ Single(d, ms)
    BY <2>1, Groups DEF IntInit, InHand, Holding, Has, Single, Once
  <2>3. \A d \in Cpus : \A m : ~InOut(d, m)
    BY SaysIs DEF IntInit, InOut
  <2>4. \A m : ~InBox(g, m) /\ ~Replied(g, m)
    BY <2>1, <2>3, Groups DEF InBox, Replied
  <2>5. \A d \in GroupOf(g) : /\ ~Told(d) /\ ~IsrWill(d) /\ ~Posted(d) /\ ~Falls(d)
                              /\ semSuspend[d] = 0 /\ suspPc[d] = "pend" /\ Calm(d)
    <3>. TAKE d \in GroupOf(g)
    <3>1. ~Told(d)
      BY <2>2, <2>3, Places, Groups DEF Told
    <3>2. ~IsrWill(d) /\ ~Posted(d) /\ ~Falls(d) /\ semSuspend[d] = 0 /\ suspPc[d] = "pend"
      BY Groups DEF IntInit, PowerInit, IsrWill, Posted, Falls
    <3>. QED BY <3>1, <3>2 DEF Calm
  <2>6. OnceInv(g)
    BY <2>1, <2>2, <2>3, Groups DEF OnceInv, Once
  <2>7. HostInv(g)
    BY <2>2, <2>4, <2>5, Groups DEF HostInv
  <2>8. \A d \in GroupOf(g) : SuspendInv(d)
    BY <2>2, <2>3, <2>5, Places, Groups DEF SuspendInv
  <2>. QED BY <2>6, <2>7, <2>8 DEF GroupInv
<1>. QED BY <1>1, <1>2, <1>3, <1>4 DEF MailInv

LEMMA MailFollows ==
  MailInv => MailIsSound
<1>. SUFFICES ASSUME MailInv PROVE MailIsSound
  OBVIOUS
<1>. USE DEF MailInv
<1>1. IntTypeOK
  BY DEF IntTypeOK, DriverInv, BoxesInv, IsrInv, Holding, Sending
<1>2. MailInOrder
  <2>. SUFFICES ASSUME NEW c \in Cpus
                PROVE  IsPrefix(heard[c], sent[c]) /\ (AllServed => heard[c] = sent[c])
    BY DEF MailInOrder
  <2>. DEFINE h == heard[c]
              rest == Taken(c) \o (mbox[c] \o Behind(c))
  <2>1. /\ h \in Seq(Letters) /\ rest \in Seq(Letters) /\ sent[c] = h \o rest
    <3>1. /\ h \in Seq(Letters) /\ Taken(c) \in Seq(Letters)
          /\ mbox[c] \in Seq(Letters) /\ Behind(c) \in Seq(Letters)
      BY MailTypes
    <3>2. rest \in Seq(Letters)
      BY <3>1, ConcatProperties
    <3>3. sent[c] = h \o rest
      BY DEF OrderInv, InOrder, Line
    <3>. QED BY <3>1, <3>2, <3>3
  <2>2. IsPrefix(h, sent[c])
    <3>. HIDE DEF h, rest
    <3>. QED BY <2>1, PrefixOfConcat
  <2>3. ASSUME AllServed PROVE heard[c] = sent[c]
    <3>1. Taken(c) = <<>> /\ mbox[c] = <<>>
      BY <2>3 DEF AllServed, Taken, Holding
    <3>2. Behind(c) = <<>>
      <4>1. out["SysM3"] = <<>>
        BY <2>3, Places DEF AllServed, DriverInv, IsrInv, Sending
      <4>. QED BY <4>1 DEF Behind, ToAppM3
    <3>3. rest = <<>>
      BY <3>1, <3>2, Pairs
    <3>. HIDE DEF h, rest
    <3>4. h \o rest = h
      BY <2>1, <3>3, ConcatEmptySeq
    <3>. QED BY <2>1, <3>4 DEF h
  <2>. QED BY <2>2, <2>3
<1>3. NobodyElseSleeps
  <2>. SUFFICES ASSUME NEW g \in Leads, hostPc[g] = "awake", NEW d \in GroupOf(g)
                PROVE  suspPc[d] # "asleep" /\ semSuspend[d] = 0
    BY DEF NobodyElseSleeps
  <2>1. Calm(d)
    BY DEF GroupInv, HostInv
  <2>. QED BY <2>1 DEF Calm, Falls, Posted
<1>. QED BY <1>1, <1>2, <1>3 DEF MailIsSound

\* Whatever and however much the host sends to the two processors it talks to, and
\* with FIFOs of any depth: each processor hears all its mail in the order in which
\* it was sent, AppM3's through SysM3 too, and a processor that the host takes for
\* awake is neither asleep nor about to be suspended by a request that was refused,
\* is stale or has been served.
THEOREM MailTheorem == IntSpec => []MailIsSound
<1>1. ASSUME MailInv, [(\E lead \in Leads : IntNext(lead)) \/ (\E c \in Cpus : Tasks(c))]_mailVars
      PROVE  MailInv'
  <2>1. ASSUME NEW g \in Leads, IntNext(g) PROVE MailInv'
    BY <1>1, <2>1, MailStep
  <2>2. ASSUME NEW c \in Cpus, Tasks(c) PROVE MailInv'
    BY <1>1, <2>2, OtherPowerIs, SameMail DEF Tasks
  <2>3. CASE UNCHANGED mailVars
    BY <1>1, <2>3, SameMail DEF mailVars, powerVars, walkVars
  <2>. QED BY <1>1, <2>1, <2>2, <2>3
<1>2. IntSpec => []MailInv
  BY <1>1, MailStarts, PTL DEF IntSpec
<1>. QED BY <1>2, MailFollows, PTL

-----------------------------------------------------------------------------
(* The watchdog.                                                           *)
Alive(c) == thread[c] \notin {"stuck", "dead"}

\* A timer that runs holds what the promise leaves of the time; a core other than 0
\* that is idle has none; and nobody has died where Restore finds all cores at work.
WatchInv ==
  /\ WdTypeOK /\ crashed \subseteq Cores /\ NoFalseAlarm /\ DeathIsKnown
  /\ \A c \in running : Alive(c) => left[c] + since[c] >= Time /\ Due(c)
  /\ power # "on" => \A c \in Cores : Alive(c)
  /\ power = "off" => \A c \in Cores : thread[c] = "busy"

LEMMA WatchStarts == WdInit => WatchInv
BY WatchdogAssumption DEF WdInit, WatchInv, WdTypeOK, NoFalseAlarm, DeathIsKnown, Alive, Due

LEMMA HookKeeps ==
  ASSUME WatchInv, NEW c \in Cores, IdleBegin(c) \/ Switch(c)
  PROVE  WatchInv'
<1>. USE WatchdogAssumption DEF WatchInv, WdTypeOK, Hook, Kicked
<1>1. /\ power = "on" /\ Alive(c) /\ thread[c] # "dead"
      /\ thread' \in [Cores -> {"idle", "busy", "stuck", "dead"}]
      /\ \A d \in Cores \ {c} : thread'[d] = thread[d] /\ since'[d] = since[d] /\ left'[d] = left[d]
      /\ Alive(c)' /\ since'[c] = 0
      /\ left' \in [Cores -> 0 .. BootTime] /\ since' \in [Cores -> 0 .. Time]
      /\ UNCHANGED <<wdOn, power, fired, crashed>>
  BY DEF IdleBegin, Switch, Alive
<1>2. running' \subseteq wdOn /\ running' \ {c} \subseteq running
  BY DEF IdleBegin, Switch
<1>3. c \in running' => left'[c] = Time /\ Due(c)'
  BY DEF IdleBegin, Switch, Due
<1>4. WdTypeOK'
  <2>1. running' \subseteq wdOn' /\ wdOn' \subseteq Cores
    BY <1>1, <1>2
  <2>2. fired' \subseteq Cores /\ power' \in {"off", "on", "asleep"}
    BY <1>1
  <2>. QED BY <1>1, <2>1, <2>2
<1>5. NoFalseAlarm' /\ DeathIsKnown'
  <2>1. c \notin fired /\ c \notin crashed /\ fired \subseteq Cores
    BY <1>1 DEF NoFalseAlarm, DeathIsKnown, Alive
  <2>. QED BY <1>1, <2>1 DEF NoFalseAlarm, DeathIsKnown, Alive
<1>6. ASSUME NEW d \in running', Alive(d)' PROVE left'[d] + since'[d] >= Time /\ Due(d)'
  <2>1. CASE d = c
    BY <1>1, <1>3, <1>6, <2>1
  <2>2. CASE d # c
    <3>1. d \in running /\ d \in Cores
      BY <1>2, <1>6, <2>2
    <3>. QED BY <1>1, <1>6, <2>2, <3>1 DEF Alive, Due
  <2>. QED BY <2>1, <2>2
<1>. QED BY <1>1, <1>4, <1>5, <1>6

LEMMA TickKeeps ==
  ASSUME WatchInv, Tick
  PROVE  WatchInv'
<1>. USE WatchdogAssumption DEF WatchInv, WdTypeOK
<1>1. /\ UNCHANGED <<wdOn, running, thread, power, crashed>> /\ power = "on"
      /\ fired' = fired \cup {c \in running : left[c] <= 1}
      /\ \A c \in Cores : Due(c) => since[c] < Time - 1
      /\ left' = [c \in Cores |-> IF c \in running /\ left[c] > 0 THEN left[c] - 1 ELSE left[c]]
      /\ since' = [c \in Cores |-> IF since[c] < Time THEN since[c] + 1 ELSE since[c]]
  BY DEF Tick
<1>2. \A c \in Cores : left[c] \in 0 .. BootTime /\ since[c] \in 0 .. Time
  OBVIOUS
<1>3. ASSUME NEW c \in running, Alive(c)
      PROVE  /\ left[c] > 1 /\ left'[c] + since'[c] >= Time /\ Due(c)'
  <2>1. c \in Cores /\ Due(c) /\ left[c] + since[c] >= Time
    BY <1>3
  <2>2. since[c] < Time - 1
    BY <1>1, <2>1
  <2>3. left[c] > 1
    BY <1>2, <2>1, <2>2
  <2>4. left'[c] = left[c] - 1 /\ since'[c] = since[c] + 1
    BY <1>1, <1>3, <2>1, <2>2, <2>3
  <2>. QED BY <1>1, <1>2, <2>1, <2>3, <2>4 DEF Due
<1>4. WdTypeOK'
  <2>1. left' \in [Cores -> 0 .. BootTime] /\ since' \in [Cores -> 0 .. Time]
    BY <1>1, <1>2
  <2>. QED BY <1>1, <2>1
<1>5. NoFalseAlarm'
  BY <1>1, <1>3 DEF NoFalseAlarm, Alive
<1>6. DeathIsKnown'
  BY <1>1 DEF DeathIsKnown
<1>. QED BY <1>1, <1>3, <1>4, <1>5, <1>6 DEF Alive

LEMMA OtherWatchKeeps ==
  ASSUME WatchInv,
         \/ \E on \in SUBSET Cores : Boot(on)
         \/ \E c \in Cores : Stick(c)
         \/ \E c \in Cores, watchdog \in BOOLEAN : Exception(c, watchdog)
         \/ WdSleep \/ Restore
  PROVE  WatchInv'
<1>. USE WatchdogAssumption DEF WatchInv, WdTypeOK, NoFalseAlarm, DeathIsKnown, Alive, Due
<1>1. ASSUME NEW on \in SUBSET Cores, Boot(on) PROVE WatchInv'
  BY <1>1 DEF Boot, InitTimers
<1>2. ASSUME NEW c \in Cores, Stick(c) PROVE WatchInv'
  BY <1>2 DEF Stick
<1>3. ASSUME NEW c \in Cores, NEW watchdog \in BOOLEAN, Exception(c, watchdog) PROVE WatchInv'
  <2>1. /\ power = "on" /\ UNCHANGED <<wdOn, running, left, since, power, fired>>
        /\ thread' = [thread EXCEPT ![c] = "dead"]
        /\ \/ crashed' = crashed /\ c \in fired
           \/ crashed' = crashed \cup {c}
    BY <1>3 DEF Exception
  <2>2. WdTypeOK'
    BY <2>1
  <2>3. NoFalseAlarm' /\ DeathIsKnown'
    BY <2>1
  <2>4. \A d \in running : Alive(d)' => Alive(d) /\ thread'[d] = thread[d]
    BY <2>1
  <2>. QED BY <2>1, <2>2, <2>3, <2>4
<1>4. CASE WdSleep
  BY <1>4 DEF WdSleep
<1>5. CASE Restore
  <2>1. /\ power = "asleep" /\ power' = "on" /\ running' = wdOn
        /\ left' = [c \in Cores |-> IF c \in wdOn THEN Time ELSE left[c]]
        /\ since' = [c \in Cores |-> 0] /\ thread' = [c \in Cores |-> "busy"]
        /\ UNCHANGED <<wdOn, fired, crashed>>
    BY <1>5 DEF Restore, InitTimers
  <2>2. WdTypeOK'
    BY <2>1
  <2>3. NoFalseAlarm' /\ DeathIsKnown'
    BY <2>1
  <2>. QED BY <2>1, <2>2, <2>3
<1>. QED BY <1>1, <1>2, <1>3, <1>4, <1>5

LEMMA WatchTheorem == WdSpec => []WatchIsSound
<1>1. ASSUME WatchInv, [WdNext]_wdVars PROVE WatchInv'
  <2>1. CASE UNCHANGED wdVars
    BY <1>1, <2>1 DEF wdVars, WatchInv, WdTypeOK, NoFalseAlarm, DeathIsKnown, Alive, Due
  <2>. QED BY <1>1, <2>1, HookKeeps, TickKeeps, OtherWatchKeeps DEF WdNext
<1>2. WatchInv => WatchIsSound
  BY DEF WatchInv, WatchIsSound
<1>. QED BY <1>1, <1>2, WatchStarts, PTL DEF WdSpec

-----------------------------------------------------------------------------
(* The timer of the audio workaround.                                      *)
Halves == {p.cts \div 2 : p \in Payloads}

LEMMA HalfIs ==
  ASSUME NEW n \in Nat
  PROVE  n \div 2 \in Nat /\ 2 * (n \div 2) <= n /\ n < 2 * (n \div 2) + 2
OBVIOUS

\* What is there, and that the interrupt that is waited for is on.
RegsInv ==
  /\ HdTypeOK
  /\ tldr \in Int /\ tcrr \in Int /\ tmar \in Int /\ passed \in Nat
  /\ cts \in Intervals /\ payload \in Payloads
  /\ gptTcrrFullCts \in {0} \cup Intervals
  /\ gptTcrrFullCts # 0 => gptTcrrHalfCts \in Halves
  /\ waEnable \/ matchTmrEnable => gptTcrrFullCts # 0
  /\ tier = IF matchTmrEnable THEN {"MAT"} ELSE {"OVF"}
  /\ acr => matchTmrEnable /\ ~acrOff

\* A count at the reload, and one at which the first match may be, at the latest.
AtReload(x) == \E period \in TimerPeriods : x <= -period
AtHalf(x) == \E period \in TimerPeriods, half \in Halves : x <= Latency + Delta + half - period

\* A match is before the overflow, and ahead of every reload.
RoomInv ==
  /\ \E period \in TimerPeriods : -period <= tcrr
  /\ ~matchTmrEnable /\ "OVF" \in tisr => AtReload(tcrr - overdue)
  /\ matchTmrEnable => tmar < 0 /\ \A period \in TimerPeriods : -period <= tmar
  /\ matchTmrEnable /\ acrOff => AtHalf(tmar)
  /\ matchTmrEnable /\ acrOff /\ "MAT" \in tisr => AtHalf(tcrr - overdue)

\* The interval that the interrupts go by is that of the pulses, where no payload is
\* being set up.
TaskInv ==
  /\ hdPc \in {"recv", "sync", "spin", "half", "full", "period", "stop", "start"}
  /\ hdPc \in {"spin", "half", "full", "period"} => cts = payload.cts
  /\ hdPc \in {"full", "period"} => gptTcrrHalfCts = payload.cts \div 2
  /\ hdPc = "period" => gptTcrrFullCts = payload.cts
  /\ hdPc \in {"recv", "sync", "stop", "start"} /\ gptTcrrFullCts # 0 =>
       gptTcrrFullCts = cts /\ gptTcrrHalfCts = cts \div 2
  /\ waEnable = started /\ (waEnable => hdPc = "recv") /\ (whole => waEnable)

\* Cycles to the match, or, less than 0, since it.
Remains == IF "MAT" \in tisr THEN -overdue ELSE tmar - tcrr

\* Where the pulses are against the two matches of a window.
PulseInv ==
  whole =>
    /\ ~matchTmrEnable => passed = 1
    /\ matchTmrEnable /\ "MAT" \notin tisr => tcrr < tmar
    /\ matchTmrEnable /\ acrOff => passed = 0 /\ toPulse = cts - cts \div 2 + Remains
    /\ matchTmrEnable /\ ~acrOff =>
         acr /\ \E wait \in 0 .. Latency :
           LET rest == Remains - cts \div 2 - wait IN
           \/ passed = 0 /\ toPulse = rest /\ rest >= 1
           \/ passed = 1 /\ toPulse = rest + cts /\ rest <= 0

HdInv == RegsInv /\ RoomInv /\ TaskInv /\ PulseInv

LEMMA Sizes ==
  /\ Delta \in Nat /\ Latency \in Nat
  /\ \A period \in TimerPeriods : period \in Nat
  /\ \A p \in Payloads : p.cts \in Nat /\ p.cts >= 2 /\ p.period \in TimerPeriods
  /\ ClockPeriod \in TimerPeriods
  /\ \A i \in Intervals : /\ i \in Nat /\ i >= 2 /\ i \div 2 \in Nat /\ i \div 2 >= 1
                          /\ i \div 2 \in Halves /\ 2 * Latency < i - i \div 2
  /\ \A h \in Halves : h \in Nat /\ h >= 1
<1>1. /\ Delta \in Nat /\ Latency \in Nat
      /\ \A period \in TimerPeriods : period \in Nat
      /\ \A p \in Payloads : p.cts \in Nat /\ p.cts >= 2 /\ p.period \in TimerPeriods
      /\ ClockPeriod \in TimerPeriods
  BY HdmiAssumption DEF TimerPeriods
<1>2. ASSUME NEW p \in Payloads
      PROVE  p.cts \div 2 \in Nat /\ p.cts \div 2 >= 1 /\ 2 * Latency < p.cts - p.cts \div 2
  <2>1. p.cts \div 2 \in Nat /\ p.cts < 2 * (p.cts \div 2) + 2
    BY <1>1, HalfIs
  <2>2. 2 * Latency < p.cts - p.cts \div 2
    BY <1>1, HdmiAssumption
  <2>. QED BY <1>1, <2>1, <2>2
<1>. QED BY <1>1, <1>2 DEF Intervals, Halves

\* Both matches are reached before the overflow.
LEMMA Fits ==
  ASSUME NEW x \in Int, AtHalf(x), NEW delay \in 0 .. Latency, NEW i \in Intervals
  PROVE  x < 0 /\ x + delay + i < 0
<1>1. PICK period \in TimerPeriods, p \in Payloads : x <= Latency + Delta + p.cts \div 2 - period
  BY DEF AtHalf, Halves
<1>2. PICK q \in Payloads : i = q.cts
  BY DEF Intervals
<1>3. /\ 2 * Latency + Delta + p.cts \div 2 + p.cts < period
      /\ 2 * Latency + Delta + q.cts \div 2 + q.cts < period
  BY HdmiAssumption
<1>4. /\ {p.cts, q.cts, period, p.cts \div 2, q.cts \div 2, Latency, Delta} \subseteq Nat
      /\ 2 * (p.cts \div 2) <= p.cts /\ p.cts < 2 * (p.cts \div 2) + 2
      /\ 2 * (q.cts \div 2) <= q.cts /\ q.cts < 2 * (q.cts \div 2) + 2
  BY Sizes, HalfIs
<1>. DEFINE ph == p.cts \div 2
            qh == q.cts \div 2
            pc == p.cts
            qc == q.cts
<1>. HIDE DEF ph, qh, pc, qc
<1>5. /\ x <= Latency + Delta + ph - period
      /\ 2 * Latency + Delta + ph + pc < period
      /\ 2 * Latency + Delta + qh + qc < period
      /\ {pc, qc, period, ph, qh, Latency, Delta} \subseteq Nat
      /\ 2 * ph <= pc /\ pc < 2 * ph + 2 /\ 2 * qh <= qc /\ qc < 2 * qh + 2
      /\ i = qc
  BY <1>1, <1>2, <1>3, <1>4 DEF ph, qh, pc, qc
<1>6. CASE qc <= pc
  BY <1>5, <1>6
<1>7. CASE pc < qc
  <2>1. ph <= qh
    BY <1>5, <1>7
  <2>. QED BY <1>5, <1>7, <2>1
<1>. QED BY <1>5, <1>6, <1>7

LEMMA HdStarts == HdInit => HdInv
<1>. SUFFICES ASSUME HdInit PROVE HdInv
  OBVIOUS
<1>. USE DEF HdInit
<1>1. ClockPeriod \in Nat /\ ClockPeriod > 0 /\ cts \in Nat /\ cts >= 2 /\ cts \in Intervals
      /\ payload \in Payloads
  <2>1. cts \in Intervals /\ payload \in Payloads
    OBVIOUS
  <2>2. 2 * Latency + Delta + payload.cts \div 2 + payload.cts < ClockPeriod
    BY <2>1, HdmiAssumption DEF TimerPeriods
  <2>3. payload.cts \div 2 \in Nat
    BY <2>1, Sizes, HalfIs
  <2>. QED BY <2>1, <2>2, <2>3, Sizes
<1>2. HdTypeOK
  <2>1. -tldr = ClockPeriod /\ tcrr < 0 /\ tmar <= 0
    BY <1>1
  <2>2. toPulse \in 1 .. cts /\ overdue \in 0 .. Latency
    BY <1>1, Sizes
  <2>3. -tldr \in TimerPeriods
    BY <2>1, Sizes
  <2>. QED BY <2>1, <2>2, <2>3 DEF HdTypeOK
<1>3. RegsInv
  BY <1>1, <1>2 DEF RegsInv
<1>4. RoomInv
  BY <1>1, Sizes DEF RoomInv
<1>5. TaskInv /\ PulseInv
  BY DEF TaskInv, PulseInv
<1>. QED BY <1>3, <1>4, <1>5 DEF HdInv

LEMMA CycleKeeps ==
  ASSUME RegsInv, RoomInv, TaskInv, Cycle
  PROVE  RegsInv' /\ RoomInv' /\ TaskInv'
<1>. USE DEF Cycle, stateVars
<1>1. /\ tcrr \in Int /\ tcrr < 0 /\ tmar \in Int /\ tldr \in Int /\ overdue \in 0 .. Latency
      /\ tcrr' = IF tcrr = -1 THEN tldr ELSE tcrr + 1
      /\ \E period \in TimerPeriods : period \in Nat /\ period > 0 /\ tldr = -period
      /\ UNCHANGED <<waEnable, acrOff, matchTmrEnable, gptTcrrHalfCts, gptTcrrFullCts,
                     tldr, tmar, tier, acr, freq, hdPc, payload, cts, whole, started, payloads>>
      /\ Latency \in Nat /\ Delta \in Nat
      /\ cts \in Nat /\ cts >= 2 /\ toPulse \in 1 .. cts /\ passed \in Nat
  <2>1. -tldr \in TimerPeriods /\ tldr \in Int
    BY DEF RegsInv, HdTypeOK
  <2>2. -tldr \in Nat /\ -tldr > 0
    <3>1. payload \in Payloads
      BY DEF RegsInv
    <3>2. 2 * Latency + Delta + payload.cts \div 2 + payload.cts < -tldr
      BY <2>1, <3>1, HdmiAssumption
    <3>. QED BY <2>1, <3>1, <3>2, Sizes, HalfIs
  <2>. QED BY <2>1, <2>2, Sizes DEF RegsInv, HdTypeOK
<1>2. tcrr' \in Int /\ tcrr' < 0
  BY <1>1
<1>3. /\ overdue' \in 0 .. Latency
      /\ Raised => overdue' = overdue + 1
  BY <1>1
<1>4. RegsInv'
  <2>1. toPulse' \in 1 .. cts' /\ passed' \in Nat
    BY <1>1
  <2>2. tisr' \in SUBSET {"OVF", "MAT"}
    BY DEF RegsInv, HdTypeOK
  <2>. QED BY <1>1, <1>2, <1>3, <2>1, <2>2 DEF RegsInv, HdTypeOK
<1>5. RoomInv'
  <2>1. \E period \in TimerPeriods : -period <= tcrr'
    BY <1>1, Sizes DEF RoomInv
  <2>2. ASSUME ~matchTmrEnable, "OVF" \in tisr' PROVE AtReload(tcrr' - overdue')
    <3>1. CASE tcrr = -1
      BY <1>1, <1>3, <3>1 DEF AtReload
    <3>2. CASE tcrr # -1
      <4>1. "OVF" \in tisr
        BY <2>2, <3>2
      <4>2. Raised
        BY <2>2, <4>1 DEF Raised, RegsInv
      <4>. QED BY <1>1, <1>3, <2>2, <3>2, <4>1, <4>2 DEF RoomInv
    <3>. QED BY <3>1, <3>2
  <2>3. ASSUME matchTmrEnable, acrOff, "MAT" \in tisr' PROVE AtHalf(tcrr' - overdue')
    <3>1. CASE tcrr = -1
      <4>1. PICK period \in TimerPeriods : period \in Nat /\ tldr = -period
        BY <1>1
      <4>2. PICK half \in Halves : half \in Nat
        BY Sizes DEF RegsInv, Halves
      <4>. QED BY <1>1, <1>3, <3>1, <4>1, <4>2 DEF AtHalf
    <3>2. CASE tcrr # -1 /\ "MAT" \in tisr
      <4>1. Raised
        BY <2>3, <3>2 DEF Raised, RegsInv
      <4>. QED BY <1>1, <1>3, <2>3, <3>2, <4>1 DEF RoomInv
    <3>3. CASE tcrr' = tmar
      BY <1>1, <1>3, <2>3, <3>3, Sizes DEF RoomInv, AtHalf
    <3>. QED BY <2>3, <3>1, <3>2, <3>3
  <2>. QED BY <1>1, <2>1, <2>2, <2>3 DEF RoomInv, AtHalf
<1>6. TaskInv'
  BY <1>1 DEF TaskInv
<1>. QED BY <1>4, <1>5, <1>6

\* The interrupt of the reload, and those of the two matches.
LEMMA AutoRldIs ==
  ASSUME RegsInv, RoomInv, TaskInv, HdmiTick, ~matchTmrEnable, waEnable
  PROVE  /\ tcrr' = tcrr + Delta /\ tcrr' \in Int /\ tcrr' < 0 /\ tisr' = {} /\ overdue' = 0
         /\ matchTmrEnable' = TRUE /\ tier' = {"MAT"} /\ acrOff' = TRUE
         /\ tmar' = tcrr' + gptTcrrHalfCts /\ tmar' \in Int /\ tmar' < 0
         /\ \A period \in TimerPeriods : -period <= tmar'
         /\ AtHalf(tmar') /\ \E period \in TimerPeriods : -period <= tcrr'
         /\ passed' = 0 /\ whole' = TRUE /\ freq' = 128 /\ toPulse' = cts
         /\ UNCHANGED <<acr, waEnable, gptTcrrHalfCts, gptTcrrFullCts, tldr, hdPc, payload, cts,
                        started, payloads>>
<1>1. /\ "OVF" \in tisr /\ AtReload(tcrr - overdue) /\ overdue \in 0 .. Latency /\ tcrr \in Int
      /\ gptTcrrHalfCts \in Halves /\ Latency \in Nat /\ Delta \in Nat
  BY Sizes DEF HdmiTick, Raised, RegsInv, RoomInv, HdTypeOK
<1>2. PICK q \in Payloads : gptTcrrHalfCts = q.cts \div 2
  BY <1>1 DEF Halves
<1>3. q.cts \div 2 \in Nat /\ q.cts \in Nat
  BY Sizes, HalfIs
<1>4. PICK period \in TimerPeriods : tcrr - overdue <= -period
  BY <1>1 DEF AtReload
<1>5. period \in Nat /\ 2 * Latency + Delta + q.cts \div 2 + q.cts < period
  BY Sizes, HdmiAssumption
<1>6. tcrr + Delta < 0 /\ tcrr + Delta + gptTcrrHalfCts < 0
  BY <1>1, <1>2, <1>3, <1>4, <1>5
<1>7. tldr + gptTcrrHalfCts < 0
  <2>1. -tldr \in TimerPeriods /\ tldr \in Int
    BY DEF RegsInv, HdTypeOK
  <2>2. 2 * Latency + Delta + q.cts \div 2 + q.cts < -tldr
    BY <2>1, HdmiAssumption
  <2>. QED BY <1>1, <1>2, <1>3, <2>1, <2>2
<1>8. /\ tcrr' = tcrr + Delta /\ tisr' = {} /\ overdue' = 0
      /\ MatchTmrStart(gptTcrrHalfCts, tcrr') /\ acrOff' = TRUE
      /\ passed' = 0 /\ whole' = TRUE /\ freq' = 128 /\ toPulse' = cts
      /\ UNCHANGED <<acr, waEnable, gptTcrrHalfCts, gptTcrrFullCts, tldr, hdPc, payload, cts,
                     started, payloads>>
  BY <1>6 DEF HdmiTick, AutoRldTmrIsr
<1>9. /\ matchTmrEnable' = TRUE /\ tier' = {"MAT"} /\ tmar' = tcrr' + gptTcrrHalfCts
  BY <1>7, <1>8 DEF MatchTmrStart
<1>10. PICK from \in TimerPeriods : -from <= tcrr
  BY DEF RoomInv
<1>11. \A other \in TimerPeriods : -other <= tmar'
  <2>. TAKE other \in TimerPeriods
  <2>1. from - Delta - q.cts \div 2 <= other /\ from \in Nat /\ other \in Nat
    BY HdmiAssumption, Sizes
  <2>. DEFINE half == q.cts \div 2
  <2>. HIDE DEF half
  <2>2. /\ from - Delta - half <= other /\ half \in Nat /\ gptTcrrHalfCts = half
        /\ tmar' = tcrr + Delta + half
    BY <1>2, <1>3, <1>8, <1>9, <2>1 DEF half
  <2>. QED BY <1>1, <1>10, <2>1, <2>2
<1>12. AtHalf(tmar')
  <2>1. tmar' <= Latency + Delta + gptTcrrHalfCts - period
    <3>. DEFINE half == gptTcrrHalfCts
    <3>1. half \in Nat /\ tmar' = tcrr + Delta + half
      BY <1>2, <1>3, <1>8, <1>9
    <3>. HIDE DEF half
    <3>2. tcrr + Delta + half <= Latency + Delta + half - period
      BY <1>1, <1>4, <1>5, <3>1
    <3>. QED BY <3>1, <3>2 DEF half
  <2>. QED BY <1>1, <2>1 DEF AtHalf
<1>13. tmar' \in Int /\ tmar' < 0 /\ tcrr' \in Int /\ tcrr' < 0 /\ -from <= tcrr' /\ from \in Nat
  BY <1>1, <1>2, <1>3, <1>6, <1>8, <1>9, <1>10, Sizes
<1>. QED BY <1>8, <1>9, <1>11, <1>12, <1>13

LEMMA MatchIs ==
  ASSUME RegsInv, RoomInv, HdmiTick, matchTmrEnable
  PROVE  /\ "MAT" \in tisr /\ tisr' = {} /\ overdue' = 0
         /\ UNCHANGED <<passed, whole, freq, tcrr, toPulse, waEnable, gptTcrrHalfCts,
                        gptTcrrFullCts, tldr, hdPc, payload, cts, started, payloads>>
         /\ acrOff =>
              /\ matchTmrEnable' = TRUE /\ tier' = {"MAT"} /\ acr' = TRUE /\ acrOff' = FALSE
              /\ tmar' = tcrr + gptTcrrFullCts /\ tmar' \in Int /\ tmar' < 0
              /\ \A period \in TimerPeriods : -period <= tmar'
         /\ ~acrOff => matchTmrEnable' = FALSE /\ tmar' = 0 /\ tier' = {"OVF"} /\ acr' = FALSE /\ acrOff' = TRUE
<1>1. /\ "MAT" \in tisr /\ tisr' = {} /\ overdue' = 0 /\ MatchTmrIsr
      /\ UNCHANGED <<waEnable, gptTcrrHalfCts, gptTcrrFullCts, tldr, hdPc, payload, cts, started, payloads>>
  BY DEF HdmiTick, Raised, RegsInv
<1>2. ASSUME acrOff
      PROVE  /\ matchTmrEnable' = TRUE /\ tier' = {"MAT"} /\ acr' = TRUE /\ acrOff' = FALSE
             /\ tmar' = tcrr + gptTcrrFullCts /\ tmar' \in Int /\ tmar' < 0
             /\ \A period \in TimerPeriods : -period <= tmar'
  <2>1. PICK q \in Payloads : gptTcrrFullCts = q.cts
    BY DEF RegsInv, Intervals
  <2>2. /\ tcrr \in Int /\ tldr \in Int /\ overdue \in 0 .. Latency /\ -tldr \in TimerPeriods
        /\ q.cts \in Nat /\ q.cts \div 2 \in Nat /\ q.cts \in Intervals
        /\ AtHalf(tcrr - overdue) /\ Latency \in Nat /\ Delta \in Nat
    BY <1>1, <1>2, Sizes, HalfIs DEF RegsInv, HdTypeOK, RoomInv, Intervals
  <2>3. tldr + q.cts < 0
    <3>1. 2 * Latency + Delta + q.cts \div 2 + q.cts < -tldr
      BY <2>2, HdmiAssumption
    <3>. QED BY <2>2, <3>1
  <2>4. tcrr + q.cts < 0
    <3>. DEFINE x == tcrr - overdue
    <3>1. x \in Int /\ AtHalf(x)
      BY <2>2
    <3>. HIDE DEF x
    <3>2. x + overdue + q.cts < 0
      BY <2>2, <3>1, Fits
    <3>. QED BY <2>2, <3>2 DEF x
  <2>5. MatchTmrStart(gptTcrrFullCts, tcrr) /\ acr' = TRUE /\ acrOff' = FALSE
    BY <1>1, <1>2 DEF MatchTmrIsr
  <2>6. matchTmrEnable' = TRUE /\ tier' = {"MAT"} /\ tmar' = tcrr + gptTcrrFullCts
    BY <2>1, <2>3, <2>5 DEF MatchTmrStart
  <2>7. PICK from \in TimerPeriods : -from <= tcrr
    BY DEF RoomInv
  <2>8. \A other \in TimerPeriods : -other <= tmar'
    <3>. TAKE other \in TimerPeriods
    <3>1. from - q.cts <= other /\ from \in Nat /\ other \in Nat
      BY HdmiAssumption, Sizes
    <3>. QED BY <2>1, <2>2, <2>6, <2>7, <3>1
  <2>. QED BY <2>1, <2>2, <2>4, <2>5, <2>6, <2>8
<1>3. ASSUME ~acrOff
      PROVE  matchTmrEnable' = FALSE /\ tmar' = 0 /\ tier' = {"OVF"} /\ acr' = FALSE /\ acrOff' = TRUE
  BY <1>1, <1>3 DEF MatchTmrIsr
<1>4. UNCHANGED <<passed, whole, freq, tcrr, toPulse>>
  BY <1>1 DEF MatchTmrIsr
<1>. QED BY <1>1, <1>2, <1>3, <1>4

LEMMA HdmiTickKeeps ==
  ASSUME RegsInv, RoomInv, TaskInv, HdmiTick
  PROVE  RegsInv' /\ RoomInv' /\ TaskInv'
<1>1. ASSUME ~matchTmrEnable, waEnable PROVE RegsInv' /\ RoomInv' /\ TaskInv'
  <2>1. HdTypeOK'
    <3>1. {waEnable, acrOff, matchTmrEnable, acr, whole}' \subseteq BOOLEAN
      BY <1>1, AutoRldIs DEF RegsInv, HdTypeOK
    <3>2. tier' \in SUBSET {"OVF", "MAT"} /\ tisr' \in SUBSET {"OVF", "MAT"}
      BY <1>1, AutoRldIs DEF RegsInv, HdTypeOK
    <3>3. -tldr' \in TimerPeriods
      <4>1. tldr' = tldr /\ -tldr \in TimerPeriods
        BY <1>1, AutoRldIs DEF RegsInv, HdTypeOK
      <4>. QED BY <4>1
    <3>5. tcrr' < 0 /\ tmar' <= 0
      <4>1. tcrr' < 0 /\ tmar' \in Int /\ (tmar' < 0 \/ tmar' = 0)
        BY <1>1, AutoRldIs DEF RegsInv, HdTypeOK
      <4>. QED BY <4>1
    <3>4. toPulse' \in 1 .. cts' /\ overdue' \in 0 .. Latency
      <4>1. /\ cts' = cts /\ overdue' = 0 /\ (toPulse' = cts \/ toPulse' = toPulse)
            /\ cts \in Intervals /\ toPulse \in 1 .. cts
        BY <1>1, AutoRldIs DEF RegsInv, HdTypeOK
      <4>. QED BY <4>1, Sizes
    <3>. QED BY <3>1, <3>2, <3>3, <3>4, <3>5 DEF HdTypeOK
  <2>4. RegsInv'
    <3>1. /\ tldr' \in Int /\ tcrr' \in Int /\ tmar' \in Int /\ passed' \in Nat
          /\ cts' \in Intervals /\ payload' \in Payloads
          /\ gptTcrrFullCts' \in {0} \cup Intervals
          /\ gptTcrrFullCts' # 0 => gptTcrrHalfCts' \in Halves
      <4>1. /\ tldr' = tldr /\ tldr \in Int /\ tcrr' \in Int /\ tmar' \in Int
            /\ (passed' = 0 \/ passed' = passed) /\ passed \in Nat
        BY <1>1, AutoRldIs DEF RegsInv
      <4>2. /\ UNCHANGED <<cts, payload, gptTcrrFullCts, gptTcrrHalfCts>>
        BY <1>1, AutoRldIs DEF RegsInv
      <4>. QED BY <4>1, <4>2 DEF RegsInv
    <3>2. /\ (waEnable \/ matchTmrEnable => gptTcrrFullCts # 0)'
          /\ (tier = IF matchTmrEnable THEN {"MAT"} ELSE {"OVF"})'
      BY <1>1, AutoRldIs DEF RegsInv
    <3>3. (acr => matchTmrEnable /\ ~acrOff)'
      BY <1>1, AutoRldIs DEF RegsInv
    <3>. QED BY <2>1, <3>1, <3>2, <3>3 DEF RegsInv
  <2>2. RoomInv'
    BY <1>1, AutoRldIs DEF RoomInv
  <2>3. TaskInv'
    BY <1>1, AutoRldIs DEF TaskInv
  <2>. QED BY <2>2, <2>3, <2>4
<1>2. ASSUME ~matchTmrEnable, ~waEnable PROVE RegsInv' /\ RoomInv' /\ TaskInv'
  <2>1. /\ UNCHANGED <<freq, tcrr, matchTmrEnable, tmar, tier, acrOff, toPulse, acr, waEnable,
                       gptTcrrHalfCts, gptTcrrFullCts, tldr, hdPc, payload, cts, started, payloads>>
        /\ passed' = 0 /\ whole' = FALSE /\ tisr' = {} /\ overdue' = 0
    BY <1>2 DEF HdmiTick, AutoRldTmrIsr, RegsInv, HdTypeOK
  <2>5. HdTypeOK'
    <3>1. {waEnable, acrOff, matchTmrEnable, acr, whole}' \subseteq BOOLEAN
      BY <2>1 DEF RegsInv, HdTypeOK
    <3>2. tier' \in SUBSET {"OVF", "MAT"} /\ tisr' \in SUBSET {"OVF", "MAT"}
      BY <2>1 DEF RegsInv, HdTypeOK
    <3>3. -tldr' \in TimerPeriods /\ tcrr' < 0 /\ tmar' <= 0
      BY <2>1, Sizes DEF RegsInv, HdTypeOK
    <3>4. toPulse' \in 1 .. cts' /\ overdue' \in 0 .. Latency
      BY <2>1, Sizes DEF RegsInv, HdTypeOK
    <3>. QED BY <3>1, <3>2, <3>3, <3>4 DEF HdTypeOK
  <2>2. RegsInv'
    BY <1>2, <2>1, <2>5 DEF RegsInv
  <2>3. RoomInv'
    BY <1>2, <2>1 DEF RoomInv
  <2>4. TaskInv'
    BY <2>1 DEF TaskInv
  <2>. QED BY <2>2, <2>3, <2>4
<1>3. ASSUME matchTmrEnable PROVE RegsInv' /\ RoomInv' /\ TaskInv'
  <2>0. tmar' \in Int /\ (tmar' < 0 \/ tmar' = 0) /\ tcrr' = tcrr
    <3>1. CASE acrOff
      BY <1>3, <3>1, MatchIs
    <3>2. CASE ~acrOff
      BY <1>3, <3>2, MatchIs
    <3>. QED BY <1>3, <3>1, <3>2, MatchIs
  <2>1. HdTypeOK'
    <3>1. {waEnable, acrOff, matchTmrEnable, acr, whole}' \subseteq BOOLEAN
      BY <1>3, <2>0, MatchIs DEF RegsInv, HdTypeOK
    <3>2. tier' \in SUBSET {"OVF", "MAT"} /\ tisr' \in SUBSET {"OVF", "MAT"}
      BY <1>3, <2>0, MatchIs DEF RegsInv, HdTypeOK
    <3>3. -tldr' \in TimerPeriods
      <4>1. tldr' = tldr /\ -tldr \in TimerPeriods
        BY <1>3, <2>0, MatchIs DEF RegsInv, HdTypeOK
      <4>. QED BY <4>1
    <3>5. tcrr' < 0 /\ tmar' <= 0
      <4>1. tcrr' < 0 /\ tmar' \in Int /\ (tmar' < 0 \/ tmar' = 0)
        BY <2>0 DEF RegsInv, HdTypeOK
      <4>. QED BY <4>1
    <3>4. toPulse' \in 1 .. cts' /\ overdue' \in 0 .. Latency
      <4>1. /\ cts' = cts /\ overdue' = 0 /\ (toPulse' = cts \/ toPulse' = toPulse)
            /\ cts \in Intervals /\ toPulse \in 1 .. cts
        BY <1>3, <2>0, MatchIs DEF RegsInv, HdTypeOK
      <4>. QED BY <4>1, Sizes
    <3>. QED BY <3>1, <3>2, <3>3, <3>4, <3>5 DEF HdTypeOK
  <2>4. RegsInv'
    <3>1. /\ tldr' \in Int /\ tcrr' \in Int /\ tmar' \in Int /\ passed' \in Nat
          /\ cts' \in Intervals /\ payload' \in Payloads
          /\ gptTcrrFullCts' \in {0} \cup Intervals
          /\ gptTcrrFullCts' # 0 => gptTcrrHalfCts' \in Halves
      <4>1. /\ tldr' = tldr /\ tldr \in Int /\ tcrr' \in Int /\ tmar' \in Int
            /\ (passed' = 0 \/ passed' = passed) /\ passed \in Nat
        BY <1>3, <2>0, MatchIs DEF RegsInv
      <4>2. /\ UNCHANGED <<cts, payload, gptTcrrFullCts, gptTcrrHalfCts>>
        BY <1>3, <2>0, MatchIs DEF RegsInv
      <4>. QED BY <4>1, <4>2 DEF RegsInv
    <3>2. /\ (waEnable \/ matchTmrEnable => gptTcrrFullCts # 0)'
          /\ (tier = IF matchTmrEnable THEN {"MAT"} ELSE {"OVF"})'
      BY <1>3, <2>0, MatchIs DEF RegsInv
    <3>3. (acr => matchTmrEnable /\ ~acrOff)'
      BY <1>3, <2>0, MatchIs DEF RegsInv
    <3>. QED BY <2>1, <3>1, <3>2, <3>3 DEF RegsInv
  <2>2. RoomInv'
    BY <1>3, <2>0, MatchIs DEF RoomInv
  <2>3. TaskInv'
    BY <1>3, <2>0, MatchIs DEF TaskInv
  <2>. QED BY <2>2, <2>3, <2>4
<1>. QED BY <1>1, <1>2, <1>3

\* A step of the task, while no trigger is on, and what comes from the host.
LEMMA HdTaskKeeps ==
  ASSUME RegsInv, RoomInv, TaskInv, HdTask
  PROVE  RegsInv' /\ RoomInv' /\ TaskInv' /\ PulseInv'
<1>1. /\ UNCHANGED <<waEnable, acrOff, matchTmrEnable, tmar, tier, tisr, overdue, payload,
                     passed, whole, started, payloads>>
      /\ hdPc \in {"sync", "spin", "half", "full", "period", "stop", "start"}
  BY DEF HdTask, Sync, Spin, SetHalf, SetFull, SetPeriod, SetTimer, StartTimer, TaskDoes
<1>2. ~waEnable /\ ~whole
  BY <1>1 DEF TaskInv
<1>3. PulseInv'
  BY <1>1, <1>2 DEF PulseInv
<1>4. /\ payload \in Payloads /\ payload.cts \in Intervals /\ payload.cts \div 2 \in Halves
      /\ payload.cts \in Nat /\ payload.cts >= 2
      /\ payload.period \in TimerPeriods /\ ClockPeriod \in TimerPeriods
      /\ \A period \in TimerPeriods : period \in Nat /\ period > 0
  <2>1. payload \in Payloads
    BY DEF RegsInv
  <2>2. \A period \in TimerPeriods : period \in Nat /\ period > 0
    <3>. TAKE period \in TimerPeriods
    <3>1. 2 * Latency + Delta + payload.cts \div 2 + payload.cts < period
      BY <2>1, HdmiAssumption
    <3>. QED BY <2>1, <3>1, Sizes, HalfIs
  <2>. QED BY <2>1, <2>2, Sizes DEF Intervals, Halves
<1>5. ASSUME Sync \/ Spin \/ SetHalf \/ SetFull
      PROVE  RegsInv' /\ RoomInv' /\ TaskInv'
  <2>1. /\ UNCHANGED <<tldr, tcrr>>
        /\ \/ UNCHANGED <<cts, toPulse>>
           \/ cts' = payload.cts /\ toPulse' = payload.cts
        /\ acr' = acr \/ acr' = FALSE
        /\ \/ UNCHANGED <<gptTcrrHalfCts, gptTcrrFullCts>>
           \/ gptTcrrHalfCts' = payload.cts \div 2 /\ gptTcrrFullCts' = gptTcrrFullCts
           \/ hdPc = "full" /\ gptTcrrHalfCts' = gptTcrrHalfCts /\ gptTcrrFullCts' = payload.cts
    BY <1>5 DEF Sync, Spin, SetHalf, SetFull, TaskDoes
  <2>2. HdTypeOK'
    <3>1. {waEnable, acrOff, matchTmrEnable, acr, whole}' \subseteq BOOLEAN
      BY <1>1, <2>1 DEF RegsInv, HdTypeOK
    <3>2. toPulse' \in 1 .. cts'
      BY <1>4, <2>1 DEF RegsInv, HdTypeOK
    <3>. QED BY <1>1, <2>1, <3>1, <3>2 DEF RegsInv, HdTypeOK
  <2>3. gptTcrrFullCts' \in {0} \cup Intervals
    BY <1>4, <2>1 DEF RegsInv
  <2>4. gptTcrrFullCts' # 0 => gptTcrrHalfCts' \in Halves
    BY <1>4, <2>1 DEF RegsInv, TaskInv
  <2>5. matchTmrEnable => gptTcrrFullCts' # 0
    BY <1>4, <2>1 DEF RegsInv
  <2>6. RegsInv'
    BY <1>1, <1>2, <1>4, <2>1, <2>2, <2>3, <2>4, <2>5 DEF RegsInv
  <2>7. RoomInv'
    BY <1>1, <2>1 DEF RoomInv
  <2>8. TaskInv'
    BY <1>1, <1>2, <1>5 DEF Sync, Spin, SetHalf, SetFull, TaskDoes, TaskInv
  <2>. QED BY <2>6, <2>7, <2>8
<1>6. ASSUME SetPeriod \/ StartTimer
      PROVE  RegsInv' /\ RoomInv' /\ TaskInv'
  <2>1. /\ UNCHANGED <<gptTcrrHalfCts, gptTcrrFullCts, acr, cts, toPulse>>
        /\ \/ tldr' = -payload.period /\ tcrr' = tcrr
           \/ tldr' = -ClockPeriod /\ tcrr' = tcrr
           \/ tldr' = tldr /\ tcrr' = tldr
    BY <1>6 DEF SetPeriod, SetTimer, StartTimer, TaskDoes
  <2>2. PICK period \in TimerPeriods : tldr' = -period
    <3>1. -tldr \in TimerPeriods /\ tldr \in Int
      BY DEF RegsInv, HdTypeOK
    <3>. QED BY <1>4, <2>1, <3>1
  <2>3. /\ tldr' \in Int /\ -tldr' \in TimerPeriods
        /\ tcrr' \in Int /\ tcrr' < 0
        /\ tcrr' = tcrr \/ \E other \in TimerPeriods : tcrr' = -other
    <3>1. /\ -tldr \in TimerPeriods /\ tldr \in Int /\ tcrr \in Int /\ tcrr < 0
      BY DEF RegsInv, HdTypeOK
    <3>2. tldr = -(-tldr) /\ tldr < 0
      BY <1>4, <3>1
    <3>. QED BY <1>4, <2>1, <2>2, <3>1, <3>2
  <2>4. RegsInv'
    BY <1>1, <2>1, <2>3 DEF RegsInv, HdTypeOK
  <2>5. RoomInv'
    <3>1. CASE tcrr' = tcrr
      BY <1>1, <3>1 DEF RoomInv
    <3>2. ASSUME NEW other \in TimerPeriods, tcrr' = -other PROVE RoomInv'
      <4>1. overdue \in Nat /\ other \in Nat /\ Latency \in Nat /\ Delta \in Nat
        BY <1>4, Sizes DEF RegsInv, HdTypeOK
      <4>2. AtReload(tcrr' - overdue')
        BY <1>1, <3>2, <4>1 DEF AtReload
      <4>3. AtHalf(tcrr' - overdue')
        BY <1>1, <1>4, <3>2, <4>1, Sizes DEF AtHalf
      <4>. QED BY <1>1, <3>2, <4>1, <4>2, <4>3 DEF RoomInv
    <3>. QED BY <2>3, <3>1, <3>2
  <2>6. TaskInv'
    BY <1>1, <1>2, <1>6, <2>1 DEF SetPeriod, SetTimer, StartTimer, TaskDoes, TaskInv
  <2>. QED BY <2>4, <2>5, <2>6
<1>. QED BY <1>3, <1>5, <1>6 DEF HdTask

LEMMA ReceiveKeeps ==
  ASSUME HdInv, HostStopsFirst,
         (\E p \in Payloads : RecvSetup(p)) \/ RecvStop \/ RecvTrigger
  PROVE  HdInv'
<1>. USE DEF HdInv
<1>1. /\ hdPc = "recv"
      /\ UNCHANGED <<acrOff, matchTmrEnable, gptTcrrHalfCts, gptTcrrFullCts, timerVars, acr, freq,
                     cts, toPulse, passed>>
  BY DEF RecvSetup, RecvStop, RecvTrigger, Receives
<1>2. /\ waEnable' \in BOOLEAN /\ whole' \in BOOLEAN /\ waEnable' = started'
      /\ waEnable' => gptTcrrFullCts # 0 /\ hdPc' = "recv"
      /\ whole' => waEnable' /\ whole
      /\ payload' \in Payloads /\ hdPc' \in {"recv", "sync", "stop"}
  <2>1. /\ waEnable \in BOOLEAN /\ whole \in BOOLEAN /\ waEnable = started /\ (whole => waEnable)
        /\ payload \in Payloads
    BY DEF RegsInv, HdTypeOK, TaskInv
  <2>2. ASSUME NEW p \in Payloads, RecvSetup(p)
        PROVE  /\ waEnable' = FALSE /\ whole' = FALSE /\ started' = FALSE /\ payload' \in Payloads
               /\ hdPc' = "sync"
    BY <2>1, <2>2 DEF RecvSetup
  <2>3. CASE RecvStop
    BY <2>1, <2>3 DEF RecvStop, TaskInv, RegsInv
  <2>4. CASE RecvTrigger
    BY <1>1, <2>1, <2>4 DEF RecvTrigger
  <2>. QED BY <2>2, <2>3, <2>4
<1>3. RegsInv'
  <2>1. HdTypeOK'
    BY <1>1, <1>2 DEF RegsInv, HdTypeOK, timerVars
  <2>. QED BY <1>1, <1>2, <2>1 DEF RegsInv, timerVars
<1>4. RoomInv'
  BY <1>1 DEF RoomInv, timerVars
<1>5. TaskInv'
  BY <1>1, <1>2 DEF TaskInv
<1>6. PulseInv'
  BY <1>1, <1>2 DEF PulseInv, Remains, timerVars
<1>. QED BY <1>3, <1>4, <1>5, <1>6

\* The intervals of a window of the workaround.
LEMMA WindowIs ==
  ASSUME RegsInv, TaskInv, whole
  PROVE  /\ cts \in Nat /\ cts \div 2 \in Nat /\ cts \div 2 >= 1 /\ 2 * Latency < cts - cts \div 2
         /\ waEnable /\ gptTcrrFullCts = cts /\ gptTcrrHalfCts = cts \div 2
         /\ Latency \in Nat /\ overdue \in 0 .. Latency
         /\ tcrr \in Int /\ tmar \in Int /\ tcrr < 0
         /\ toPulse \in 1 .. cts /\ passed \in Nat
<1>1. waEnable /\ hdPc = "recv" /\ gptTcrrFullCts # 0 /\ cts \in Intervals
  BY DEF RegsInv, TaskInv
<1>2. gptTcrrFullCts = cts /\ gptTcrrHalfCts = cts \div 2
  BY <1>1 DEF TaskInv
<1>. QED BY <1>1, <1>2, Sizes DEF RegsInv, HdTypeOK

\* A cycle brings the match one cycle nearer, or further into the past.
LEMMA CycleAims ==
  ASSUME HdInv, Cycle
  PROVE  PulseInv'
<1>. SUFFICES ASSUME whole' PROVE PulseInv'
  BY DEF PulseInv
<1>. USE DEF Cycle, stateVars
<1>1. whole
  OBVIOUS
<1>2. /\ cts \in Nat /\ cts \div 2 \in Nat /\ cts \div 2 >= 1 /\ 2 * Latency < cts - cts \div 2
      /\ Latency \in Nat /\ overdue \in 0 .. Latency
      /\ tcrr \in Int /\ tmar \in Int /\ toPulse \in 1 .. cts /\ passed \in Nat
  BY <1>1, WindowIs DEF HdInv
<1>3. ASSUME ~matchTmrEnable PROVE PulseInv'
  <2>1. passed = 1 /\ ~acr
    BY <1>1, <1>3 DEF HdInv, RegsInv, PulseInv
  <2>2. passed' = passed /\ matchTmrEnable' = matchTmrEnable
    BY <2>1
  <2>. QED BY <1>3, <2>1, <2>2 DEF PulseInv
<1>4. ASSUME matchTmrEnable PROVE PulseInv'
  <2>1. /\ Raised <=> "MAT" \in tisr
        /\ tmar < 0 /\ ("MAT" \notin tisr => tcrr < tmar)
    BY <1>1, <1>4 DEF HdInv, RegsInv, RoomInv, PulseInv, Raised
  <2>2. /\ Remains \in Int /\ Remains' = Remains - 1 /\ Remains' >= -Latency
        /\ "MAT" \notin tisr' => tcrr' < tmar'
    <3>1. CASE "MAT" \in tisr
      BY <1>2, <2>1, <3>1 DEF Remains
    <3>2. CASE "MAT" \notin tisr
      <4>1. tcrr' = tcrr + 1 /\ overdue' = 0
        BY <1>2, <2>1, <3>2
      <4>2. "MAT" \in tisr' <=> tcrr + 1 = tmar
        BY <3>2, <4>1
      <4>. QED BY <1>2, <2>1, <3>2, <4>1, <4>2 DEF Remains
    <3>. QED BY <3>1, <3>2
  <2>. DEFINE half == cts \div 2
  <2>. HIDE DEF half
  <2>3. half \in Nat /\ half >= 1 /\ 2 * Latency < cts - half /\ half = cts \div 2
    BY <1>2 DEF half
  <2>4. UNCHANGED <<matchTmrEnable, acrOff, acr, cts, tmar>>
    OBVIOUS
  <2>5. ASSUME acrOff PROVE passed' = 0 /\ toPulse' = cts - half + Remains'
    <3>1. passed = 0 /\ toPulse = cts - half + Remains
      BY <1>1, <1>4, <2>3, <2>5 DEF HdInv, PulseInv
    <3>2. toPulse # 1
      BY <1>2, <2>2, <2>3, <3>1
    <3>3. passed' = passed /\ toPulse' = toPulse - 1
      BY <3>2
    <3>. QED BY <1>2, <2>2, <2>3, <3>1, <3>3
  <2>6. ASSUME ~acrOff
        PROVE  acr /\ \E wait \in 0 .. Latency :
                 \/ passed' = 0 /\ toPulse' = Remains' - half - wait /\ Remains' - half - wait >= 1
                 \/ passed' = 1 /\ toPulse' = Remains' - half - wait + cts /\ Remains' - half - wait <= 0
    <3>1. acr
      BY <1>1, <1>4, <2>6 DEF HdInv, PulseInv
    <3>2. PICK wait \in 0 .. Latency :
            \/ passed = 0 /\ toPulse = Remains - half - wait /\ Remains - half - wait >= 1
            \/ passed = 1 /\ toPulse = Remains - half - wait + cts /\ Remains - half - wait <= 0
      BY <1>1, <1>4, <2>3, <2>6 DEF HdInv, PulseInv
    <3>3. CASE passed = 0 /\ toPulse = Remains - half - wait /\ Remains - half - wait >= 1
      <4>1. CASE toPulse = 1
        <5>1. toPulse' = cts /\ passed' = 1
          BY <3>1, <3>3, <4>1
        <5>. QED BY <1>2, <2>2, <2>3, <3>1, <3>3, <4>1, <5>1
      <4>2. CASE toPulse # 1
        <5>1. toPulse' = toPulse - 1 /\ passed' = passed
          BY <4>2
        <5>. QED BY <1>2, <2>2, <2>3, <3>1, <3>3, <4>2, <5>1
      <4>. QED BY <4>1, <4>2
    <3>4. CASE passed = 1 /\ toPulse = Remains - half - wait + cts /\ Remains - half - wait <= 0
      <4>1. toPulse # 1
        BY <1>2, <2>2, <2>3, <3>4
      <4>2. toPulse' = toPulse - 1 /\ passed' = passed
        BY <4>1
      <4>. QED BY <1>2, <2>2, <2>3, <3>1, <3>4, <4>2
    <3>. QED BY <3>2, <3>3, <3>4
  <2>. QED BY <1>4, <2>2, <2>3, <2>4, <2>5, <2>6 DEF PulseInv
<1>. QED BY <1>3, <1>4

LEMMA HdmiTickAims ==
  ASSUME HdInv, HdmiTick
  PROVE  PulseInv'
<1>. SUFFICES ASSUME whole' PROVE PulseInv'
  BY DEF PulseInv
<1>. USE DEF HdInv
<1>1. ASSUME ~matchTmrEnable PROVE PulseInv'
  <2>1. waEnable
    BY <1>1 DEF HdmiTick, AutoRldTmrIsr
  <2>2. /\ matchTmrEnable' = TRUE /\ acrOff' = TRUE /\ tisr' = {} /\ passed' = 0
        /\ tmar' = tcrr' + gptTcrrHalfCts /\ tcrr' \in Int /\ toPulse' = cts /\ cts' = cts
    BY <1>1, <2>1, AutoRldIs
  <2>3. gptTcrrHalfCts = cts \div 2 /\ cts \in Nat /\ cts \div 2 \in Nat /\ cts \div 2 >= 1
    <3>1. hdPc = "recv" /\ gptTcrrFullCts # 0 /\ cts \in Intervals
      BY <2>1 DEF RegsInv, TaskInv
    <3>. QED BY <3>1, Sizes DEF TaskInv
  <2>4. tcrr' < tmar' /\ toPulse' = cts - cts \div 2 + (tmar' - tcrr')
    <3>1. PICK now \in Int, half \in Nat :
            half >= 1 /\ half = cts \div 2 /\ now = tcrr' /\ tmar' = now + half
      BY <2>2, <2>3
    <3>2. now < now + half /\ cts = cts - half + (now + half - now)
      <4>1. half >= 1 /\ cts \in Nat
        BY <2>3, <3>1
      <4>. QED BY <4>1
    <3>. QED BY <2>2, <3>1, <3>2
  <2>. QED BY <2>2, <2>4 DEF PulseInv, Remains
<1>2. ASSUME matchTmrEnable PROVE PulseInv'
  <2>1. /\ "MAT" \in tisr /\ tisr' = {} /\ whole
        /\ UNCHANGED <<passed, tcrr, toPulse, cts>>
    BY <1>2, MatchIs
  <2>2. /\ cts \in Nat /\ cts \div 2 \in Nat /\ cts \div 2 >= 1 /\ 2 * Latency < cts - cts \div 2
        /\ gptTcrrFullCts = cts /\ tcrr \in Int
        /\ Latency \in Nat /\ overdue \in 0 .. Latency
    BY <2>1, WindowIs
  <2>3. Remains = -overdue
    BY <2>1 DEF Remains
  <2>. DEFINE half == cts \div 2
  <2>. HIDE DEF half
  <2>4. half \in Nat /\ half >= 1 /\ 2 * Latency < cts - half /\ half = cts \div 2
    BY <2>2 DEF half
  <2>5. CASE acrOff
    <3>1. passed = 0 /\ toPulse = cts - half - overdue
      <4>1. passed = 0 /\ toPulse = cts - half + Remains
        BY <1>2, <2>1, <2>4, <2>5 DEF PulseInv
      <4>. QED BY <2>2, <2>3, <2>4, <4>1
    <3>2. matchTmrEnable' = TRUE /\ acr' = TRUE /\ acrOff' = FALSE /\ tmar' = tcrr + cts
      BY <1>2, <2>2, <2>5, MatchIs
    <3>3. Remains' = cts /\ tcrr' < tmar'
      <4>1. cts > 0
        BY <2>2, <2>4
      <4>. QED BY <2>1, <2>2, <3>2, <4>1 DEF Remains
    <3>4. Remains' - half - overdue = toPulse /\ Remains' - half - overdue >= 1
      BY <2>2, <2>4, <3>1, <3>3
    <3>. QED BY <2>1, <2>2, <2>4, <3>1, <3>2, <3>3, <3>4 DEF PulseInv
  <2>6. CASE ~acrOff
    <3>1. PICK wait \in 0 .. Latency :
            passed = 1 \/ Remains - half - wait >= 1
      BY <1>2, <2>1, <2>4, <2>6 DEF PulseInv
    <3>2. passed = 1
      BY <2>2, <2>3, <2>4, <3>1
    <3>3. matchTmrEnable' = FALSE
      BY <1>2, <2>6, MatchIs
    <3>. QED BY <2>1, <3>2, <3>3 DEF PulseInv
  <2>. QED BY <2>5, <2>6
<1>. QED BY <1>1, <1>2

LEMMA HdInvIsSound ==
  ASSUME HdInv
  PROVE  HdTypeOK /\ TimerIsHeard /\ OnePulsePasses
<1>. USE DEF HdInv
<1>1. HdTypeOK
  BY DEF RegsInv
<1>2. TimerIsHeard
  <2>1. CASE matchTmrEnable
    <3>1. -tldr \in TimerPeriods /\ tldr \in Int /\ tmar \in Int
      BY DEF RegsInv, HdTypeOK
    <3>2. tmar < 0 /\ -(-tldr) <= tmar /\ tier = {"MAT"}
      BY <2>1, <3>1 DEF RoomInv, RegsInv
    <3>. QED BY <2>1, <3>1, <3>2 DEF TimerIsHeard
  <2>2. CASE ~matchTmrEnable
    BY <2>2 DEF RegsInv, TimerIsHeard
  <2>. QED BY <2>1, <2>2
<1>3. OnePulsePasses
  <2>. SUFFICES ASSUME whole PROVE passed <= 1 /\ ("OVF" \in tisr \cap tier => passed = 1)
    BY DEF OnePulsePasses
  <2>1. passed \in {0, 1} /\ (~matchTmrEnable => passed = 1)
    BY DEF PulseInv
  <2>2. "OVF" \in tier => ~matchTmrEnable
    BY DEF RegsInv
  <2>. QED BY <2>1, <2>2
<1>. QED BY <1>1, <1>2, <1>3

\* The watchdog and the workaround of HDMI do what the timers are for: nobody who is well
\* is reported and nobody dies unheard, the clock's interrupt stays on or comes, and one
\* pulse passes in each window; for every number of cores and every payload that fits,
\* where the host stops the workaround before it sends another payload.
THEOREM TimersTheorem ==
  ASSUME HostStopsFirst
  PROVE  WdSpec /\ HdSpec => []TimersAreSound
<1>1. ASSUME HdInv, [HdNext]_hdVars PROVE HdInv'
  <2>1. CASE Cycle
    BY <1>1, <2>1, CycleKeeps, CycleAims DEF HdInv
  <2>2. CASE HdmiTick
    BY <1>1, <2>2, HdmiTickKeeps, HdmiTickAims DEF HdInv
  <2>3. CASE HdTask
    BY <1>1, <2>3, HdTaskKeeps DEF HdInv
  <2>4. CASE (\E p \in Payloads : RecvSetup(p)) \/ RecvStop \/ RecvTrigger
    BY <1>1, <2>4, ReceiveKeeps
  <2>5. CASE UNCHANGED hdVars
    BY <1>1, <2>5 DEF hdVars, stateVars, timerVars, pulseVars, HdInv, RegsInv, HdTypeOK, RoomInv,
         AtHalf, AtReload, TaskInv, PulseInv, Remains
  <2>. QED BY <1>1, <2>1, <2>2, <2>3, <2>4, <2>5 DEF HdNext
<1>2. WatchIsSound /\ HdInv => TimersAreSound
  BY HdInvIsSound DEF TimersAreSound
<1>. QED BY <1>1, <1>2, HdStarts, WatchTheorem, PTL DEF HdSpec

-----------------------------------------------------------------------------
(***************************************************************************)
(* The trace: the system gate keeps the copying of one line together, and  *)
(* the numbers of the characters in a line are the last its core has given.*)
(***************************************************************************)
Bytes == [core : TraceCores, c : Chars \cup {"tag"}, n : Nat]

\* How many characters of a core have gone to the stream.
Gone(c) ==
  said[c] - Len(linebuf[c]) + IF putPc[c] = "copy" /\ copied[c] > 0 THEN copied[c] - 1 ELSE 0

TrcTypes ==
  /\ outbuf \in [0 .. BufSize - 1 -> Bytes \cup {Free}] /\ outidx \in Nat /\ writeidx \in Nat
  /\ linebuf \in [TraceCores -> Seq(Bytes)] /\ stream \in Seq(Bytes)
  /\ putPc \in [TraceCores -> {"out", "gate", "copy"}] /\ copied \in [TraceCores -> Nat]
  /\ gate \in TraceCores \cup {"free"} /\ said \in [TraceCores -> Nat]

\* Who copies has the gate; a line has the last of the characters of its core.
LineInv ==
  \A c \in TraceCores :
    /\ putPc[c] = "copy" <=> gate = c
    /\ putPc[c] = "copy" => copied[c] <= Len(linebuf[c]) + 1
    /\ Len(linebuf[c]) <= said[c]
    /\ \A i \in 1 .. Len(linebuf[c]) :
         IsChar(linebuf[c][i], c) /\ linebuf[c][i].n = said[c] - Len(linebuf[c]) + i

\* The characters in the stream are the first ones of each core; what is being copied
\* continues the last of the stream.
StreamInv ==
  /\ \A c \in TraceCores : \A i \in 1 .. Len(stream) : IsChar(stream[i], c) =>
       stream[i].n >= 1 /\ stream[i].n <= Gone(c)
  /\ \A c \in TraceCores : \A n \in 1 .. Gone(c) :
       \E i \in 1 .. Len(stream) : IsChar(stream[i], c) /\ stream[i].n = n
  /\ \A c \in TraceCores : putPc[c] = "copy" /\ copied[c] > 0 =>
       Len(stream) > 0 /\ stream[Len(stream)].core = c

TrcInv == TrcTypes /\ LineInv /\ StreamInv /\ TraceIsSound

LEMMA TrcStarts == TrcInit => TrcInv
<1>. SUFFICES ASSUME TrcInit PROVE TrcInv
  OBVIOUS
<1>. USE SysMinAssumption DEF TrcInit, Ring
<1>1. BufSize \in Nat /\ Reserved \in Nat /\ Ring \in Nat /\ Ring > 0 /\ Ring <= BufSize
  OBVIOUS
<1>2. TrcTypes
  BY <1>1 DEF TrcTypes
<1>3. Len(stream) = 0 /\ \A c \in TraceCores : Len(linebuf[c]) = 0 /\ putPc[c] = "out" /\ said[c] = 0
  OBVIOUS
<1>4. LineInv /\ StreamInv
  BY <1>3 DEF LineInv, StreamInv, Gone
<1>5. TrcTypeOK /\ LinesAreWhole
  BY <1>1, <1>3 DEF TrcTypeOK, LinesAreWhole
<1>. QED BY <1>2, <1>4, <1>5 DEF TrcInv, TraceIsSound

LEMMA PutchKeeps ==
  ASSUME TrcInv, NEW c \in TraceCores, NEW ch \in Chars, Putch(c, ch)
  PROVE  TrcInv'
<1>. DEFINE line == linebuf[c]
            b == Byte(c, ch, said[c] + 1)
<1>1. /\ putPc[c] = "out" /\ putPc' \in [TraceCores -> {"out", "gate", "copy"}]
      /\ putPc'[c] \in {"out", "gate"} /\ \A d \in TraceCores \ {c} : putPc'[d] = putPc[d]
      /\ said' = [said EXCEPT ![c] = said[c] + 1]
      /\ linebuf' = [linebuf EXCEPT ![c] = Append(line, b)]
      /\ UNCHANGED <<outbuf, outidx, writeidx, copied, gate, stream>>
  BY DEF Putch, PutGoto, TrcInv, TrcTypes
<1>2. line \in Seq(Bytes) /\ b \in Bytes /\ said[c] \in Nat /\ Len(line) \in Nat /\ b.n = said[c] + 1
      /\ IsChar(b, c)
  <2>1. line \in Seq(Bytes) /\ said[c] \in Nat /\ Len(line) \in Nat
    BY DEF TrcInv, TrcTypes
  <2>2. said[c] + 1 \in Nat /\ ch # "tag"
    BY <2>1 DEF Chars
  <2>3. b \in Bytes /\ b.core = c /\ b.c = ch /\ b.n = said[c] + 1
    BY <2>2 DEF Byte, Bytes
  <2>. QED BY <2>1, <2>2, <2>3 DEF IsChar
<1>3. /\ Append(line, b) \in Seq(Bytes) /\ Len(Append(line, b)) = Len(line) + 1
      /\ Append(line, b)[Len(line) + 1] = b
      /\ \A i \in 1 .. Len(line) : Append(line, b)[i] = line[i]
  BY <1>2, AppendProperties
<1>. HIDE DEF b
<1>4. /\ linebuf' \in [TraceCores -> Seq(Bytes)] /\ said' \in [TraceCores -> Nat]
      /\ linebuf'[c] = Append(line, b) /\ said'[c] = said[c] + 1
      /\ \A d \in TraceCores \ {c} : linebuf'[d] = linebuf[d] /\ said'[d] = said[d]
  BY <1>1, <1>2, <1>3 DEF TrcInv, TrcTypes
<1>. HIDE DEF line
<1>5. TrcTypes'
  BY <1>1, <1>4 DEF TrcInv, TrcTypes
<1>6. \A d \in TraceCores : Gone(d)' = Gone(d)
  BY <1>1, <1>2, <1>3, <1>4 DEF Gone, line
<1>7. LineInv'
  <2>. SUFFICES ASSUME NEW d \in TraceCores
                PROVE  /\ putPc'[d] = "copy" <=> gate' = d
                       /\ putPc'[d] = "copy" => copied'[d] <= Len(linebuf'[d]) + 1
                       /\ Len(linebuf'[d]) <= said'[d]
                       /\ \A i \in 1 .. Len(linebuf'[d]) :
                            IsChar(linebuf'[d][i], d) /\ linebuf'[d][i].n = said'[d] - Len(linebuf'[d]) + i
    BY DEF LineInv, IsChar
  <2>1. CASE d # c
    BY <1>1, <1>4, <2>1 DEF TrcInv, LineInv
  <2>2. CASE d = c
    <3>1. putPc'[c] # "copy" /\ gate' # c /\ Len(line) <= said[c]
      BY <1>1 DEF TrcInv, LineInv, line
    <3>2. ASSUME NEW i \in 1 .. Len(line) + 1
          PROVE  IsChar(Append(line, b)[i], c) /\ Append(line, b)[i].n = said[c] + 1 - (Len(line) + 1) + i
      <4>1. CASE i = Len(line) + 1
        BY <1>2, <1>3, <4>1
      <4>2. CASE i \in 1 .. Len(line)
        <5>1. IsChar(line[i], c) /\ line[i].n = said[c] - Len(line) + i
          BY <4>2 DEF TrcInv, LineInv, line
        <5>. QED BY <1>2, <1>3, <4>2, <5>1
      <4>. QED BY <1>2, <4>1, <4>2
    <3>3. linebuf'[d] = Append(line, b) /\ said'[d] = said[c] + 1
      BY <1>4, <2>2
    <3>4. Len(Append(line, b)) <= said[c] + 1
      BY <1>2, <1>3, <3>1
    <3>5. \A i \in 1 .. Len(Append(line, b)) :
            IsChar(Append(line, b)[i], c)
            /\ Append(line, b)[i].n = said[c] + 1 - Len(Append(line, b)) + i
      BY <1>3, <3>2
    <3>6. putPc'[d] # "copy" /\ gate' # d
      BY <2>2, <3>1
    <3>7. Len(linebuf'[d]) <= said'[d]
      BY <3>3, <3>4
    <3>8. \A i \in 1 .. Len(linebuf'[d]) :
            IsChar(linebuf'[d][i], d) /\ linebuf'[d][i].n = said'[d] - Len(linebuf'[d]) + i
      <4>1. PICK l, s : l = linebuf'[d] /\ s = said'[d]
        OBVIOUS
      <4>2. s \in Nat /\ Len(l) \in Nat /\ Len(l) = Len(line) + 1 /\ s = said[c] + 1 /\ l = Append(line, b)
        BY <1>2, <1>3, <3>3, <4>1
      <4>3. \A i \in 1 .. Len(l) : IsChar(l[i], d) /\ l[i].n = s - Len(l) + i
        <5>. SUFFICES ASSUME NEW i \in 1 .. Len(l) PROVE IsChar(l[i], d) /\ l[i].n = s - Len(l) + i
          OBVIOUS
        <5>1. IsChar(l[i], d) /\ l[i].n = said[c] + 1 - Len(l) + i
          BY <2>2, <3>5, <4>2
        <5>. QED BY <1>2, <4>2, <5>1
      <4>. QED BY <4>1, <4>3
    <3>. QED BY <3>6, <3>7, <3>8
  <2>. QED BY <2>1, <2>2
<1>8. StreamInv'
  BY <1>1, <1>6 DEF TrcInv, StreamInv, IsChar
<1>9. LinesAreWhole'
  <2>1. ASSUME NEW d \in TraceCores, NEW n \in 1 .. said'[d]
        PROVE  \/ \E i \in DOMAIN stream : IsChar(stream[i], d) /\ stream[i].n = n
               \/ \E i \in DOMAIN linebuf'[d] : linebuf'[d][i].n = n
    <3>1. CASE d # c
      BY <1>4, <2>1, <3>1 DEF TrcInv, TraceIsSound, LinesAreWhole
    <3>2. CASE d = c /\ n = said[c] + 1
      BY <1>2, <1>3, <1>4, <3>2
    <3>3. CASE d = c /\ n # said[c] + 1
      <4>1. n \in 1 .. said[c]
        BY <1>2, <1>4, <2>1, <3>3
      <4>2. CASE \E i \in DOMAIN stream : IsChar(stream[i], d) /\ stream[i].n = n
        BY <4>2
      <4>3. CASE \E i \in DOMAIN line : line[i].n = n
        BY <1>2, <1>3, <1>4, <3>3, <4>3
      <4>. QED BY <3>3, <4>1, <4>2, <4>3 DEF TrcInv, TraceIsSound, LinesAreWhole, line
    <3>. QED BY <3>1, <3>2, <3>3
  <2>2. \A d \in TraceCores : putPc'[d] = "copy" => putPc[d] = "copy"
    BY <1>1
  <2>. QED BY <1>1, <2>1, <2>2 DEF TrcInv, TraceIsSound, LinesAreWhole, IsChar, Back
<1>10. TrcTypeOK'
  BY <1>1 DEF TrcInv, TraceIsSound, TrcTypeOK, Back
<1>. QED BY <1>5, <1>7, <1>8, <1>9, <1>10 DEF TrcInv, TraceIsSound

LEMMA EnterGateKeeps ==
  ASSUME TrcInv, NEW c \in TraceCores, EnterGate(c)
  PROVE  TrcInv'
<1>1. /\ putPc[c] = "gate" /\ gate = "free" /\ gate' = c /\ copied' = [copied EXCEPT ![c] = 0]
      /\ putPc' = [putPc EXCEPT ![c] = "copy"]
      /\ UNCHANGED <<outbuf, outidx, writeidx, linebuf, said, stream>>
  BY DEF EnterGate, PutGoto
<1>2. \A d \in TraceCores : putPc[d] # "copy"
  BY <1>1, SysMinAssumption DEF TrcInv, LineInv
<1>3. /\ putPc'[c] = "copy" /\ copied'[c] = 0 /\ putPc \in [TraceCores -> {"out", "gate", "copy"}]
      /\ copied \in [TraceCores -> Nat]
      /\ \A d \in TraceCores \ {c} : putPc'[d] = putPc[d] /\ copied'[d] = copied[d]
  BY <1>1 DEF TrcInv, TrcTypes
<1>4. TrcTypes'
  BY <1>1 DEF TrcInv, TrcTypes
<1>5. \A d \in TraceCores : Gone(d)' = Gone(d)
  BY <1>1, <1>2, <1>3 DEF Gone
<1>6. LineInv'
  <2>1. \A d \in TraceCores : Len(linebuf[d]) \in Nat
    BY DEF TrcInv, TrcTypes
  <2>. QED BY <1>1, <1>2, <1>3, <2>1 DEF TrcInv, LineInv, IsChar
<1>7. StreamInv'
  <2>1. \A d \in TraceCores : ~(putPc'[d] = "copy" /\ copied'[d] > 0)
    BY <1>2, <1>3
  <2>. QED BY <1>1, <1>5, <2>1 DEF TrcInv, StreamInv, IsChar
<1>8. LinesAreWhole'
  <2>1. writeidx = outidx /\ outidx \in Nat
    BY <1>1 DEF TrcInv, TraceIsSound, LinesAreWhole, TrcTypes
  <2>2. \A d \in TraceCores : putPc'[d] = "copy" => writeidx = Back(outidx, copied'[d])
    BY <1>2, <1>3, <2>1 DEF Back
  <2>3. gate' # "free"
    BY <1>1, SysMinAssumption
  <2>. QED BY <1>1, <2>2, <2>3 DEF TrcInv, TraceIsSound, LinesAreWhole, IsChar, Back
<1>9. TrcTypeOK'
  BY <1>1 DEF TrcInv, TraceIsSound, TrcTypeOK, Back
<1>. QED BY <1>4, <1>6, <1>7, <1>8, <1>9 DEF TrcInv, TraceIsSound

\* The ring: one byte further on.
LEMMA BackAfter ==
  ASSUME NEW i \in Nat, i < Ring, NEW k \in 0 .. Ring
  PROVE  /\ k < Ring => Back(IndexAfter(i), k + 1) = Back(i, k)
         /\ IndexAfter(i) \in Nat /\ IndexAfter(i) < Ring /\ Back(IndexAfter(i), 1) = i
         /\ 0 < k /\ k < Ring => Back(i, k) # i
         /\ 0 < k => Back(i, k) \in 0 .. Ring - 1
BY SysMinAssumption DEF Ring, Back, IndexAfter

LEMMA OutputKeeps ==
  ASSUME TrcInv, NEW c \in TraceCores, Output(c)
  PROVE  TrcInv'
<1>. DEFINE k == copied[c]
            line == linebuf[c]
            x == IF k = 0 THEN Byte(c, "tag", 0) ELSE line[k]
            last == Len(stream) + 1
<1>1. /\ putPc[c] = "copy" /\ k <= Len(line)
      /\ outbuf' = [outbuf EXCEPT ![outidx] = x] /\ stream' = Append(stream, x)
      /\ outidx' = IndexAfter(outidx) /\ copied' = [copied EXCEPT ![c] = k + 1]
      /\ UNCHANGED <<writeidx, linebuf, putPc, gate, said>>
  BY DEF Output
<1>2. /\ gate = c /\ gate # "free" /\ \A d \in TraceCores \ {c} : putPc[d] # "copy"
      /\ line \in Seq(Bytes) /\ Len(line) \in Nat /\ k \in Nat /\ said[c] \in Nat /\ Len(line) <= said[c]
      /\ stream \in Seq(Bytes) /\ Len(stream) \in Nat /\ outidx \in Nat /\ outidx < Ring
      /\ copied \in [TraceCores -> Nat]
  BY <1>1, SysMinAssumption DEF TrcInv, TrcTypes, LineInv, TraceIsSound, TrcTypeOK
<1>3. /\ x \in Bytes /\ x.core = c
      /\ k = 0 => x.c = "tag"
      /\ k # 0 => IsChar(x, c) /\ x.n = said[c] - Len(line) + k
  <2>1. CASE k = 0
    BY <2>1 DEF Byte, Bytes
  <2>2. CASE k # 0
    <3>1. k \in 1 .. Len(line)
      BY <1>1, <1>2, <2>2
    <3>2. line[k] \in Bytes /\ IsChar(line[k], c) /\ line[k].n = said[c] - Len(line) + k
      BY <1>2, <3>1, ElementOfSeq DEF TrcInv, LineInv
    <3>. QED BY <2>2, <3>2 DEF IsChar
  <2>. QED BY <2>1, <2>2
<1>. HIDE DEF x
<1>4. /\ stream' \in Seq(Bytes) /\ Len(stream') = last /\ stream'[last] = x
      /\ \A i \in 1 .. Len(stream) : stream'[i] = stream[i]
      /\ last \in Nat /\ DOMAIN stream = 1 .. Len(stream) /\ DOMAIN stream' = 1 .. last
  BY <1>1, <1>2, <1>3, AppendProperties
<1>5. /\ copied'[c] = k + 1 /\ \A d \in TraceCores \ {c} : copied'[d] = copied[d]
  BY <1>1, <1>2
<1>. HIDE DEF k, line, last
<1>6. /\ \A d \in TraceCores \ {c} : Gone(d)' = Gone(d)
      /\ Gone(c) \in Nat /\ Gone(c)' \in Nat
      /\ k = 0 => Gone(c)' = Gone(c)
      /\ k # 0 => Gone(c)' = Gone(c) + 1 /\ x.n = Gone(c)'
  <2>1. \A d \in TraceCores \ {c} : Gone(d)' = Gone(d)
    BY <1>1, <1>2, <1>5 DEF Gone
  <2>2. Gone(c) = said[c] - Len(line) + IF k > 0 THEN k - 1 ELSE 0
    BY <1>1 DEF Gone, k, line
  <2>3. Gone(c)' = said[c] - Len(line) + k
    BY <1>1, <1>2, <1>5 DEF Gone, line
  <2>. QED BY <1>2, <1>3, <2>1, <2>2, <2>3
<1>7. TrcTypes'
  <2>1. outbuf' \in [0 .. BufSize - 1 -> Bytes \cup {Free}]
    BY <1>1, <1>3 DEF TrcInv, TrcTypes
  <2>2. outidx' \in Nat
    <3>1. 0 \in 0 .. Ring
      BY SysMinAssumption DEF Ring
    <3>. QED BY <1>1, <1>2, <3>1, BackAfter
  <2>3. copied' \in [TraceCores -> Nat]
    BY <1>1, <1>2
  <2>. QED BY <1>1, <1>4, <2>1, <2>2, <2>3 DEF TrcInv, TrcTypes
<1>8. LineInv'
  BY <1>1, <1>2, <1>5 DEF TrcInv, LineInv, IsChar, k, line
<1>9. StreamInv'
  <2>1. ASSUME NEW d \in TraceCores, NEW i \in 1 .. last, IsChar(stream'[i], d)
        PROVE  stream'[i].n >= 1 /\ stream'[i].n <= Gone(d)'
    <3>1. CASE i = last
      <4>1. k # 0 /\ stream'[i] = x /\ d = c
        BY <1>3, <1>4, <2>1, <3>1 DEF IsChar
      <4>2. x.n >= 1 /\ x.n <= Gone(c)'
        BY <1>6, <4>1
      <4>. QED BY <4>1, <4>2
    <3>2. CASE i # last
      <4>1. i \in 1 .. Len(stream) /\ stream'[i] = stream[i] /\ stream[i].n \in Nat
        <5>1. i \in 1 .. Len(stream)
          BY <1>2, <3>2 DEF last
        <5>2. stream[i] \in Bytes
          BY <1>2, <5>1, ElementOfSeq
        <5>. QED BY <1>4, <5>1, <5>2 DEF Bytes
      <4>2. stream[i].n >= 1 /\ stream[i].n <= Gone(d)
        BY <2>1, <4>1 DEF TrcInv, StreamInv
      <4>3. Gone(d)' = Gone(d) \/ (d = c /\ Gone(d)' = Gone(d) + 1 /\ Gone(c) \in Nat)
        BY <1>6
      <4>. QED BY <4>1, <4>2, <4>3
    <3>. QED BY <3>1, <3>2
  <2>2. ASSUME NEW d \in TraceCores, NEW n \in 1 .. Gone(d)'
        PROVE  \E i \in 1 .. last : IsChar(stream'[i], d) /\ stream'[i].n = n
    <3>1. CASE d = c /\ k # 0 /\ n = Gone(c)'
      <4>1. last \in 1 .. last
        BY <1>2 DEF last
      <4>. QED BY <1>3, <1>4, <1>6, <3>1, <4>1
    <3>2. CASE ~(d = c /\ k # 0 /\ n = Gone(c)')
      <4>1. n \in 1 .. Gone(d)
        BY <1>6, <2>2, <3>2
      <4>2. PICK i \in 1 .. Len(stream) : IsChar(stream[i], d) /\ stream[i].n = n
        BY <4>1 DEF TrcInv, StreamInv
      <4>. QED BY <1>2, <1>4, <4>2 DEF last
    <3>. QED BY <3>1, <3>2
  <2>3. ASSUME NEW d \in TraceCores, putPc[d] = "copy"
        PROVE  Len(stream') > 0 /\ stream'[Len(stream')].core = d
    BY <1>2, <1>3, <1>4, <2>3 DEF last
  <2>. QED BY <1>1, <1>4, <2>1, <2>2, <2>3 DEF StreamInv, IsChar
<1>10. LinesAreWhole'
  <2>1. ASSUME NEW i \in DOMAIN stream', stream'[i].c # "tag"
        PROVE  i > 1 /\ stream'[i - 1].core = stream'[i].core
    <3>1. CASE i = last
      <4>1. k # 0 /\ Len(stream) > 0 /\ stream[Len(stream)].core = c
        BY <1>1, <1>2, <1>3, <1>4, <2>1, <3>1 DEF TrcInv, StreamInv, k
      <4>2. i > 1 /\ i - 1 = Len(stream) /\ i - 1 \in 1 .. Len(stream)
        BY <1>2, <3>1, <4>1 DEF last
      <4>. QED BY <1>3, <1>4, <3>1, <4>1, <4>2
    <3>2. CASE i # last
      <4>1. i \in 1 .. Len(stream) /\ stream'[i] = stream[i]
        BY <1>2, <1>4, <3>2 DEF last
      <4>2. i > 1 /\ stream[i - 1].core = stream[i].core
        BY <1>4, <2>1, <4>1 DEF TrcInv, TraceIsSound, LinesAreWhole
      <4>3. stream'[i - 1] = stream[i - 1]
        BY <1>2, <1>4, <4>1, <4>2
      <4>. QED BY <4>1, <4>2, <4>3
    <3>. QED BY <3>1, <3>2
  <2>2. ASSUME NEW d \in TraceCores, NEW j \in DOMAIN stream', NEW i \in 1 .. j - 1,
               IsChar(stream'[i], d), IsChar(stream'[j], d)
        PROVE  stream'[i].n < stream'[j].n
    <3>1. i \in 1 .. Len(stream) /\ stream'[i] = stream[i] /\ stream[i].n \in Nat
      <4>1. i \in 1 .. Len(stream)
        BY <1>2, <1>4 DEF last
      <4>2. stream[i] \in Bytes
        BY <1>2, <4>1, ElementOfSeq
      <4>. QED BY <1>4, <4>1, <4>2 DEF Bytes
    <3>2. CASE j = last
      <4>1. d = c /\ k # 0 /\ stream'[j] = x
        BY <1>3, <1>4, <2>2, <3>2 DEF IsChar
      <4>2. stream[i].n <= Gone(c)
        BY <2>2, <3>1, <4>1 DEF TrcInv, StreamInv, IsChar
      <4>. QED BY <1>6, <3>1, <4>1, <4>2
    <3>3. CASE j # last
      <4>1. j \in 1 .. Len(stream) /\ stream'[j] = stream[j]
        BY <1>2, <1>4, <3>3 DEF last
      <4>. QED BY <1>4, <2>2, <3>1, <4>1 DEF TrcInv, TraceIsSound, LinesAreWhole
    <3>. QED BY <3>2, <3>3
  <2>3. ASSUME NEW d \in TraceCores, NEW n \in 1 .. said[d]
        PROVE  \/ \E i \in DOMAIN stream' : IsChar(stream'[i], d) /\ stream'[i].n = n
               \/ \E i \in DOMAIN linebuf[d] : linebuf[d][i].n = n
    <3>1. CASE \E i \in DOMAIN linebuf[d] : linebuf[d][i].n = n
      BY <3>1
    <3>2. ASSUME NEW i \in DOMAIN stream, IsChar(stream[i], d), stream[i].n = n
          PROVE  \E j \in DOMAIN stream' : IsChar(stream'[j], d) /\ stream'[j].n = n
      BY <1>2, <1>4, <3>2 DEF last
    <3>. QED BY <3>1, <3>2 DEF TrcInv, TraceIsSound, LinesAreWhole
  <2>4. ASSUME NEW d \in TraceCores, putPc[d] = "copy", copied'[d] <= Ring
        PROVE  writeidx = Back(outidx', copied'[d])
    <3>1. d = c /\ k + 1 <= Ring
      BY <1>2, <1>5, <2>4
    <3>2. Ring \in Nat
      BY SysMinAssumption DEF Ring
    <3>3. k \in 0 .. Ring /\ k < Ring
      BY <1>2, <3>1, <3>2
    <3>4. writeidx = Back(outidx, k)
      BY <1>1, <3>3 DEF TrcInv, TraceIsSound, LinesAreWhole, k
    <3>5. Back(IndexAfter(outidx), k + 1) = Back(outidx, k)
      BY <1>2, <3>3, BackAfter
    <3>. QED BY <1>1, <1>5, <3>1, <3>4, <3>5
  <2>5. gate' # "free" /\ UNCHANGED <<said, linebuf, putPc, writeidx>>
    BY <1>1, <1>2
  <2>6. \A d \in TraceCores : putPc'[d] = "copy" /\ copied'[d] <= Ring => writeidx' = Back(outidx, copied[d])'
    BY <2>4, <2>5 DEF Back
  <2>. QED BY <2>1, <2>2, <2>3, <2>5, <2>6 DEF LinesAreWhole, IsChar
<1>11. TrcTypeOK'
  <2>1. Ring \in Nat /\ Ring > 0 /\ Ring <= BufSize /\ BufSize \in Nat
    BY SysMinAssumption DEF Ring
  <2>2. outidx' < Ring /\ writeidx' < Ring
    BY <1>1, <1>2, <2>1, BackAfter DEF TrcInv, TraceIsSound, TrcTypeOK
  <2>3. /\ outbuf'[outidx] = x
        /\ \A i \in 0 .. BufSize - 1 : i # outidx => outbuf'[i] = outbuf[i]
    BY <1>1, <1>2, <2>1 DEF TrcInv, TrcTypes
  <2>4. \A i \in Ring .. BufSize - 1 : outbuf'[i] = Free
    BY <1>2, <2>1, <2>3 DEF TrcInv, TraceIsSound, TrcTypeOK
  <2>5. ASSUME NEW j \in 1 .. Ring, j <= Len(stream')
        PROVE  outbuf'[Back(outidx', j)] = stream'[Len(stream') + 1 - j]
    <3>1. CASE j = 1
      <4>1. Back(outidx', 1) = outidx /\ Len(stream') + 1 - 1 = last
        BY <1>1, <1>2, <1>4, <2>1, BackAfter
      <4>. QED BY <1>4, <2>3, <3>1, <4>1
    <3>2. CASE j # 1
      <4>. DEFINE h == j - 1
      <4>1. h \in 1 .. Ring /\ h < Ring /\ h \in 0 .. Ring /\ j = h + 1 /\ h <= Len(stream)
        BY <1>2, <1>4, <2>1, <2>5, <3>2 DEF last
      <4>. HIDE DEF h
      <4>2. Back(outidx', j) = Back(outidx, h) /\ Back(outidx, h) # outidx
            /\ Back(outidx, h) \in 0 .. BufSize - 1
        <5>1. Back(IndexAfter(outidx), h + 1) = Back(outidx, h) /\ Back(outidx, h) # outidx
              /\ Back(outidx, h) \in 0 .. Ring - 1
          BY <1>2, <4>1, BackAfter
        <5>. QED BY <1>1, <2>1, <4>1, <5>1
      <4>3. outbuf[Back(outidx, h)] = stream[Len(stream) + 1 - h]
        BY <4>1 DEF TrcInv, TraceIsSound, TrcTypeOK
      <4>4. Len(stream') + 1 - j = Len(stream) + 1 - h /\ Len(stream) + 1 - h \in 1 .. Len(stream)
        BY <1>2, <1>4, <4>1 DEF last
      <4>. QED BY <1>4, <2>3, <4>2, <4>3, <4>4
    <3>. QED BY <3>1, <3>2
  <2>. QED BY <2>2, <2>4, <2>5 DEF TrcTypeOK, Back
<1>. QED BY <1>7, <1>8, <1>9, <1>10, <1>11 DEF TrcInv, TraceIsSound

LEMMA PublishKeeps ==
  ASSUME TrcInv, NEW c \in TraceCores, Publish(c)
  PROVE  TrcInv'
<1>1. /\ putPc[c] = "copy" /\ copied[c] > Len(linebuf[c]) /\ writeidx' = outidx
      /\ linebuf' = [linebuf EXCEPT ![c] = <<>>] /\ gate' = "free"
      /\ putPc' = [putPc EXCEPT ![c] = "out"]
      /\ UNCHANGED <<outbuf, outidx, copied, said, stream>>
  BY DEF Publish, PutGoto
<1>2. /\ gate = c /\ \A d \in TraceCores \ {c} : putPc[d] # "copy"
      /\ Len(linebuf[c]) \in Nat /\ copied[c] \in Nat /\ copied[c] = Len(linebuf[c]) + 1 /\ said[c] \in Nat
      /\ outidx \in Nat /\ outidx < Ring
  BY <1>1 DEF TrcInv, TrcTypes, LineInv, TraceIsSound, TrcTypeOK
<1>3. /\ linebuf'[c] = <<>> /\ Len(linebuf'[c]) = 0 /\ putPc'[c] = "out"
      /\ \A d \in TraceCores \ {c} : linebuf'[d] = linebuf[d] /\ putPc'[d] = putPc[d]
      /\ \A d \in TraceCores : putPc'[d] # "copy"
  BY <1>1, <1>2 DEF TrcInv, TrcTypes
<1>4. TrcTypes'
  <2>1. <<>> \in Seq(Bytes)
    OBVIOUS
  <2>. QED BY <1>1, <2>1 DEF TrcInv, TrcTypes
<1>5. Gone(c) = said[c] /\ \A d \in TraceCores : Gone(d)' = Gone(d)
  <2>1. Gone(c) = said[c]
    BY <1>1, <1>2 DEF Gone
  <2>2. Gone(c)' = said[c]
    BY <1>1, <1>2, <1>3 DEF Gone
  <2>. QED BY <1>1, <1>3, <2>1, <2>2 DEF Gone
<1>6. LineInv'
  BY <1>1, <1>2, <1>3, SysMinAssumption DEF TrcInv, LineInv, IsChar
<1>7. StreamInv'
  BY <1>1, <1>3, <1>5 DEF TrcInv, StreamInv, IsChar
<1>8. LinesAreWhole'
  <2>1. ASSUME NEW d \in TraceCores, NEW n \in 1 .. said[d]
        PROVE  \/ \E i \in DOMAIN stream : IsChar(stream[i], d) /\ stream[i].n = n
               \/ \E i \in DOMAIN linebuf'[d] : linebuf'[d][i].n = n
    <3>1. CASE d = c
      <4>1. DOMAIN stream = 1 .. Len(stream)
        BY DEF TrcInv, TrcTypes
      <4>. QED BY <1>5, <2>1, <3>1, <4>1 DEF TrcInv, StreamInv
    <3>2. CASE d # c
      BY <1>3, <2>1, <3>2 DEF TrcInv, TraceIsSound, LinesAreWhole
    <3>. QED BY <3>1, <3>2
  <2>. QED BY <1>1, <1>3, <2>1 DEF TrcInv, TraceIsSound, LinesAreWhole, IsChar, Back
<1>9. TrcTypeOK'
  BY <1>1, <1>2 DEF TrcInv, TraceIsSound, TrcTypeOK, Back
<1>. QED BY <1>4, <1>6, <1>7, <1>8, <1>9 DEF TrcInv, TraceIsSound

\* Whatever the cores output, and however they come into one another's way, the host finds
\* whole lines in the ring, each behind its tag, with every character once and in order; for
\* any cores, lines and ring.
THEOREM TraceTheorem == TrcSpec => []TraceIsSound
<1>1. ASSUME TrcInv, [TrcNext]_trcVars PROVE TrcInv'
  <2>1. CASE UNCHANGED trcVars
    <3>. USE <1>1, <2>1 DEF trcVars
    <3>1. TrcTypes' /\ LineInv'
      BY DEF TrcInv, TrcTypes, LineInv, IsChar
    <3>2. StreamInv'
      BY DEF TrcInv, StreamInv, Gone, IsChar
    <3>3. TrcTypeOK'
      BY DEF TrcInv, TraceIsSound, TrcTypeOK, Back
    <3>4. LinesAreWhole'
      BY DEF TrcInv, TraceIsSound, LinesAreWhole, IsChar, Back
    <3>. QED BY <3>1, <3>2, <3>3, <3>4 DEF TrcInv, TraceIsSound
  <2>. QED BY <1>1, <2>1, PutchKeeps, EnterGateKeeps, OutputKeeps, PublishKeeps DEF TrcNext
<1>2. TrcInv => TraceIsSound
  BY DEF TrcInv
<1>. QED BY <1>1, <1>2, TrcStarts, PTL DEF TrcSpec

-----------------------------------------------------------------------------
(***************************************************************************)
(* For any modules, however loads nest and in whatever order they are      *)
(* undone: the list of the records in target memory.                       *)
(***************************************************************************)

RecordTypes == [handle : Nat, at : Records, next : Nat, segments : Seq(RecordSegments)]

DebugTypes ==
  /\ debugHandle \in Nat
  /\ debugStack \in Seq(Seq(RecordSegments))
  /\ mirrorList \in Seq(RecordTypes)
  /\ targetRecord \in [Records -> [next : Nat, segments : Seq(RecordSegments)]]

\* The handles in the list have been given out.
HandlesInv == \A i \in 1 .. Len(mirrorList) : mirrorList[i].handle <= debugHandle

\* DebugListIsWhole, of any list, header and memory.
Whole(list, header, memory) ==
  /\ header = IF list = <<>> THEN NoRecord ELSE list[1].at
  /\ \A i \in 1 .. Len(list) - 1 :
       memory[list[i].at].next = list[i + 1].at /\ list[i].next = list[i + 1].at
  /\ list # <<>> => list[Len(list)].next = NoRecord
  /\ \A i \in 1 .. Len(list) : memory[list[i].at].segments = list[i].segments
  /\ \A i, j \in 1 .. Len(list) : i < j => list[i].handle # list[j].handle /\ list[i].at # list[j].at

IsNew(list, at, h) == \A i \in 1 .. Len(list) : list[i].at # at /\ list[i].handle # h

IsLonger(list2, list, h) ==
  /\ list2 \in Seq(RecordTypes) /\ Len(list2) = Len(list) + 1
  /\ \A i \in 1 .. Len(list) : list2[i].handle = list[i].handle
  /\ list2[Len(list) + 1].handle = h

\* What AddTargetRecord and RmTargetRecord do to them.
Lengthened(list, at, handle, segs) ==
  (IF list = <<>> THEN <<>> ELSE [list EXCEPT ![Len(list)].next = at])
    \o <<[handle |-> handle, at |-> at, next |-> NoRecord, segments |-> segs]>>

Noted(list, memory, at, segs) ==
  [r \in Records |->
     IF r = at THEN [memory[r] EXCEPT !.segments = segs]
     ELSE IF list # <<>> /\ r = list[Len(list)].at THEN [memory[r] EXCEPT !.next = at]
     ELSE memory[r]]

Shortened(list, k) ==
  RemoveAt(IF k = 1 THEN list ELSE [list EXCEPT ![k - 1].next = list[k].next], k)

PassedOver(list, memory, k) ==
  IF k = 1 THEN memory ELSE [memory EXCEPT ![list[k - 1].at].next = list[k].next]

DebugInv == DebugTypes /\ HandlesInv /\ Whole(mirrorList, listHeader, targetRecord)

-----------------------------------------------------------------------------
\* What a record that is put at the end does to the list.
LEMMA WholeAppend ==
  ASSUME NEW list \in Seq(RecordTypes), NEW header, NEW memory, NEW at \in Records,
         NEW h \in Nat, NEW segs \in Seq(RecordSegments), NEW list2, NEW memory2,
         memory \in [Records -> [next : Nat, segments : Seq(RecordSegments)]],
         Whole(list, header, memory), IsNew(list, at, h),
         list2 = Lengthened(list, at, h, segs), memory2 = Noted(list, memory, at, segs)
  PROVE  /\ IsLonger(list2, list, h)
         /\ memory2 \in [Records -> [next : Nat, segments : Seq(RecordSegments)]]
         /\ Whole(list2, IF list = <<>> THEN at ELSE header, memory2)
<1>. DEFINE n == Len(list)
            d == [handle |-> h, at |-> at, next |-> NoRecord, segments |-> segs]
            front == IF list = <<>> THEN <<>> ELSE [list EXCEPT ![n].next = at]
<1>0. n \in Nat /\ (list = <<>> <=> n = 0) /\ at \in Nat \ {0}
  BY DebugAssumption DEF DebugAssumption, Records
<1>. USE DEF IsNew
<1>1. d \in RecordTypes
  BY <1>0 DEF RecordTypes, NoRecord
<1>2. /\ front \in Seq(RecordTypes) /\ Len(front) = n
      /\ \A i \in 1 .. n : front[i] = IF i = n THEN [list[i] EXCEPT !.next = at] ELSE list[i]
  <2>1. CASE list = <<>>
    BY <1>0, <2>1
  <2>2. CASE list # <<>>
    <3>1. n \in 1 .. n /\ list[n] \in RecordTypes
      BY <1>0, <2>2
    <3>2. [list[n] EXCEPT !.next = at] \in RecordTypes
      BY <1>0, <3>1 DEF RecordTypes
    <3>3. front = [list EXCEPT ![n] = [list[n] EXCEPT !.next = at]]
      BY <2>2
    <3>. HIDE DEF front, n
    <3>4. /\ front \in Seq(RecordTypes) /\ Len(front) = Len(list)
          /\ \A i \in 1 .. Len(list) : front[i] = IF i = n THEN [list[n] EXCEPT !.next = at] ELSE list[i]
      <4>1. n \in 1 .. Len(list)
        BY <3>1 DEF n
      <4>. QED BY <3>2, <3>3, <4>1, ExceptSeq
    <3>. QED BY <3>4 DEF n
  <2>. QED BY <2>1, <2>2
<1>3. <<d>> \in Seq(RecordTypes) /\ Len(<<d>>) = 1 /\ <<d>>[1] = d
  BY <1>1
<1>4. list2 = front \o <<d>>
  BY DEF Lengthened
<1>5. /\ list2 \in Seq(RecordTypes) /\ Len(list2) = n + 1
      /\ \A i \in 1 .. n : list2[i] = IF i = n THEN [list[i] EXCEPT !.next = at] ELSE list[i]
      /\ list2[n + 1] = d
  <2>. HIDE DEF front, d
  <2>1. /\ list2 \in Seq(RecordTypes) /\ Len(list2) = n + 1
        /\ \A i \in 1 .. n + 1 : list2[i] = IF i <= n THEN front[i] ELSE <<d>>[i - n]
    BY <1>2, <1>3, <1>4, ConcatProperties
  <2>2. list2[n + 1] = d
    <3>1. n + 1 \in 1 .. n + 1 /\ ~(n + 1 <= n) /\ (n + 1) - n = 1
      BY <1>0
    <3>. QED BY <1>3, <2>1, <3>1
  <2>3. \A i \in 1 .. n : i \in 1 .. n + 1 /\ i <= n
    BY <1>0
  <2>. QED BY <1>2, <2>1, <2>2, <2>3
<1>6. ASSUME NEW i \in 1 .. n
      PROVE  /\ list[i] \in RecordTypes /\ list[i].at \in Records
             /\ list2[i].handle = list[i].handle /\ list2[i].at = list[i].at
             /\ list2[i].segments = list[i].segments
             /\ list2[i].next = IF i = n THEN at ELSE list[i].next
  <2>1. list[i] \in RecordTypes
    OBVIOUS
  <2>. QED BY <1>5, <2>1 DEF RecordTypes
<1>7. ASSUME NEW i \in 1 .. n
      PROVE  /\ memory2[list[i].at].segments = memory[list[i].at].segments
             /\ memory2[list[i].at].next = IF i = n THEN at ELSE memory[list[i].at].next
  <2>1. list[i].at \in Records /\ list[i].at # at /\ list # <<>>
    BY <1>0, <1>6
  <2>2. memory2[list[i].at] = IF list[i].at = list[n].at THEN [memory[list[i].at] EXCEPT !.next = at]
                              ELSE memory[list[i].at]
    BY <2>1 DEF Noted
  <2>3. i # n => list[i].at # list[n].at
    <3>1. i # n => i < n /\ n \in 1 .. n
      BY <1>0
    <3>. QED BY <3>1 DEF Whole
  <2>4. memory[list[i].at] \in [next : Nat, segments : Seq(RecordSegments)]
    BY <2>1
  <2>. QED BY <2>2, <2>3, <2>4
<1>8. memory2 \in [Records -> [next : Nat, segments : Seq(RecordSegments)]] /\ memory2[at].segments = segs
  <2>1. ASSUME NEW r \in Records
        PROVE  /\ memory[r] \in [next : Nat, segments : Seq(RecordSegments)]
               /\ [memory[r] EXCEPT !.segments = segs] \in [next : Nat, segments : Seq(RecordSegments)]
               /\ [memory[r] EXCEPT !.next = at] \in [next : Nat, segments : Seq(RecordSegments)]
               /\ [memory[r] EXCEPT !.segments = segs].segments = segs
    <3>1. memory[r] \in [next : Nat, segments : Seq(RecordSegments)]
      OBVIOUS
    <3>. QED BY <1>0, <3>1
  <2>. QED BY <2>1 DEF Noted
<1>. DEFINE header2 == IF list = <<>> THEN at ELSE header
<1>9. d.at = at /\ d.handle = h /\ d.next = NoRecord /\ d.segments = segs
  OBVIOUS
<1>. HIDE DEF d, front
<1>10. Whole(list2, header2, memory2)
  <2>1. header2 = IF list2 = <<>> THEN NoRecord ELSE list2[1].at
    <3>1. list2 # <<>>
      BY <1>0, <1>5
    <3>2. CASE list = <<>>
      <4>1. list2[1] = d
        BY <1>0, <1>5, <3>2
      <4>. QED BY <3>1, <3>2, <4>1, <1>9
    <3>3. CASE list # <<>>
      <4>1. 1 \in 1 .. n
        BY <1>0, <3>3
      <4>. QED BY <1>6, <3>1, <3>3, <4>1 DEF Whole
    <3>. QED BY <3>2, <3>3
  <2>2. ASSUME NEW i \in 1 .. n
        PROVE  memory2[list2[i].at].next = list2[i + 1].at /\ list2[i].next = list2[i + 1].at
    <3>1. CASE i = n
      <4>1. list2[i + 1].at = at
        BY <1>5, <1>9, <3>1
      <4>. QED BY <1>6, <1>7, <3>1, <4>1
    <3>2. CASE i # n
      <4>1. i \in 1 .. n - 1 /\ i + 1 \in 1 .. n
        BY <1>0, <3>2
      <4>2. list2[i + 1].at = list[i + 1].at
        BY <1>6, <4>1
      <4>3. memory[list[i].at].next = list[i + 1].at /\ list[i].next = list[i + 1].at
        BY <4>1 DEF Whole
      <4>. QED BY <1>6, <1>7, <3>2, <4>2, <4>3
    <3>. QED BY <3>1, <3>2
  <2>3. list2[n + 1].next = NoRecord
    BY <1>5, <1>9
  <2>4. \A i \in 1 .. n + 1 : i \in 1 .. n \/ i = n + 1
    BY <1>0
  <2>5. ASSUME NEW i \in 1 .. n + 1 PROVE memory2[list2[i].at].segments = list2[i].segments
    <3>1. CASE i \in 1 .. n
      <4>1. memory[list[i].at].segments = list[i].segments
        BY <3>1 DEF Whole
      <4>2. list2[i].at = list[i].at /\ list2[i].segments = list[i].segments
        BY <1>6, <3>1
      <4>3. memory2[list[i].at].segments = memory[list[i].at].segments
        BY <1>7, <3>1
      <4>. QED BY <4>1, <4>2, <4>3
    <3>2. CASE i = n + 1
      BY <1>5, <1>8, <1>9, <3>2
    <3>. QED BY <2>4, <3>1, <3>2
  <2>6. ASSUME NEW i \in 1 .. n + 1, NEW j \in 1 .. n + 1, i < j
        PROVE  list2[i].handle # list2[j].handle /\ list2[i].at # list2[j].at
    <3>1. i \in 1 .. n
      BY <1>0, <2>6
    <3>2. CASE j \in 1 .. n
      BY <1>6, <2>6, <3>1, <3>2 DEF Whole
    <3>3. CASE j = n + 1
      <4>1. list2[j].handle = h /\ list2[j].at = at
        BY <1>5, <1>9, <3>3
      <4>. QED BY <1>6, <3>1, <4>1
    <3>. QED BY <2>4, <3>2, <3>3
  <2>7. (n + 1) - 1 = n
    BY <1>0
  <2>. HIDE DEF header2
  <2>. QED BY <1>5, <2>1, <2>2, <2>3, <2>5, <2>6, <2>7 DEF Whole
<1>. QED BY <1>5, <1>6, <1>8, <1>9, <1>10 DEF IsLonger

\* What the removal of one record does to it.
LEMMA WholeRemove ==
  ASSUME NEW list \in Seq(RecordTypes), NEW header, NEW memory, NEW k \in 1 .. Len(list),
         NEW list2, NEW memory2,
         memory \in [Records -> [next : Nat, segments : Seq(RecordSegments)]],
         Whole(list, header, memory),
         list2 = Shortened(list, k), memory2 = PassedOver(list, memory, k)
  PROVE  /\ list2 \in Seq(RecordTypes) /\ Len(list2) = Len(list) - 1
         /\ \A i \in 1 .. Len(list) - 1 : list2[i].handle = list[IF i < k THEN i ELSE i + 1].handle
         /\ memory2 \in [Records -> [next : Nat, segments : Seq(RecordSegments)]]
         /\ Whole(list2, IF k = 1 THEN list[k].next ELSE header, memory2)
<1>. DEFINE n == Len(list)
            after == list[k].next
            front == IF k = 1 THEN list ELSE [list EXCEPT ![k - 1].next = after]
            P(i) == IF i < k THEN i ELSE i + 1
            header2 == IF k = 1 THEN after ELSE header
<1>0. n \in Nat \ {0} /\ k \in Nat /\ 1 <= k /\ k <= n
  OBVIOUS
<1>1. \A i \in 1 .. n : list[i] \in RecordTypes /\ list[i].at \in Records /\ list[i].next \in Nat
  <2>1. \A i \in 1 .. n : list[i] \in RecordTypes
    OBVIOUS
  <2>. QED BY <2>1 DEF RecordTypes
<1>2. after \in Nat /\ after = IF k = n THEN NoRecord ELSE list[k + 1].at
  <2>1. after \in Nat
    BY <1>1
  <2>2. CASE k = n
    BY <1>0, <2>1, <2>2 DEF Whole
  <2>3. CASE k # n
    <3>1. k \in 1 .. n - 1
      BY <1>0, <2>3
    <3>. QED BY <2>1, <2>3, <3>1 DEF Whole
  <2>. QED BY <2>2, <2>3
<1>3. /\ front \in Seq(RecordTypes) /\ Len(front) = n
      /\ \A i \in 1 .. n : front[i] = IF i = k - 1 THEN [list[i] EXCEPT !.next = after] ELSE list[i]
  <2>1. CASE k = 1
    <3>1. \A i \in 1 .. n : i # k - 1
      BY <1>0, <2>1
    <3>. QED BY <2>1, <3>1
  <2>2. CASE k # 1
    <3>1. k - 1 \in 1 .. n
      BY <1>0, <2>2
    <3>. DEFINE q == k - 1
    <3>2. list[q] \in RecordTypes
      BY <1>1, <3>1
    <3>3. [list[q] EXCEPT !.next = after] \in RecordTypes
      BY <1>2, <3>2 DEF RecordTypes
    <3>4. front = [list EXCEPT ![q] = [list[q] EXCEPT !.next = after]]
      BY <2>2
    <3>. HIDE DEF front, after
    <3>. HIDE DEF q
    <3>5. q \in 1 .. n
      BY <3>1 DEF q
    <3>6. /\ front \in Seq(RecordTypes) /\ Len(front) = n
          /\ \A i \in 1 .. n : front[i] = IF i = q THEN [list[q] EXCEPT !.next = after] ELSE list[i]
      BY <3>3, <3>4, <3>5, ExceptSeq
    <3>. QED BY <3>6 DEF q
  <2>. QED BY <2>1, <2>2
<1>4. /\ list2 \in Seq(RecordTypes) /\ Len(list2) = n - 1
      /\ \A i \in 1 .. n - 1 : list2[i] = front[P(i)]
  <2>1. list2 = RemoveAt(front, k)
    BY DEF Shortened
  <2>. HIDE DEF front
  <2>2. k \in DOMAIN front
    BY <1>3
  <2>3. /\ list2 \in Seq(RecordTypes) /\ Len(list2) = n - 1
        /\ \A i \in 1 .. n - 1 : list2[i] = IF i < k THEN front[i] ELSE front[i + 1]
    <3>1. /\ RemoveAt(front, k) \in Seq(RecordTypes)
          /\ Len(RemoveAt(front, k)) = Len(front) - 1
          /\ \A i \in 1 .. Len(front) - 1 :
               RemoveAt(front, k)[i] = IF i < k THEN front[i] ELSE front[i + 1]
      BY <1>3, <2>2, RemoveAtIs
    <3>. QED BY <1>3, <2>1, <3>1
  <2>. QED BY <2>3
<1>. HIDE DEF front, after
<1>5. ASSUME NEW i \in 1 .. n - 1
      PROVE  /\ P(i) \in 1 .. n /\ P(i) # k /\ (P(i) = k - 1 <=> i = k - 1)
             /\ i + 1 \in 1 .. n - 1 =>
                  IF i = k - 1 THEN k # n /\ P(i + 1) = k + 1
                  ELSE P(i) \in 1 .. n - 1 /\ P(i + 1) = P(i) + 1
  BY <1>0
<1>6. ASSUME NEW i \in 1 .. n - 1
      PROVE  /\ list2[i].handle = list[P(i)].handle /\ list2[i].at = list[P(i)].at
             /\ list2[i].segments = list[P(i)].segments
             /\ list2[i].next = IF i = k - 1 THEN after ELSE list[P(i)].next
  <2>1. list[P(i)] \in RecordTypes /\ P(i) \in 1 .. n /\ (P(i) = k - 1 <=> i = k - 1)
    BY <1>1, <1>5
  <2>2. list2[i] = IF i = k - 1 THEN [list[P(i)] EXCEPT !.next = after] ELSE list[P(i)]
    BY <1>3, <1>4, <2>1
  <2>. HIDE DEF P
  <2>. QED BY <2>1, <2>2 DEF RecordTypes
<1>7. memory2 \in [Records -> [next : Nat, segments : Seq(RecordSegments)]]
  <2>1. CASE k = 1
    BY <2>1 DEF PassedOver
  <2>2. CASE k # 1
    <3>1. k - 1 \in 1 .. n
      BY <1>0, <2>2
    <3>2. list[k - 1].at \in Records
      BY <1>1, <3>1
    <3>3. memory2 = [memory EXCEPT ![list[k - 1].at].next = after]
      BY <2>2 DEF after, PassedOver
    <3>. DEFINE a == list[k - 1].at
    <3>4. a \in Records /\ memory2 = [memory EXCEPT ![a].next = after]
      BY <3>2, <3>3
    <3>. HIDE DEF a
    <3>5. memory[a] \in [next : Nat, segments : Seq(RecordSegments)]
      BY <3>4
    <3>6. [memory[a] EXCEPT !.next = after] \in [next : Nat, segments : Seq(RecordSegments)]
      BY <1>2, <3>5
    <3>. QED BY <3>4, <3>6
  <2>. QED BY <2>1, <2>2
<1>8. ASSUME NEW j \in 1 .. n, j # k
      PROVE  /\ memory2[list[j].at].segments = memory[list[j].at].segments
             /\ memory2[list[j].at].next = IF j = k - 1 THEN after ELSE memory[list[j].at].next
  <2>0. list[j].at \in Records /\ memory[list[j].at] \in [next : Nat, segments : Seq(RecordSegments)]
    BY <1>1
  <2>1. CASE k = 1
    <3>1. j # k - 1
      BY <1>0, <2>1
    <3>. QED BY <2>1, <3>1 DEF PassedOver
  <2>2. CASE k # 1
    <3>1. k - 1 \in 1 .. n
      BY <1>0, <2>2
    <3>2. list[k - 1].at \in Records
      BY <1>1, <3>1
    <3>3. memory2 = [memory EXCEPT ![list[k - 1].at].next = after]
      BY <2>2 DEF after, PassedOver
    <3>4. j # k - 1 => list[j].at # list[k - 1].at
      <4>1. j # k - 1 => j < k - 1 \/ k - 1 < j
        BY <1>0
      <4>. QED BY <3>1, <4>1 DEF Whole
    <3>. DEFINE a == list[k - 1].at
                b == list[j].at
    <3>5. j = k - 1 => b = a
      OBVIOUS
    <3>. HIDE DEF a, b
    <3>6. memory2 = [memory EXCEPT ![a].next = after]
      BY <3>3 DEF a
    <3>7. b \in Records /\ a \in Records /\ (j # k - 1 => a # b) /\ memory[b] \in [next : Nat, segments : Seq(RecordSegments)]
      BY <2>0, <3>2, <3>4 DEF a, b
    <3>8. /\ memory2[b].segments = memory[b].segments
          /\ memory2[b].next = IF b = a THEN after ELSE memory[b].next
      BY <3>6, <3>7
    <3>9. memory2[b].next = IF j = k - 1 THEN after ELSE memory[b].next
      BY <3>5, <3>7, <3>8
    <3>. QED BY <3>8, <3>9 DEF b
  <2>. QED BY <2>1, <2>2
<1>9. Whole(list2, header2, memory2)
  <2>1. header2 = IF list2 = <<>> THEN NoRecord ELSE list2[1].at
    <3>1. CASE n = 1
      <4>1. list2 = <<>> /\ k = 1
        BY <1>0, <1>4, <3>1
      <4>. QED BY <1>2, <3>1, <4>1
    <3>2. CASE n # 1
      <4>1. list2 # <<>> /\ 1 \in 1 .. n - 1
        BY <1>0, <1>4, <3>2
      <4>2. list2[1].at = list[P(1)].at
        BY <1>6, <4>1
      <4>3. CASE k = 1
        <5>1. P(1) = k + 1 /\ k # n
          BY <4>3, <3>2
        <5>. QED BY <1>2, <4>1, <4>2, <4>3, <5>1
      <4>4. CASE k # 1
        <5>1. P(1) = 1 /\ list # <<>>
          BY <1>0, <4>4
        <5>. QED BY <4>1, <4>2, <4>4, <5>1 DEF Whole
      <4>. QED BY <4>3, <4>4
    <3>. QED BY <3>1, <3>2
  <2>2. ASSUME NEW i \in 1 .. n - 1, i + 1 \in 1 .. n - 1
        PROVE  memory2[list2[i].at].next = list2[i + 1].at /\ list2[i].next = list2[i + 1].at
    <3>1. list2[i].at = list[P(i)].at /\ list2[i + 1].at = list[P(i + 1)].at
      BY <1>6, <2>2
    <3>2. P(i) \in 1 .. n /\ P(i) # k /\ (P(i) = k - 1 <=> i = k - 1)
      BY <1>5
    <3>3. memory2[list[P(i)].at].next = IF i = k - 1 THEN after ELSE memory[list[P(i)].at].next
      BY <1>8, <3>2
    <3>4. list2[i].next = IF i = k - 1 THEN after ELSE list[P(i)].next
      BY <1>6
    <3>5. CASE i = k - 1
      <4>1. k # n /\ P(i + 1) = k + 1
        BY <1>5, <2>2, <3>5
      <4>. HIDE DEF P
      <4>. QED BY <1>2, <3>1, <3>3, <3>4, <3>5, <4>1
    <3>6. CASE i # k - 1
      <4>1. P(i) \in 1 .. n - 1 /\ P(i + 1) = P(i) + 1
        BY <1>5, <2>2, <3>6
      <4>. HIDE DEF P
      <4>2. memory[list[P(i)].at].next = list[P(i) + 1].at /\ list[P(i)].next = list[P(i) + 1].at
        BY <4>1 DEF Whole
      <4>. QED BY <3>1, <3>3, <3>4, <3>6, <4>1, <4>2
    <3>. QED BY <3>5, <3>6
  <2>3. list2 # <<>> => list2[n - 1].next = NoRecord
    <3>. SUFFICES ASSUME list2 # <<>> PROVE list2[n - 1].next = NoRecord
      OBVIOUS
    <3>1. n - 1 \in 1 .. n - 1
      BY <1>0, <1>4
    <3>2. list2[n - 1].next = IF n - 1 = k - 1 THEN after ELSE list[P(n - 1)].next
      BY <1>6, <3>1
    <3>3. CASE n = k
      BY <1>2, <3>2, <3>3
    <3>4. CASE n # k
      <4>1. n - 1 # k - 1 /\ P(n - 1) = n /\ list # <<>>
        BY <1>0, <3>4
      <4>. HIDE DEF P
      <4>. QED BY <3>2, <4>1 DEF Whole
    <3>. QED BY <3>3, <3>4
  <2>4. ASSUME NEW i \in 1 .. n - 1 PROVE memory2[list2[i].at].segments = list2[i].segments
    <3>1. P(i) \in 1 .. n /\ P(i) # k
      BY <1>5
    <3>2. list2[i].at = list[P(i)].at /\ list2[i].segments = list[P(i)].segments
      BY <1>6
    <3>. HIDE DEF P
    <3>. QED BY <1>8, <3>1, <3>2 DEF Whole
  <2>5. ASSUME NEW i \in 1 .. n - 1, NEW j \in 1 .. n - 1, i < j
        PROVE  list2[i].handle # list2[j].handle /\ list2[i].at # list2[j].at
    <3>1. P(i) \in 1 .. n /\ P(j) \in 1 .. n /\ P(i) < P(j)
      BY <1>0, <2>5
    <3>2. /\ list2[i].at = list[P(i)].at /\ list2[i].handle = list[P(i)].handle
          /\ list2[j].at = list[P(j)].at /\ list2[j].handle = list[P(j)].handle
      BY <1>6
    <3>. HIDE DEF P
    <3>. QED BY <3>1, <3>2 DEF Whole
  <2>6. \A i \in 1 .. (n - 1) - 1 : i \in 1 .. n - 1 /\ i + 1 \in 1 .. n - 1
    BY <1>0
  <2>. HIDE DEF header2, n
  <2>. QED BY <1>4, <2>1, <2>2, <2>3, <2>4, <2>5, <2>6 DEF Whole
<1>. QED BY <1>4, <1>6, <1>7, <1>9 DEF after

-----------------------------------------------------------------------------
LEMMA ListIs ==
  ASSUME DebugTypes
  PROVE  DebugListIsWhole <=> Whole(mirrorList, listHeader, targetRecord)
<1>1. DOMAIN mirrorList = 1 .. Len(mirrorList) /\ Last(mirrorList) = mirrorList[Len(mirrorList)]
  BY DEF DebugTypes, Last
<1>. QED BY <1>1 DEF DebugListIsWhole, Linked, Whole

LEMMA DebugStarts == DebugInit => DebugInv
<1>. SUFFICES ASSUME DebugInit PROVE DebugInv
  OBVIOUS
<1>1. DebugTypes
  <2>1. <<>> \in Seq(RecordSegments) /\ NoRecord \in Nat
    BY DEF NoRecord
  <2>2. targetRecord \in [Records -> [next : Nat, segments : Seq(RecordSegments)]]
    BY <2>1 DEF DebugInit
  <2>. QED BY <2>2 DEF DebugInit, DebugTypes
<1>2. debugStack = <<>> /\ mirrorList = <<>> /\ listHeader = NoRecord
  BY DEF DebugInit
<1>3. \A i \in 1 .. 0 : FALSE
  OBVIOUS
<1>. QED BY <1>1, <1>2, <1>3 DEF DebugInv, HandlesInv, Whole

LEMMA AddHostKeeps == DebugInv /\ AddHostRecord => DebugInv'
<1>. SUFFICES ASSUME DebugInv, AddHostRecord PROVE DebugInv'
  OBVIOUS
<1>1. UNCHANGED <<mirrorList, listHeader, targetRecord, debugHandle>>
  BY DEF AddHostRecord
<1>2. debugStack' \in Seq(Seq(RecordSegments))
  <2>. DEFINE S == Seq(RecordSegments)
              d == <<>>
  <2>1. debugStack \in Seq(S) /\ d \in S /\ debugStack' = Append(debugStack, d)
    BY DEF DebugInv, DebugTypes, AddHostRecord
  <2>. HIDE DEF S, d
  <2>2. debugStack' \in Seq(S)
    BY <2>1, AppendProperties
  <2>. QED BY <2>2 DEF S
<1>. QED BY <1>1, <1>2 DEF DebugInv, DebugTypes, HandlesInv, Whole

LEMMA AddSegmentKeeps ==
  ASSUME NEW segment \in RecordSegments PROVE DebugInv /\ AddSegmentRecord(segment) => DebugInv'
<1>. SUFFICES ASSUME DebugInv, AddSegmentRecord(segment) PROVE DebugInv'
  OBVIOUS
<1>1. UNCHANGED <<mirrorList, listHeader, targetRecord, debugHandle>>
  BY DEF AddSegmentRecord
<1>2. debugStack' \in Seq(Seq(RecordSegments))
  <2>. DEFINE n == Len(debugStack)
              S == Seq(RecordSegments)
              d == Append(debugStack[n], segment)
  <2>1. debugStack \in Seq(S) /\ debugStack # <<>> /\ debugStack' = [debugStack EXCEPT ![n] = d]
    BY DEF DebugInv, DebugTypes, AddSegmentRecord
  <2>2. n \in 1 .. Len(debugStack)
    <3>. HIDE DEF S
    <3>1. Len(debugStack) \in Nat /\ Len(debugStack) # 0
      BY <2>1
    <3>. QED BY <3>1 DEF n
  <2>3. d \in S
    <3>1. debugStack[n] \in Seq(RecordSegments)
      BY <2>1, <2>2
    <3>. QED BY <3>1
  <2>. HIDE DEF S, d, n
  <2>4. debugStack' \in Seq(S)
    BY <2>1, <2>2, <2>3, ExceptSeq
  <2>. QED BY <2>4 DEF S
<1>. QED BY <1>1, <1>2 DEF DebugInv, DebugTypes, HandlesInv, Whole

LEMMA AddTargetKeeps ==
  ASSUME NEW at \in Records PROVE DebugInv /\ AddTargetRecord(at) => DebugInv'
<1>. SUFFICES ASSUME DebugInv, AddTargetRecord(at) PROVE DebugInv'
  OBVIOUS
<1>. DEFINE n == Len(debugStack)
            m == Len(mirrorList)
            h == debugHandle + 1
            segs == debugStack[n]
            S == Seq(RecordSegments)
<1>1. /\ n \in 1 .. n /\ n \in Nat /\ m \in Nat /\ debugStack \in Seq(S)
      /\ Last(debugStack) = segs /\ Last(mirrorList) = mirrorList[m]
      /\ DOMAIN mirrorList = 1 .. m
  <2>1. debugStack \in Seq(S) /\ debugStack # <<>> /\ mirrorList \in Seq(RecordTypes)
    BY DEF DebugInv, DebugTypes, AddTargetRecord
  <2>. HIDE DEF S
  <2>2. n \in Nat /\ n # 0 /\ m \in Nat /\ DOMAIN mirrorList = 1 .. m
    BY <2>1
  <2>3. n \in 1 .. n
    BY <2>2
  <2>. QED BY <2>1, <2>2, <2>3 DEF Last
<1>2. segs \in Seq(RecordSegments) /\ debugHandle \in Nat /\ h \in Nat
  <2>1. debugHandle \in Nat
    BY DEF DebugInv, DebugTypes
  <2>. QED BY <1>1, <2>1
<1>3. /\ mirrorList' = Lengthened(mirrorList, at, h, segs)
      /\ targetRecord' = Noted(mirrorList, targetRecord, at, segs)
      /\ listHeader' = IF mirrorList = <<>> THEN at ELSE listHeader
      /\ debugStack' = Front(debugStack) /\ debugHandle' = h
  BY <1>1 DEF AddTargetRecord, Lengthened, Noted
<1>4. ASSUME NEW i \in 1 .. m
      PROVE  /\ mirrorList[i].at # at /\ mirrorList[i].handle # h
             /\ mirrorList[i].handle \in Nat /\ mirrorList[i].handle <= debugHandle
  <2>1. mirrorList[i] \in RecordTypes /\ mirrorList[i].handle <= debugHandle
    BY DEF DebugInv, DebugTypes, HandlesInv
  <2>2. mirrorList[i].handle \in Nat
    BY <2>1 DEF RecordTypes
  <2>3. mirrorList[i].at # at
    BY <1>1 DEF AddTargetRecord, IsUnused
  <2>. QED BY <1>2, <2>1, <2>2, <2>3
<1>5. debugStack' \in Seq(S)
  <2>. HIDE DEF S
  <2>1. debugStack' = SubSeq(debugStack, 1, n - 1)
    BY <1>3 DEF Front
  <2>2. \A i \in 1 .. n - 1 : debugStack[i] \in S
    BY <1>1
  <2>. DEFINE q == n - 1
  <2>3. q \in Nat
    BY <1>1
  <2>. HIDE DEF q
  <2>4. 1 \in Int /\ q \in Int /\ \A i \in 1 .. q : debugStack[i] \in S
    BY <2>2, <2>3 DEF q
  <2>5. SubSeq(debugStack, 1, q) \in Seq(S)
    BY <2>4, SubSeqProperties
  <2>. QED BY <2>1, <2>5 DEF q
<1>6. /\ mirrorList' \in Seq(RecordTypes) /\ Len(mirrorList') = m + 1
      /\ \A i \in 1 .. m : mirrorList'[i].handle = mirrorList[i].handle
      /\ mirrorList'[m + 1].handle = h
      /\ targetRecord' \in [Records -> [next : Nat, segments : Seq(RecordSegments)]]
      /\ Whole(mirrorList', listHeader', targetRecord')
  <2>1. /\ mirrorList \in Seq(RecordTypes) /\ Whole(mirrorList, listHeader, targetRecord)
        /\ targetRecord \in [Records -> [next : Nat, segments : Seq(RecordSegments)]]
    BY DEF DebugInv, DebugTypes
  <2>2. /\ h \in Nat /\ segs \in Seq(RecordSegments)
        /\ mirrorList' = Lengthened(mirrorList, at, h, segs)
        /\ targetRecord' = Noted(mirrorList, targetRecord, at, segs)
        /\ listHeader' = IF mirrorList = <<>> THEN at ELSE listHeader
        /\ \A i \in 1 .. m : mirrorList[i].at # at /\ mirrorList[i].handle # h
    BY <1>2, <1>3, <1>4
  <2>. HIDE DEF h, segs, n
  <2>3. PICK list2, memory2 : list2 = mirrorList' /\ memory2 = targetRecord'
    OBVIOUS
  <2>4. list2 = Lengthened(mirrorList, at, h, segs) /\ memory2 = Noted(mirrorList, targetRecord, at, segs)
    BY <2>2, <2>3
  <2>5. IsNew(mirrorList, at, h)
    BY <2>2 DEF IsNew
  <2>6. h \in Nat /\ segs \in Seq(RecordSegments)
    BY <2>2
  <2>7. /\ IsLonger(list2, mirrorList, h)
        /\ memory2 \in [Records -> [next : Nat, segments : Seq(RecordSegments)]]
        /\ Whole(list2, IF mirrorList = <<>> THEN at ELSE listHeader, memory2)
    BY <2>1, <2>4, <2>5, <2>6, WholeAppend
  <2>. QED BY <2>2, <2>3, <2>7 DEF IsLonger
<1>7. DebugTypes'
  BY <1>2, <1>3, <1>5, <1>6 DEF DebugInv, DebugTypes
<1>8. HandlesInv'
  <2>1. \A i \in 1 .. m + 1 : i \in 1 .. m \/ i = m + 1
    BY <1>1
  <2>2. ASSUME NEW i \in 1 .. m + 1 PROVE mirrorList'[i].handle <= h
    <3>1. CASE i \in 1 .. m
      <4>1. mirrorList[i].handle <= h
        BY <1>2, <1>4, <3>1
      <4>. QED BY <1>6, <3>1, <4>1
    <3>2. CASE i = m + 1
      BY <1>2, <1>6, <3>2
    <3>. QED BY <2>1, <3>1, <3>2
  <2>. QED BY <1>3, <1>6, <2>2 DEF HandlesInv
<1>. QED BY <1>6, <1>7, <1>8 DEF DebugInv

LEMMA RmTargetKeeps ==
  ASSUME NEW handle PROVE DebugInv /\ RmTargetRecord(handle) => DebugInv'
<1>. SUFFICES ASSUME DebugInv, RmTargetRecord(handle) PROVE DebugInv'
  OBVIOUS
<1>. DEFINE m == Len(mirrorList)
<1>1. m \in Nat /\ DOMAIN mirrorList = 1 .. m
  BY DEF DebugInv, DebugTypes
<1>2. PICK k \in 1 .. m :
        /\ mirrorList' = Shortened(mirrorList, k)
        /\ targetRecord' = PassedOver(mirrorList, targetRecord, k)
        /\ listHeader' = IF k = 1 THEN mirrorList[k].next ELSE listHeader
  BY <1>1 DEF RmTargetRecord, Shortened, PassedOver
<1>3. UNCHANGED <<debugStack, debugHandle>>
  BY DEF RmTargetRecord
<1>4. /\ mirrorList' \in Seq(RecordTypes) /\ Len(mirrorList') = m - 1
      /\ \A i \in 1 .. m - 1 : mirrorList'[i].handle = mirrorList[IF i < k THEN i ELSE i + 1].handle
      /\ targetRecord' \in [Records -> [next : Nat, segments : Seq(RecordSegments)]]
      /\ Whole(mirrorList', listHeader', targetRecord')
  <2>1. /\ mirrorList \in Seq(RecordTypes) /\ Whole(mirrorList, listHeader, targetRecord)
        /\ targetRecord \in [Records -> [next : Nat, segments : Seq(RecordSegments)]]
    BY DEF DebugInv, DebugTypes
  <2>. QED BY <1>2, <2>1, WholeRemove
<1>5. DebugTypes'
  BY <1>3, <1>4 DEF DebugInv, DebugTypes
<1>6. HandlesInv'
  <2>1. \A i \in 1 .. m - 1 : (IF i < k THEN i ELSE i + 1) \in 1 .. m
    BY <1>1
  <2>2. \A i \in 1 .. m - 1 : \E j \in 1 .. m : mirrorList'[i].handle = mirrorList[j].handle
    BY <1>4, <2>1
  <2>3. \A i \in 1 .. m - 1 : mirrorList'[i].handle <= debugHandle
    BY <2>2 DEF DebugInv, HandlesInv
  <2>. QED BY <1>3, <1>4, <2>3 DEF HandlesInv
<1>. QED BY <1>4, <1>5, <1>6 DEF DebugInv

-----------------------------------------------------------------------------
\* In whatever order modules are unloaded and their memory is used again, a debugger
\* that follows the records in target memory finds those of the modules that are
\* loaded, each once, with the segments of its own module (dlw_debug.c).
THEOREM DebugTheorem == DebugSpec => []DebugListIsWhole
<1>1. DebugInv /\ [DebugNext]_debugVars => DebugInv'
  <2>. SUFFICES ASSUME DebugInv, [DebugNext]_debugVars PROVE DebugInv'
    OBVIOUS
  <2>1. CASE AddHostRecord
    BY <2>1, AddHostKeeps
  <2>2. ASSUME NEW segment \in RecordSegments, AddSegmentRecord(segment) PROVE DebugInv'
    BY <2>2, AddSegmentKeeps
  <2>3. ASSUME NEW at \in Records, AddTargetRecord(at) PROVE DebugInv'
    BY <2>3, AddTargetKeeps
  <2>4. ASSUME NEW handle \in 1 .. MaxDebugHandle, RmTargetRecord(handle) PROVE DebugInv'
    BY <2>4, RmTargetKeeps
  <2>5. CASE UNCHANGED debugVars
    BY <2>5 DEF debugVars, DebugInv, DebugTypes, HandlesInv, Whole
  <2>. QED BY <2>1, <2>2, <2>3, <2>4, <2>5 DEF DebugNext
<1>2. DebugInv => DebugListIsWhole
  BY ListIs DEF DebugInv
<1>. QED BY DebugStarts, <1>1, <1>2, PTL DEF DebugSpec
=============================================================================
