-------------------------- MODULE RcmServer_proofs --------------------------
(***************************************************************************)
(* Proofs about RcmServer, for any workers, any pools they are in, any     *)
(* messages and any number of job ids; about its function tables; about    *)
(* the services that the host has it create; and about the messages that   *)
(* a client sends it.                                                      *)
(***************************************************************************)
EXTENDS RcmServer, RcmSymbols, Services, RcmCommands, FiniteSetTheorems, SequenceTheorems, TLAPS

-----------------------------------------------------------------------------
\* Facts about sequences and numbers, stated once.
LEMMA NatMin ==
  ASSUME NEW S, S \subseteq Nat, S # {}
  PROVE  Min(S) \in S /\ \A n \in S : Min(S) <= n
<1>. DEFINE R == {ss \in Nat \X Nat : ss[1] < ss[2]}
<1>1. OpToRel(<, Nat) = R
  BY DEF OpToRel
<1>2. IsWellFoundedOn(R, Nat)
  BY <1>1, NatLessThanWellFounded
<1>3. \E x \in S : \A y \in S : ~ (<<y, x>> \in R)
  BY <1>2, WFMin
<1>4. \A x, y \in Nat : <<y, x>> \in R <=> y < x
  OBVIOUS
<1>. HIDE DEF R
<1>5. PICK x \in S : \A y \in S : ~ (<<y, x>> \in R)
  BY <1>3
<1>6. ASSUME NEW y \in S PROVE x <= y
  <2>1. x \in Nat /\ y \in Nat
    OBVIOUS
  <2>2. ~(y < x)
    BY <2>1, <1>4, <1>5
  <2>. QED BY <2>1, <2>2
<1>. QED BY <1>6 DEF Min

\* The greatest of finitely many numbers: the one with the fewest above it.
LEMMA GreatestExists ==
  ASSUME NEW S, S \subseteq Nat, IsFiniteSet(S), S # {}
  PROVE  \E x \in S : \A y \in S : y <= x
<1> DEFINE Above(x) == {y \in S : y > x}
           Sizes == {Cardinality(Above(x)) : x \in S}
<1>1. \A x \in S : IsFiniteSet(Above(x)) /\ Cardinality(Above(x)) \in Nat
  <2>1. \A x \in S : Above(x) \subseteq S
    OBVIOUS
  <2> HIDE DEF Above
  <2>2. ASSUME NEW x \in S PROVE IsFiniteSet(Above(x)) /\ Cardinality(Above(x)) \in Nat
    BY <2>1, FS_Subset, FS_CardinalityType
  <2>. QED BY <2>2
<1>2. Sizes \subseteq Nat /\ Sizes # {}
  <2> HIDE DEF Above
  <2>. QED BY <1>1
<1>3. Min(Sizes) \in Sizes /\ \A n \in Sizes : Min(Sizes) <= n
  BY <1>2, NatMin
<1>4. PICK x \in S : Cardinality(Above(x)) = Min(Sizes)
  BY <1>3
<1>5. ASSUME NEW y \in S, ~(y <= x) PROVE FALSE
  <2>1. y \in Above(x)
    BY <1>5
  <2>2. Above(y) \subseteq Above(x) /\ y \notin Above(y)
    <3>1. x \in Nat /\ y \in Nat /\ y > x /\ ~(y > y)
      BY <1>5
    <3>2. \A z \in S : z > y => z > x
      BY <3>1
    <3>. QED BY <3>1, <3>2
  <2>3. Cardinality(Above(y)) < Cardinality(Above(x))
    <3> HIDE DEF Above
    <3>1. IsFiniteSet(Above(x)) /\ Cardinality(Above(x)) \in Nat /\ Cardinality(Above(y)) \in Nat
      BY <1>1, <1>5
    <3>2. /\ Cardinality(Above(y)) <= Cardinality(Above(x))
          /\ Cardinality(Above(x)) = Cardinality(Above(y)) => Above(x) = Above(y)
      BY <2>2, <3>1, FS_Subset
    <3>3. Above(x) # Above(y)
      BY <2>1, <2>2
    <3>. QED BY <3>1, <3>2, <3>3
  <2>4. Cardinality(Above(x)) <= Cardinality(Above(y))
    BY <1>3, <1>4
  <2>. QED BY <1>1, <2>3, <2>4
<1>. QED BY <1>5

LEMMA RemoveAtIs ==
  ASSUME NEW S, NEW s \in Seq(S), NEW k \in DOMAIN s
  PROVE  /\ RemoveAt(s, k) \in Seq(S)
         /\ Len(RemoveAt(s, k)) = Len(s) - 1
         /\ \A i \in 1 .. Len(s) - 1 : RemoveAt(s, k)[i] = IF i < k THEN s[i] ELSE s[i + 1]
<1>. DEFINE a == SubSeq(s, 1, k - 1)
            b == SubSeq(s, k + 1, Len(s))
<1>1. k \in 1 .. Len(s) /\ Len(s) \in Nat
  OBVIOUS
<1>2. a \in Seq(S) /\ Len(a) = k - 1 /\ \A i \in 1 .. k - 1 : a[i] = s[i]
  <2>1. \A i \in 1 .. k - 1 : s[i] \in S
    BY <1>1, ElementOfSeq
  <2>. QED BY <1>1, <2>1, SubSeqProperties
<1>3. b \in Seq(S) /\ Len(b) = Len(s) - k /\ \A i \in 1 .. Len(s) - k : b[i] = s[i + k]
  <2>1. \A i \in k + 1 .. Len(s) : s[i] \in S
    BY <1>1, ElementOfSeq
  <2>. QED BY <1>1, <2>1, SubSeqProperties
<1>. HIDE DEF a, b
<1>4. /\ a \o b \in Seq(S) /\ Len(a \o b) = Len(s) - 1
      /\ \A i \in 1 .. Len(s) - 1 : (a \o b)[i] = IF i <= Len(a) THEN a[i] ELSE b[i - Len(a)]
  <2>1. a \o b \in Seq(S) /\ Len(a \o b) = Len(a) + Len(b)
    BY <1>2, <1>3, ConcatProperties
  <2>2. \A i \in 1 .. Len(a) + Len(b) : (a \o b)[i] = IF i <= Len(a) THEN a[i] ELSE b[i - Len(a)]
    BY <1>2, <1>3, ConcatProperties
  <2>3. Len(a) + Len(b) = Len(s) - 1
    BY <1>1, <1>2, <1>3
  <2>. QED BY <2>1, <2>2, <2>3
<1>5. ASSUME NEW i \in 1 .. Len(s) - 1
      PROVE  (a \o b)[i] = IF i < k THEN s[i] ELSE s[i + 1]
  <2>1. CASE i < k
    BY <1>1, <1>2, <1>4, <2>1
  <2>2. CASE ~(i < k)
    <3>1. i - (k - 1) \in 1 .. Len(s) - k /\ ~(i <= k - 1)
      BY <1>1, <2>2
    <3>2. (a \o b)[i] = b[i - (k - 1)]
      BY <1>2, <1>4, <3>1
    <3>3. b[i - (k - 1)] = s[(i - (k - 1)) + k]
      BY <1>3, <3>1
    <3>4. (i - (k - 1)) + k = i + 1
      BY <1>1
    <3>. QED BY <2>2, <3>2, <3>3, <3>4
  <2>. QED BY <2>1, <2>2
<1>. QED BY <1>5, <1>1, <1>2, <1>3, <1>4 DEF RemoveAt, a, b

Once(s) == \A i, j \in DOMAIN s : s[i] = s[j] => i = j
Ascending(s) == \A i, j \in DOMAIN s : i < j => s[i] < s[j]

LEMMA AppendIs ==
  ASSUME NEW S, NEW s \in Seq(S), NEW x \in S
  PROVE  /\ Append(s, x) \in Seq(S) /\ Len(Append(s, x)) = Len(s) + 1 /\ Append(s, x) # <<>>
         /\ DOMAIN Append(s, x) = DOMAIN s \cup {Len(s) + 1} /\ Len(s) + 1 \notin DOMAIN s
         /\ \A i \in DOMAIN s : Append(s, x)[i] = s[i]
         /\ Append(s, x)[Len(s) + 1] = x
OBVIOUS

LEMMA ExceptIs ==
  ASSUME NEW S, NEW s \in Seq(S), NEW i \in DOMAIN s, NEW e \in S
  PROVE  /\ [s EXCEPT ![i] = e] \in Seq(S) /\ DOMAIN [s EXCEPT ![i] = e] = DOMAIN s
         /\ [s EXCEPT ![i] = e][i] = e
         /\ \A j \in DOMAIN s \ {i} : [s EXCEPT ![i] = e][j] = s[j]
<1>1. i \in 1 .. Len(s) /\ DOMAIN s = 1 .. Len(s)
  OBVIOUS
<1>. QED BY <1>1, ExceptSeq

LEMMA AppendRange ==
  ASSUME NEW S, NEW s \in Seq(S), NEW x \in S
  PROVE  Range(Append(s, x)) = Range(s) \cup {x}
<1>. DEFINE t == Append(s, x)
<1>1. /\ DOMAIN t = DOMAIN s \cup {Len(s) + 1}
      /\ \A i \in DOMAIN s : t[i] = s[i]
      /\ t[Len(s) + 1] = x
  BY AppendIs
<1>. HIDE DEF t
<1>2. Range(t) = Range(s) \cup {x}
  BY <1>1 DEF Range
<1>. QED BY <1>2 DEF t

LEMMA AppendOnce ==
  ASSUME NEW S, NEW s \in Seq(S), NEW x \in S, x \notin Range(s), Once(s)
  PROVE  Once(Append(s, x))
<1>. DEFINE t == Append(s, x)
<1>1. /\ DOMAIN t = DOMAIN s \cup {Len(s) + 1}
      /\ \A i \in DOMAIN s : t[i] = s[i]
      /\ t[Len(s) + 1] = x
  BY AppendIs
<1>. HIDE DEF t
<1>2. Once(t)
  BY <1>1 DEF Range, Once
<1>. QED BY <1>2 DEF t

LEMMA AppendAscending ==
  ASSUME NEW s \in Seq(Nat), NEW x \in Nat, \A y \in Range(s) : y < x, Ascending(s)
  PROVE  Ascending(Append(s, x))
<1>. DEFINE t == Append(s, x)
<1>1. /\ DOMAIN t = DOMAIN s \cup {Len(s) + 1}
      /\ \A i \in DOMAIN s : t[i] = s[i] /\ i < Len(s) + 1 /\ i \in Nat
      /\ t[Len(s) + 1] = x /\ Len(s) \in Nat
  BY AppendIs
<1>. HIDE DEF t
<1>2. Ascending(t)
  BY <1>1 DEF Range, Ascending
<1>. QED BY <1>2 DEF t

LEMMA TailIs ==
  ASSUME NEW S, NEW s \in Seq(S), s # <<>>
  PROVE  /\ Head(s) \in S /\ Tail(s) \in Seq(S) /\ Len(Tail(s)) = Len(s) - 1 /\ Len(s) > 0
         /\ Range(s) = Range(Tail(s)) \cup {Head(s)}
         /\ Once(s) => Once(Tail(s)) /\ Head(s) \notin Range(Tail(s))
<1>1. Head(s) \in S /\ Tail(s) \in Seq(S) /\ Len(Tail(s)) = Len(s) - 1 /\ Len(s) > 0 /\ Len(s) \in Nat
  BY HeadTailProperties
<1>. DEFINE t == Tail(s)
<1>2. /\ \A i \in DOMAIN t : t[i] = s[i + 1] /\ i + 1 \in DOMAIN s /\ i + 1 # 1 /\ i \in Nat
      /\ \A i \in DOMAIN s : i = 1 \/ (i - 1 \in DOMAIN t /\ t[i - 1] = s[i])
      /\ Head(s) = s[1] /\ 1 \in DOMAIN s
  BY <1>1
<1>. HIDE DEF t
<1>3. Range(s) = Range(t) \cup {Head(s)}
  BY <1>2 DEF Range
<1>4. Once(s) => Once(t) /\ Head(s) \notin Range(t)
  BY <1>2 DEF Range, Once
<1>. QED BY <1>1, <1>3, <1>4 DEF t

LEMMA TailAscending ==
  ASSUME NEW s \in Seq(Nat), s # <<>>, Ascending(s)
  PROVE  Ascending(Tail(s)) /\ \A y \in Range(Tail(s)) : Head(s) < y
<1>1. Tail(s) \in Seq(Nat) /\ Len(Tail(s)) = Len(s) - 1 /\ Len(s) > 0 /\ Len(s) \in Nat
  BY HeadTailProperties
<1>. DEFINE t == Tail(s)
<1>2. /\ \A i \in DOMAIN t : t[i] = s[i + 1] /\ i + 1 \in DOMAIN s /\ 1 < i + 1 /\ i \in Nat
      /\ Head(s) = s[1] /\ 1 \in DOMAIN s
  BY <1>1
<1>. HIDE DEF t
<1>3. Ascending(t) /\ \A y \in Range(t) : Head(s) < y
  BY <1>2 DEF Range, Ascending
<1>. QED BY <1>3 DEF t

LEMMA AscendingOnce ==
  ASSUME NEW s \in Seq(Nat), Ascending(s)
  PROVE  Once(s)
<1>1. \A i \in DOMAIN s : i \in Nat /\ s[i] \in Nat
  OBVIOUS
<1>. QED BY <1>1 DEF Ascending, Once

LEMMA SeqOfElements ==
  ASSUME NEW S, NEW T, NEW s \in Seq(S), \A x \in Range(s) : x \in T
  PROVE  s \in Seq(T)
<1>1. \A i \in 1 .. Len(s) : s[i] \in T
  BY DEF Range
<1>. QED BY <1>1, IsASeq

LEMMA EmptyRange == Range(<<>>) = {} /\ Once(<<>>) /\ Ascending(<<>>)
BY DEF Range, Once, Ascending

-----------------------------------------------------------------------------
\* The inductive invariant.

R(p) == Range(ready[p])
Q(i) == Range(jobs[i].msgQue)
Busy(w) == wkPc[w] \in {"process", "next"}
Messages == 1 .. Len(msg)

Job == [id : JobIds, born : Nat, empty : BOOLEAN, msgQue : Seq(Nat)]

TypeInv ==
  /\ config \in Configs
  /\ msg \in Seq(config.kinds) /\ Len(msg) <= config.max
  /\ answers \in Seq(Seq(Statuses)) /\ Len(answers) = Len(msg)
  /\ stream \in Seq(0 .. config.max) /\ Len(stream) = Len(msg)
  /\ jobId \in JobIds /\ shutdown \in BOOLEAN
  /\ jobs \in Seq(Job)
  /\ ready \in [Pools -> Seq(Nat)] /\ sem \in [Pools -> Nat]
  /\ terminate \in [Pools -> BOOLEAN]
  /\ serverPc \in {"created", "recv", "process", "exited"}
  /\ wkPc \in [Workers -> {"idle", "process", "next", "exited"}]
  /\ wkMsg \in [Workers -> Nat]
  /\ finalizing \in {"no", "joinServer", "joinPool0", "joinPool1", "done"}

\* What stands in a queue or with a worker is a message that was taken.
BoundInv ==
  /\ \A p \in Pools : R(p) \subseteq Messages
  /\ \A i \in DOMAIN jobs :
       /\ Q(i) \subseteq Messages /\ jobs[i].born \in Messages
       /\ \A m \in Q(i) : msg[m].pool \in Pools
  /\ \A w \in Workers : IF Busy(w) THEN wkMsg[w] \in Messages ELSE wkMsg[w] = 0
  /\ serverPc = "process" => Len(msg) \in Messages

\* What a pool's semaphore counts.
PostInv ==
  /\ PostPerMessage
  /\ finalizing = "joinPool0" => terminate[0]
  /\ finalizing = "joinPool1" => terminate[1]
  /\ \A p \in Pools : terminate[p] => finalizing \notin {"no", "joinServer"}
  /\ terminate[1] => finalizing \in {"joinPool1", "done"}

\* A message is in one queue, or with one worker or the server thread.
PlaceInv ==
  /\ \A p \in Pools : Once(ready[p])
  /\ R(0) \cap R(1) = {}
  /\ \A i \in DOMAIN jobs : Ascending(jobs[i].msgQue)
  /\ \A i, j \in DOMAIN jobs : i # j => Q(i) \cap Q(j) = {}
  /\ \A p \in Pools, i \in DOMAIN jobs : R(p) \cap Q(i) = {}
  /\ \A w \in Workers : Busy(w) =>
       /\ \A p \in Pools : wkMsg[w] \notin R(p)
       /\ \A i \in DOMAIN jobs : wkMsg[w] \notin Q(i)
       /\ \A v \in Workers : Busy(v) /\ v # w => wkMsg[v] # wkMsg[w]
  /\ serverPc = "process" =>
       /\ \A p \in Pools : Len(msg) \notin R(p)
       /\ \A i \in DOMAIN jobs : Len(msg) \notin Q(i)
       /\ \A w \in Workers : wkMsg[w] # Len(msg)

\* What has not been processed yet.
InPlace(m) ==
  \/ \E p \in Pools : m \in R(p)
  \/ \E i \in DOMAIN jobs : m \in Q(i)
  \/ \E w \in Workers : wkPc[w] = "process" /\ wkMsg[w] = m
  \/ serverPc = "process" /\ m = Len(msg)

AnswerInv == \A m \in Messages :
  /\ Len(answers[m]) <= 1
  /\ InPlace(m) => answers[m] = <<>>
  /\ ~InPlace(m) /\ Expected(m) => answers[m] # <<>>

\* A job that is marked empty has nothing queued, and when the server is to end
\* no message of a job is left.
EndInv ==
  /\ \A i \in DOMAIN jobs : jobs[i].empty => Q(i) = {}
  /\ finalizing # "no" => shutdown
  /\ shutdown =>
       /\ \A i \in DOMAIN jobs : jobs[i].empty
       /\ \A p \in Pools : \A m \in R(p) : msg[m].job = Discrete
       /\ \A w \in Workers : Busy(w) => msg[wkMsg[w]].job = Discrete

\* In a ready queue or with a worker.
AtPool(m) ==
  (\E p \in Pools : m \in R(p)) \/ (\E w \in Workers : Busy(w) /\ wkMsg[w] = m)

\* At work: in a pool or in-band.
Active(m) == AtPool(m) \/ (serverPc = "process" /\ m = Len(msg))

\* One message of a job is at work, the others wait in the job's queue.
StreamInv ==
  /\ \A i, j \in DOMAIN jobs : jobs[i].born = jobs[j].born => i = j
  /\ \A i \in DOMAIN jobs : \A m \in Messages : jobs[i].born = m => ~InPlace(m)
  /\ \A m \in Messages : stream[m] # 0 => stream[m] \in Messages
  /\ \A m, k \in Messages : stream[m] = k => ~InPlace(k)
  /\ \A m, k \in Messages :
       Active(m) /\ Active(k) /\ stream[m] = stream[k] /\ stream[m] # 0 => m = k
  /\ \A i \in DOMAIN jobs : \A m \in Messages :
       /\ Active(m) /\ stream[m] = jobs[i].born => ~jobs[i].empty /\ \A k \in Q(i) : m < k
       /\ m \in Q(i) => stream[m] = jobs[i].born /\ msg[m].job = jobs[i].id
       /\ Active(m) /\ stream[m] # 0 /\ msg[m].job = jobs[i].id => stream[m] = jobs[i].born
  /\ \A m \in Messages : AtPool(m) => (stream[m] = 0 <=> msg[m].job = Discrete)
  /\ serverPc = "process" => stream[Len(msg)] = 0

(* The ids do not come round while a message of a job that was released is   *)
(* still at work (what RcmClient.h's promise rests on): a step gives no new  *)
(* job an id that such a message carries.                                    *)
FreshIds ==
  \A i \in DOMAIN jobs' :
    (\A j \in DOMAIN jobs : jobs[j].id # jobs'[i].id) =>
      \A m \in Messages : Active(m) /\ msg[m].job = jobs'[i].id => stream[m] = 0

IdsAreFresh == [][FreshIds]_serverVars

ServerInv == TypeInv /\ BoundInv /\ PostInv /\ PlaceInv /\ AnswerInv /\ EndInv /\ JobIdsAreUnique

-----------------------------------------------------------------------------
\* What processing a message does to the jobs and to the answers.

Answers(m, pending) ==
  /\ answers' \in Seq(Seq(Statuses)) /\ Len(answers') = Len(answers)
  /\ \/ \E status \in Statuses : answers'[m] = Append(answers[m], status)
     \/ answers'[m] = answers[m] /\ ~Expected(m)
  /\ \A x \in pending \ {m} : answers'[x] = Append(answers[x], "unprocessed")
  /\ \A x \in Messages \ (pending \cup {m}) : answers'[x] = answers[x]

Adds(m) ==
  \E id \in JobIds :
    /\ \A i \in DOMAIN jobs : jobs[i].id # id
    /\ jobs' = Append(jobs, [id |-> id, born |-> m, empty |-> TRUE, msgQue |-> <<>>])

LEMMA KindsOf ==
  ASSUME TypeInv, NEW m \in Messages
  PROVE  /\ msg[m] \in Kinds /\ msg[m] \in config.kinds
         /\ Len(msg) \in Nat /\ DOMAIN msg = Messages
         /\ DOMAIN answers = Messages /\ answers[m] \in Seq(Statuses)
         /\ stream[m] \in 0 .. config.max
<1>1. config.kinds \subseteq Kinds /\ config.max \in Nat
  BY RcmServerAssumption DEF RcmServerAssumption, TypeInv
<1>2. /\ msg \in Seq(config.kinds) /\ Len(msg) \in Nat /\ DOMAIN msg = Messages
      /\ answers \in Seq(Seq(Statuses)) /\ DOMAIN answers = Messages
      /\ stream \in Seq(0 .. config.max) /\ DOMAIN stream = Messages
  BY <1>1 DEF TypeInv, Messages
<1>3. msg[m] \in config.kinds
  BY <1>2, ElementOfSeq
<1>4. answers[m] \in Seq(Statuses)
  BY <1>2, ElementOfSeq DEF Messages
<1>5. stream[m] \in 0 .. config.max
  <2>1. PICK T : T = 0 .. config.max
    OBVIOUS
  <2>2. stream \in Seq(T)
    BY <1>2, <2>1
  <2>3. stream[m] \in T
    BY <1>2, <2>2
  <2>. QED BY <2>1, <2>3
<1>. QED BY <1>1, <1>2, <1>3, <1>4, <1>5

LEMMA AnswerIs ==
  ASSUME TypeInv, NEW m \in Messages, NEW status \in Statuses, Answer(m, status)
  PROVE  Answers(m, {})
<1>1. answers \in Seq(Seq(Statuses)) /\ m \in DOMAIN answers /\ answers[m] \in Seq(Statuses)
      /\ Messages = DOMAIN answers
  BY KindsOf DEF TypeInv
<1>2. Append(answers[m], status) \in Seq(Statuses)
  BY <1>1, AppendIs
<1>3. answers' = [answers EXCEPT ![m] = Append(answers[m], status)]
  BY DEF Answer
<1>4. /\ answers' \in Seq(Seq(Statuses)) /\ Len(answers') = Len(answers)
      /\ answers'[m] = Append(answers[m], status)
      /\ \A x \in Messages \ {m} : answers'[x] = answers[x]
  BY <1>1, <1>2, <1>3
<1>. QED BY <1>4 DEF Answers

LEMMA IdAfterIsId ==
  ASSUME TypeInv, NEW n \in Nat
  PROVE  IdAfter(n) \in JobIds
<1>1. MaxJobId \in Nat /\ MaxJobId > 0 /\ jobId \in 1 .. MaxJobId
  BY RcmServerAssumption DEF RcmServerAssumption, TypeInv, JobIds
<1>2. ASSUME NEW a \in Nat, NEW b \in Nat, b > 0 PROVE a % b \in 0 .. b - 1
  BY <1>2
<1>3. jobId - 1 + n \in Nat
  BY <1>1
<1>4. (jobId - 1 + n) % MaxJobId \in 0 .. MaxJobId - 1
  BY <1>1, <1>2, <1>3
<1>. QED BY <1>1, <1>4 DEF IdAfter, JobIds

LEMMA FindIs ==
  ASSUME TypeInv, NEW id
  PROVE  /\ Find(id) = {} => \A i \in DOMAIN jobs : jobs[i].id # id
         /\ Find(id) # {} => Min(Find(id)) \in DOMAIN jobs /\ jobs[Min(Find(id))].id = id
<1>1. Find(id) \subseteq Nat
  BY DEF Find, TypeInv
<1>. QED BY <1>1, NatMin DEF Find

LEMMA AcquireIs ==
  ASSUME TypeInv, NEW m \in Messages, AcquireJob(m)
  PROVE  jobId' \in JobIds /\ (jobs' = jobs \/ Adds(m)) /\ Answers(m, {})
<1>1. {"error", "success"} \subseteq Statuses
  BY DEF Statuses
<1>2. CASE FreeIds = {}
  BY <1>1, <1>2, AnswerIs DEF AcquireJob, jobVars, TypeInv
<1>3. CASE FreeIds # {}
  <2>1. PICK n : n = Min(FreeIds)
    OBVIOUS
  <2>2. n \in FreeIds /\ n \in Nat
    <3>1. FreeIds \subseteq Nat
      BY RcmServerAssumption DEF RcmServerAssumption, FreeIds, JobIds
    <3>. QED BY <1>3, <2>1, <3>1, NatMin
  <2>3. PICK id : id = IdAfter(n)
    OBVIOUS
  <2>4. id \in JobIds /\ \A i \in DOMAIN jobs : jobs[i].id # id
    BY <2>2, <2>3, IdAfterIsId, FindIs DEF FreeIds
  <2>5. jobId' = id /\ \/ /\ jobs' = Append(jobs, [id |-> id, born |-> m, empty |-> TRUE, msgQue |-> <<>>])
                          /\ Answer(m, "success")
                       \/ UNCHANGED jobs /\ Answer(m, "error")
    BY <1>3, <2>1, <2>3 DEF AcquireJob
  <2>. QED BY <1>1, <2>4, <2>5, AnswerIs DEF Adds
<1>. QED BY <1>2, <1>3

LEMMA ReleaseIs ==
  ASSUME TypeInv, BoundInv, NEW m \in Messages, ReleaseJob(m)
  PROVE  /\ jobId' \in JobIds
         /\ \/ jobs' = jobs /\ Answers(m, {})
            \/ \E k \in DOMAIN jobs : jobs' = RemoveAt(jobs, k) /\ Answers(m, Q(k))
<1>1. {"jobNotFound", "success", "unprocessed"} \subseteq Statuses
  BY DEF Statuses
<1>. DEFINE found == Find(msg[m].job)
<1>2. CASE found = {}
  BY <1>1, <1>2, AnswerIs DEF ReleaseJob, jobVars, TypeInv
<1>3. CASE found # {}
  <2>1. PICK k : k = Min(found)
    OBVIOUS
  <2>2. k \in DOMAIN jobs
    BY <1>3, <2>1, FindIs
  <2>3. /\ answers' = [x \in DOMAIN answers |->
              IF x = m THEN Append(answers[x], "success")
              ELSE IF x \in Q(k) THEN Append(answers[x], "unprocessed") ELSE answers[x]]
        /\ jobs' = RemoveAt(jobs, k) /\ jobId' = jobId
    BY <1>3, <2>1 DEF ReleaseJob, Q
  <2>4. DOMAIN answers = Messages /\ Messages = 1 .. Len(answers) /\ Len(answers) \in Nat
    BY KindsOf DEF TypeInv, Messages
  <2>5. \A x \in Messages : answers'[x] \in Seq(Statuses)
    <3>1. SUFFICES ASSUME NEW x \in Messages PROVE answers'[x] \in Seq(Statuses)
      OBVIOUS
    <3>2. answers[x] \in Seq(Statuses)
      BY KindsOf
    <3>3. Append(answers[x], "success") \in Seq(Statuses) /\ Append(answers[x], "unprocessed") \in Seq(Statuses)
      BY <1>1, <3>2, AppendIs
    <3>. QED BY <2>3, <2>4, <3>2, <3>3
  <2>6. answers' \in Seq(Seq(Statuses)) /\ Len(answers') = Len(answers)
    <3>1. answers' = [x \in 1 .. Len(answers) |-> answers'[x]]
      BY <2>3, <2>4
    <3>. QED BY <2>4, <2>5, <3>1, IsASeq
  <2>7. Q(k) \subseteq Messages
    BY <2>2 DEF BoundInv
  <2>. QED BY <1>1, <2>2, <2>3, <2>4, <2>6, <2>7 DEF Answers, TypeInv
<1>. QED BY <1>2, <1>3

LEMMA ProcessIs ==
  ASSUME TypeInv, BoundInv, NEW m \in Messages, Process(m)
  PROVE  /\ jobId' \in JobIds
         /\ \/ (jobs' = jobs \/ Adds(m)) /\ Answers(m, {})
            \/ \E k \in DOMAIN jobs : jobs' = RemoveAt(jobs, k) /\ Answers(m, Q(k))
<1>. DEFINE k == msg[m]
<1>1. /\ \A status \in {"success", "msgFxnErr", "invalidFxn", "notSet", "symbolNotFound"} : status \in Statuses
      /\ FxnStatus(k.fxn) \in Statuses
  BY DEF Statuses, FxnStatus
<1>2. CASE UNCHANGED jobVars /\ \E status \in Statuses : Answer(m, status)
  BY <1>2, AnswerIs DEF jobVars, TypeInv
<1>3. CASE UNCHANGED <<answers, jobVars>> /\ ~Expected(m)
  BY <1>3, KindsOf DEF jobVars, Answers, TypeInv
<1>4. CASE k.type = "cmd" /\ UNCHANGED jobVars
           /\ IF k.fxn = "ok" THEN UNCHANGED answers ELSE Answer(m, FxnStatus(k.fxn))
  BY <1>1, <1>2, <1>3, <1>4 DEF Expected
<1>5. CASE k.type = "symIdx" /\ UNCHANGED jobVars
           /\ Answer(m, IF k.fxn = "ok" THEN "success" ELSE "symbolNotFound")
  BY <1>1, <1>2, <1>5
<1>6. CASE AcquireJob(m)
  BY <1>6, AcquireIs
<1>7. CASE ReleaseJob(m)
  BY <1>7, ReleaseIs
<1>. QED
  BY <1>1, <1>2, <1>3, <1>4, <1>5, <1>6, <1>7 DEF Process, Expected

-----------------------------------------------------------------------------
\* What the list of jobs and the ready queues are after each change.

\* Nothing but the state of job i and its queue differs.
JobsSame(i) ==
  /\ jobs' \in Seq(Job) /\ DOMAIN jobs' = DOMAIN jobs
  /\ \A j \in DOMAIN jobs : jobs'[j].id = jobs[j].id /\ jobs'[j].born = jobs[j].born
  /\ \A j \in DOMAIN jobs \ {i} : jobs'[j] = jobs[j] /\ Q(j)' = Q(j)

LEMMA JobFields ==
  ASSUME TypeInv, NEW i \in DOMAIN jobs
  PROVE  /\ jobs[i] \in Job
         /\ jobs[i].id \in JobIds /\ jobs[i].born \in Nat /\ jobs[i].empty \in BOOLEAN
         /\ jobs[i].msgQue \in Seq(Nat)
<1>1. jobs[i] \in Job
  BY ElementOfSeq DEF TypeInv
<1>. QED BY <1>1 DEF Job

LEMMA JobIs ==
  ASSUME TypeInv, NEW i \in DOMAIN jobs, NEW job \in Job,
         job.id = jobs[i].id, job.born = jobs[i].born, jobs' = [jobs EXCEPT ![i] = job]
  PROVE  JobsSame(i) /\ jobs'[i] = job
<1>1. jobs \in Seq(Job)
  BY DEF TypeInv
<1>2. /\ jobs' \in Seq(Job) /\ DOMAIN jobs' = DOMAIN jobs /\ jobs'[i] = job
      /\ \A j \in DOMAIN jobs \ {i} : jobs'[j] = jobs[j]
  BY <1>1, ExceptIs
<1>. QED BY <1>2 DEF JobsSame, Q

LEMMA MarkIs ==
  ASSUME TypeInv, NEW i \in DOMAIN jobs, NEW b \in BOOLEAN,
         jobs' = [jobs EXCEPT ![i].empty = b]
  PROVE  JobsSame(i) /\ jobs'[i].empty = b /\ jobs'[i].msgQue = jobs[i].msgQue /\ Q(i)' = Q(i)
<1>1. jobs[i] \in Job
  BY JobFields
<1>2. PICK job : job = [jobs[i] EXCEPT !.empty = b]
  OBVIOUS
<1>3. job \in Job /\ job.id = jobs[i].id /\ job.born = jobs[i].born
      /\ job.empty = b /\ job.msgQue = jobs[i].msgQue
  BY <1>1, <1>2 DEF Job
<1>4. jobs' = [jobs EXCEPT ![i] = job] /\ jobs \in Seq(Job)
  BY <1>2 DEF TypeInv
<1>5. JobsSame(i) /\ jobs'[i] = job
  BY <1>3, <1>4, JobIs
<1>. QED BY <1>3, <1>5 DEF JobsSame, Q

LEMMA EnqueueIs ==
  ASSUME TypeInv, NEW i \in DOMAIN jobs, NEW m \in Nat,
         jobs' = [jobs EXCEPT ![i].msgQue = Append(@, m)]
  PROVE  /\ JobsSame(i) /\ jobs'[i].empty = jobs[i].empty
         /\ jobs'[i].msgQue = Append(jobs[i].msgQue, m) /\ Q(i)' = Q(i) \cup {m}
<1>1. jobs[i] \in Job /\ jobs[i].msgQue \in Seq(Nat)
  BY JobFields
<1>2. PICK job : job = [jobs[i] EXCEPT !.msgQue = Append(jobs[i].msgQue, m)]
  OBVIOUS
<1>3. job \in Job /\ job.id = jobs[i].id /\ job.born = jobs[i].born
      /\ job.empty = jobs[i].empty /\ job.msgQue = Append(jobs[i].msgQue, m)
  BY <1>1, <1>2, AppendIs DEF Job
<1>4. jobs' = [jobs EXCEPT ![i] = job] /\ jobs \in Seq(Job)
  BY <1>2 DEF TypeInv
<1>5. JobsSame(i) /\ jobs'[i] = job
  BY <1>3, <1>4, JobIs
<1>6. Range(jobs'[i].msgQue) = Q(i) \cup {m}
  <2>1. jobs'[i].msgQue = Append(jobs[i].msgQue, m)
    BY <1>3, <1>5
  <2>2. Range(Append(jobs[i].msgQue, m)) = Range(jobs[i].msgQue) \cup {m}
    BY <1>1, AppendRange
  <2>. QED BY <2>1, <2>2 DEF Q
<1>. QED BY <1>3, <1>5, <1>6 DEF JobsSame, Q

LEMMA DequeueIs ==
  ASSUME TypeInv, NEW i \in DOMAIN jobs, jobs[i].msgQue # <<>>,
         jobs' = [jobs EXCEPT ![i].msgQue = Tail(@)]
  PROVE  /\ JobsSame(i) /\ jobs'[i].empty = jobs[i].empty
         /\ jobs'[i].msgQue = Tail(jobs[i].msgQue)
         /\ Head(jobs[i].msgQue) \in Q(i) /\ Q(i) = Q(i)' \cup {Head(jobs[i].msgQue)}
<1>1. jobs[i] \in Job /\ jobs[i].msgQue \in Seq(Nat)
  BY JobFields
<1>2. PICK job : job = [jobs[i] EXCEPT !.msgQue = Tail(jobs[i].msgQue)]
  OBVIOUS
<1>3. job \in Job /\ job.id = jobs[i].id /\ job.born = jobs[i].born
      /\ job.empty = jobs[i].empty /\ job.msgQue = Tail(jobs[i].msgQue)
  BY <1>1, <1>2, TailIs DEF Job
<1>4. jobs' = [jobs EXCEPT ![i] = job] /\ jobs \in Seq(Job)
  BY <1>2 DEF TypeInv
<1>5. JobsSame(i) /\ jobs'[i] = job
  BY <1>3, <1>4, JobIs
<1>6. Q(i) = Range(jobs'[i].msgQue) \cup {Head(jobs[i].msgQue)}
  BY <1>1, <1>3, <1>5, TailIs DEF Q
<1>. QED BY <1>3, <1>5, <1>6 DEF JobsSame, Q

\* The job n, which m acquired, is new.
Added(m, n, id) ==
  /\ n \notin DOMAIN jobs /\ DOMAIN jobs' = DOMAIN jobs \cup {n}
  /\ \A i \in DOMAIN jobs : jobs'[i] = jobs[i] /\ Q(i)' = Q(i) /\ jobs[i].id # id
  /\ jobs'[n].id = id /\ jobs'[n].born = m /\ jobs'[n].empty
  /\ jobs'[n].msgQue = <<>> /\ Q(n)' = {}
  /\ jobs' \in Seq(Job)

LEMMA AddsIs ==
  ASSUME TypeInv, NEW m \in Nat, Adds(m)
  PROVE  \E n, id \in Nat : Added(m, n, id)
<1>1. PICK id \in JobIds :
        /\ \A i \in DOMAIN jobs : jobs[i].id # id
        /\ jobs' = Append(jobs, [id |-> id, born |-> m, empty |-> TRUE, msgQue |-> <<>>])
  BY DEF Adds
<1>. DEFINE job == [id |-> id, born |-> m, empty |-> TRUE, msgQue |-> <<>>]
<1>2. job \in Job /\ id \in Nat /\ jobs \in Seq(Job)
  BY RcmServerAssumption DEF RcmServerAssumption, Job, JobIds, TypeInv
<1>3. job.id = id /\ job.born = m /\ job.empty /\ job.msgQue = <<>>
  OBVIOUS
<1>. HIDE DEF job
<1>4. jobs' = Append(jobs, job)
  BY <1>1 DEF job
<1>5. /\ jobs' \in Seq(Job) /\ DOMAIN jobs' = DOMAIN jobs \cup {Len(jobs) + 1}
      /\ Len(jobs) + 1 \notin DOMAIN jobs /\ Len(jobs) + 1 \in Nat
      /\ \A i \in DOMAIN jobs : jobs'[i] = jobs[i]
      /\ jobs'[Len(jobs) + 1] = job
  BY <1>2, <1>4, AppendIs
<1>6. \A i \in DOMAIN jobs : Q(i)' = Q(i)
  BY <1>5 DEF Q
<1>7. PICK n : n = Len(jobs) + 1
  OBVIOUS
<1>8. Q(n)' = {}
  BY <1>3, <1>5, <1>7, EmptyRange DEF Q
<1>. QED BY <1>1, <1>2, <1>3, <1>5, <1>6, <1>7, <1>8 DEF Added

\* The job k has gone; up[i] is where the job i was.
Removed(k, up) ==
  /\ up \in [DOMAIN jobs' -> DOMAIN jobs]
  /\ \A i \in DOMAIN jobs' : up[i] # k /\ jobs'[i] = jobs[up[i]] /\ Q(i)' = Q(up[i])
  /\ \A i, j \in DOMAIN jobs' : up[i] = up[j] => i = j
  /\ \A j \in DOMAIN jobs \ {k} : \E i \in DOMAIN jobs' : up[i] = j

LEMMA RemovesIs ==
  ASSUME TypeInv, NEW k \in DOMAIN jobs, jobs' = RemoveAt(jobs, k)
  PROVE  jobs' \in Seq(Job) /\ \E up : Removed(k, up)
<1>1. /\ jobs' \in Seq(Job) /\ Len(jobs') = Len(jobs) - 1
      /\ \A i \in 1 .. Len(jobs) - 1 : jobs'[i] = IF i < k THEN jobs[i] ELSE jobs[i + 1]
  BY RemoveAtIs DEF TypeInv
<1>2. /\ DOMAIN jobs = 1 .. Len(jobs) /\ Len(jobs) \in Nat /\ k \in 1 .. Len(jobs)
      /\ DOMAIN jobs' = 1 .. Len(jobs) - 1
  BY <1>1 DEF TypeInv
<1>. DEFINE up == [i \in DOMAIN jobs' |-> IF i < k THEN i ELSE i + 1]
<1>3. /\ up \in [DOMAIN jobs' -> DOMAIN jobs]
      /\ \A i \in DOMAIN jobs' : up[i] # k /\ jobs'[i] = jobs[up[i]]
  BY <1>1, <1>2
<1>4. \A i, j \in DOMAIN jobs' : up[i] = up[j] => i = j
  BY <1>2
<1>5. ASSUME NEW j \in DOMAIN jobs \ {k} PROVE \E i \in DOMAIN jobs' : up[i] = j
  <2>1. CASE j < k
    BY <1>2, <2>1
  <2>2. CASE j > k
    <3>1. j - 1 \in DOMAIN jobs' /\ ~(j - 1 < k) /\ (j - 1) + 1 = j
      BY <1>2, <2>2
    <3>. QED BY <3>1
  <2>. QED BY <1>2, <2>1, <2>2
<1>. HIDE DEF up
<1>6. \A i \in DOMAIN jobs' : Q(i)' = Q(up[i])
  BY <1>3 DEF Q
<1>. QED BY <1>1, <1>3, <1>4, <1>5, <1>6 DEF Removed

LEMMA PutIs ==
  ASSUME TypeInv, NEW p \in Pools, NEW m \in Nat, PutReady(p, m)
  PROVE  /\ ready' \in [Pools -> Seq(Nat)] /\ sem' \in [Pools -> Nat]
         /\ ready'[p] = Append(ready[p], m) /\ R(p)' = R(p) \cup {m}
         /\ sem'[p] = sem[p] + 1 /\ Len(ready'[p]) = Len(ready[p]) + 1
         /\ \A q \in Pools \ {p} : ready'[q] = ready[q] /\ R(q)' = R(q) /\ sem'[q] = sem[q]
<1>1. ready[p] \in Seq(Nat) /\ ready \in [Pools -> Seq(Nat)] /\ sem \in [Pools -> Nat]
  BY DEF TypeInv
<1>2. Append(ready[p], m) \in Seq(Nat) /\ Len(Append(ready[p], m)) = Len(ready[p]) + 1
  BY <1>1, AppendIs
<1>3. Range(Append(ready[p], m)) = R(p) \cup {m}
  BY <1>1, AppendRange DEF R
<1>4. /\ ready' = [ready EXCEPT ![p] = Append(ready[p], m)]
      /\ sem' = [sem EXCEPT ![p] = sem[p] + 1]
  BY <1>1 DEF PutReady
<1>. QED BY <1>1, <1>2, <1>3, <1>4 DEF R

\* The next message m is k, with the answers a and the stream b.
Grown(m, k, a, b) ==
  /\ m \in Nat /\ m \notin Messages /\ m = Len(msg) + 1 /\ \A x \in Messages : x \in Nat /\ x < m
  /\ Len(msg') = m /\ Messages' = Messages \cup {m}
  /\ msg' \in Seq(config.kinds) /\ m <= config.max
  /\ answers' \in Seq(Seq(Statuses)) /\ Len(answers') = m
  /\ stream' \in Seq(0 .. config.max) /\ Len(stream') = m
  /\ msg'[m] = k /\ answers'[m] = a /\ stream'[m] = b
  /\ \A x \in Messages : msg'[x] = msg[x] /\ answers'[x] = answers[x] /\ stream'[x] = stream[x]

LEMMA GrownIs ==
  ASSUME TypeInv, NEW k \in config.kinds, NEW a \in Seq(Statuses), NEW b \in 0 .. config.max,
         NEW m, m = Len(msg) + 1, Len(msg) < config.max,
         msg' = Append(msg, k), answers' = Append(answers, a), stream' = Append(stream, b)
  PROVE  Grown(m, k, a, b)
<1>1. config.max \in Nat /\ Len(msg) \in Nat
  BY RcmServerAssumption DEF RcmServerAssumption, TypeInv
<1>2. m \in Nat /\ m \notin Messages /\ (\A x \in Messages : x \in Nat /\ x < m) /\ m <= config.max
  BY <1>1 DEF Messages
<1>3. /\ msg' \in Seq(config.kinds) /\ Len(msg') = m /\ msg'[m] = k
      /\ \A x \in Messages : msg'[x] = msg[x]
  <2>1. msg \in Seq(config.kinds) /\ DOMAIN msg = Messages
    BY DEF TypeInv, Messages
  <2>. QED BY <2>1, AppendIs
<1>4. Messages' = Messages \cup {m}
  BY <1>1, <1>3 DEF Messages
<1>5. /\ answers' \in Seq(Seq(Statuses)) /\ Len(answers') = m /\ answers'[m] = a
      /\ \A x \in Messages : answers'[x] = answers[x]
  <2>1. answers \in Seq(Seq(Statuses)) /\ DOMAIN answers = Messages /\ Len(answers) = Len(msg)
    BY DEF TypeInv, Messages
  <2>. QED BY <2>1, AppendIs
<1>6. /\ stream' \in Seq(0 .. config.max) /\ Len(stream') = m /\ stream'[m] = b
      /\ \A x \in Messages : stream'[x] = stream[x]
  <2>1. PICK T : T = 0 .. config.max
    OBVIOUS
  <2>2. stream \in Seq(T) /\ DOMAIN stream = Messages /\ Len(stream) = Len(msg)
    BY <2>1 DEF TypeInv, Messages
  <2>3. b \in T
    BY <2>1
  <2>4. /\ stream' \in Seq(T) /\ Len(stream') = m /\ stream'[m] = b
        /\ \A x \in Messages : stream'[x] = stream[x]
    BY <2>2, <2>3, AppendIs
  <2>. QED BY <2>1, <2>4
<1>. QED BY <1>2, <1>3, <1>4, <1>5, <1>6 DEF Grown

\* Where the message that is taken goes.
TakenInBand(m, k) ==
  serverPc' = "process" /\ UNCHANGED <<jobs, ready, sem>> /\ Grown(m, k, <<>>, 0)

TakenRejected(m, k) ==
  /\ serverPc' \in {"recv", "exited"} /\ UNCHANGED <<jobs, ready, sem>>
  /\ \E status \in Statuses : Grown(m, k, <<status>>, 0)

TakenDiscrete(m, k) ==
  /\ serverPc' \in {"recv", "exited"} /\ UNCHANGED jobs
  /\ k.pool \in Pools /\ k.job = Discrete /\ PutReady(k.pool, m) /\ Grown(m, k, <<>>, 0)

TakenForJob(m, k) ==
  /\ serverPc' \in {"recv", "exited"}
  /\ k.pool \in Pools /\ k.job # Discrete
  /\ \E i \in DOMAIN jobs :
       /\ jobs[i].id = k.job /\ Grown(m, k, <<>>, jobs[i].born)
       /\ \/ jobs[i].empty /\ jobs' = [jobs EXCEPT ![i].empty = FALSE] /\ PutReady(k.pool, m)
          \/ /\ ~jobs[i].empty /\ jobs' = [jobs EXCEPT ![i].msgQue = Append(@, m)]
             /\ UNCHANGED <<ready, sem>>

LEMMA TakeIs ==
  ASSUME TypeInv, BoundInv, NEW k \in config.kinds, ServerTake(k), NEW m, m = Len(msg) + 1
  PROVE  /\ serverPc = "recv" /\ (shutdown => k.job = Discrete)
         /\ UNCHANGED <<config, jobId, wkPc, wkMsg, terminate, shutdown, finalizing>>
         /\ \/ TakenInBand(m, k) \/ TakenRejected(m, k)
            \/ TakenDiscrete(m, k) \/ TakenForJob(m, k)
<1>. USE DEF ServerTake
<1>0. /\ serverPc = "recv" /\ (shutdown => k.job = Discrete)
      /\ UNCHANGED <<config, jobId, wkPc, wkMsg, terminate, shutdown, finalizing>>
      /\ msg' = Append(msg, k) /\ Len(msg) < config.max
  BY DEF wkVars, endVars
<1>. SUFFICES \/ TakenInBand(m, k) \/ TakenRejected(m, k)
              \/ TakenDiscrete(m, k) \/ TakenForJob(m, k)
  BY <1>0
<1>1. k \in Kinds /\ config.max \in Nat /\ Len(msg) \in Nat
  BY RcmServerAssumption DEF RcmServerAssumption, TypeInv
<1>2. /\ <<>> \in Seq(Statuses) /\ \A status \in Statuses : <<status>> \in Seq(Statuses)
      /\ 0 \in 0 .. config.max
      /\ "poolNotFound" \in Statuses /\ "jobNotFound" \in Statuses
  BY <1>1 DEF Statuses
<1>3. ASSUME answers' = Append(answers, <<>>), stream' = Append(stream, 0) PROVE Grown(m, k, <<>>, 0)
  BY <1>0, <1>2, <1>3, GrownIs
<1>4. CASE k.pool = 0 /\ Of(0) = {}
  BY <1>3, <1>4 DEF TakenInBand, poolVars
<1>5. CASE ~(k.pool = 0 /\ Of(0) = {})
  <2>1. serverPc' \in {"recv", "exited"} /\ Dispatch(m, k)
    BY <1>5
  <2>2. ASSUME NEW status \in {"poolNotFound", "jobNotFound"}, Rejected(m, status)
        PROVE  TakenRejected(m, k)
    <3>1. Grown(m, k, <<status>>, 0)
      BY <1>0, <1>2, <2>2, GrownIs DEF Rejected
    <3>. QED BY <1>2, <2>1, <2>2, <3>1 DEF Rejected, TakenRejected, poolVars
  <2>3. k.pool # NoPool => k.pool \in Pools
    BY <1>1 DEF Kinds
  <2>4. CASE k.pool = NoPool /\ Rejected(m, "poolNotFound")
    BY <2>2, <2>4
  <2>5. CASE /\ k.pool # NoPool /\ k.job = Discrete
             /\ answers' = Append(answers, <<>>) /\ stream' = Append(stream, 0)
             /\ PutReady(k.pool, m) /\ UNCHANGED jobs
    BY <1>3, <2>1, <2>3, <2>5 DEF TakenDiscrete
  <2>6. CASE k.pool # NoPool /\ k.job # Discrete /\ Find(k.job) = {} /\ Rejected(m, "jobNotFound")
    BY <2>2, <2>6
  <2>7. CASE /\ k.pool # NoPool /\ k.job # Discrete /\ Find(k.job) # {}
             /\ LET i == Min(Find(k.job)) IN
                /\ answers' = Append(answers, <<>>) /\ stream' = Append(stream, jobs[i].born)
                /\ IF jobs[i].empty THEN jobs' = [jobs EXCEPT ![i].empty = FALSE] /\ PutReady(k.pool, m)
                   ELSE /\ jobs' = [jobs EXCEPT ![i].msgQue = Append(@, m)]
                        /\ UNCHANGED poolVars
    <3>1. PICK i : i = Min(Find(k.job))
      OBVIOUS
    <3>2. i \in DOMAIN jobs /\ jobs[i].id = k.job
      BY <2>7, <3>1, FindIs
    <3>3. jobs[i].born \in 0 .. config.max
      <4>1. jobs[i].born \in Messages /\ Len(msg) <= config.max
        BY <3>2 DEF BoundInv, TypeInv
      <4>. QED BY <1>1, <4>1 DEF Messages
    <3>4. /\ answers' = Append(answers, <<>>) /\ stream' = Append(stream, jobs[i].born)
          /\ \/ jobs[i].empty /\ jobs' = [jobs EXCEPT ![i].empty = FALSE] /\ PutReady(k.pool, m)
             \/ /\ ~jobs[i].empty /\ jobs' = [jobs EXCEPT ![i].msgQue = Append(@, m)]
                /\ UNCHANGED <<ready, sem>>
      BY <2>7, <3>1 DEF poolVars
    <3>5. Grown(m, k, <<>>, jobs[i].born)
      BY <1>0, <1>2, <3>3, <3>4, GrownIs
    <3>. QED BY <2>1, <2>3, <2>7, <3>2, <3>4, <3>5 DEF TakenForJob
  <2>. QED BY <2>1, <2>4, <2>5, <2>6, <2>7 DEF Dispatch
<1>. QED BY <1>4, <1>5

\* What the steps of a worker do to the queues.
LEMMA WorkerTakeIs ==
  ASSUME TypeInv, PostInv, NEW w \in Workers, NEW p \in Pools, WorkerTake(w, p)
  PROVE  /\ wkPc[w] = "idle" /\ w \in Of(p) /\ sem[p] > 0
         /\ sem' \in [Pools -> Nat] /\ sem'[p] = sem[p] - 1 /\ \A q \in Pools \ {p} : sem'[q] = sem[q]
         /\ \/ /\ terminate[p] /\ wkPc' = [wkPc EXCEPT ![w] = "exited"]
               /\ UNCHANGED <<ready, wkMsg>>
            \/ /\ ~terminate[p] /\ wkPc' = [wkPc EXCEPT ![w] = "process"]
               /\ ready[p] # <<>> /\ Head(ready[p]) \in R(p) /\ Head(ready[p]) \in Nat
               /\ wkMsg' = [wkMsg EXCEPT ![w] = Head(ready[p])]
               /\ ready' \in [Pools -> Seq(Nat)] /\ ready'[p] = Tail(ready[p])
               /\ Len(ready'[p]) = Len(ready[p]) - 1
               /\ R(p) = R(p)' \cup {Head(ready[p])}
               /\ \A q \in Pools \ {p} : ready'[q] = ready[q] /\ R(q)' = R(q)
<1>. USE DEF WorkerTake
<1>1. /\ ready \in [Pools -> Seq(Nat)] /\ sem \in [Pools -> Nat] /\ terminate \in [Pools -> BOOLEAN]
      /\ ready[p] \in Seq(Nat)
  BY DEF TypeInv
<1>2. /\ wkPc[w] = "idle" /\ w \in Of(p) /\ sem[p] > 0
      /\ sem' = [sem EXCEPT ![p] = sem[p] - 1]
  BY <1>1
<1>3. sem' \in [Pools -> Nat] /\ sem'[p] = sem[p] - 1 /\ \A q \in Pools \ {p} : sem'[q] = sem[q]
  BY <1>1, <1>2
<1>4. CASE terminate[p]
  BY <1>2, <1>3, <1>4
<1>5. CASE ~terminate[p]
  <2>0. sem[p] = Len(ready[p])
    BY <1>5 DEF PostInv, PostPerMessage
  <2>1. ready[p] # <<>>
    BY <1>1, <1>2, <2>0
  <2>2. /\ Head(ready[p]) \in Nat /\ Tail(ready[p]) \in Seq(Nat)
        /\ Len(Tail(ready[p])) = Len(ready[p]) - 1
        /\ R(p) = Range(Tail(ready[p])) \cup {Head(ready[p])}
    BY <1>1, <2>1, TailIs DEF R
  <2>3. ready' = [ready EXCEPT ![p] = Tail(ready[p])]
    BY <1>1, <1>5
  <2>4. wkMsg' = [wkMsg EXCEPT ![w] = Head(ready[p])] /\ wkPc' = [wkPc EXCEPT ![w] = "process"]
    BY <1>5
  <2>5. /\ ready' \in [Pools -> Seq(Nat)] /\ ready'[p] = Tail(ready[p])
        /\ \A q \in Pools \ {p} : ready'[q] = ready[q] /\ R(q)' = R(q)
    BY <1>1, <2>2, <2>3 DEF R
  <2>6. R(p)' = Range(Tail(ready[p]))
    BY <2>5 DEF R
  <2>. QED BY <1>2, <1>3, <1>5, <2>1, <2>2, <2>4, <2>5, <2>6
<1>. QED BY <1>4, <1>5

\* The list and the queues after a worker has looked for the next message.
Empties(i) ==
  jobs[i].msgQue = <<>> /\ jobs' = [jobs EXCEPT ![i].empty = TRUE] /\ UNCHANGED <<ready, sem>>

Continues(i, m) ==
  /\ jobs[i].msgQue # <<>> /\ m = Head(jobs[i].msgQue) /\ m \in Q(i)
  /\ jobs' = [jobs EXCEPT ![i].msgQue = Tail(@)]
  /\ msg[m].pool \in Pools /\ PutReady(msg[m].pool, m)

LEMMA WorkerNextIs ==
  ASSUME TypeInv, BoundInv, NEW w \in Workers, WorkerNext(w)
  PROVE  \/ UNCHANGED <<jobs, ready, sem>> /\ \A i \in DOMAIN jobs : jobs[i].id # msg[wkMsg[w]].job
         \/ \E i \in DOMAIN jobs :
              /\ jobs[i].id = msg[wkMsg[w]].job
              /\ Empties(i) \/ \E m \in Messages : Continues(i, m)
<1>. DEFINE found == Find(msg[wkMsg[w]].job)
<1>1. CASE found = {}
  BY <1>1, FindIs DEF WorkerNext, poolVars
<1>2. CASE found # {}
  <2>1. PICK i : i = Min(found)
    OBVIOUS
  <2>2. i \in DOMAIN jobs /\ jobs[i].id = msg[wkMsg[w]].job
    BY <1>2, <2>1, FindIs
  <2>3. NextOfJob(i)
    BY <1>2, <2>1 DEF WorkerNext
  <2>4. CASE jobs[i].msgQue = <<>>
    BY <2>2, <2>3, <2>4 DEF NextOfJob, Empties, poolVars
  <2>5. CASE jobs[i].msgQue # <<>>
    <3>1. PICK m : m = Head(jobs[i].msgQue)
      OBVIOUS
    <3>2. jobs[i].msgQue \in Seq(Nat)
      BY <2>2, JobFields
    <3>3. m \in Q(i)
      BY <2>5, <3>1, <3>2, TailIs DEF Q
    <3>4. m \in Messages /\ msg[m].pool \in Pools
      BY <2>2, <3>3 DEF BoundInv
    <3>. QED BY <2>2, <2>3, <2>5, <3>1, <3>3, <3>4 DEF NextOfJob, Continues
  <2>. QED BY <2>4, <2>5
<1>. QED BY <1>1, <1>2

-----------------------------------------------------------------------------
\* Types and bounds.

\* Processing keeps the types and the bounds of the jobs.
LEMMA ProcessTypes ==
  ASSUME TypeInv, BoundInv, NEW m \in Messages, Process(m), UNCHANGED msg
  PROVE  /\ jobId' \in JobIds /\ jobs' \in Seq(Job)
         /\ answers' \in Seq(Seq(Statuses)) /\ Len(answers') = Len(msg)
         /\ \A i \in DOMAIN jobs' :
              /\ Q(i)' \subseteq Messages /\ jobs'[i].born \in Messages
              /\ \A x \in Q(i)' : msg[x].pool \in Pools
<1>. USE DEF BoundInv
<1>1. /\ jobId' \in JobIds
      /\ \/ (jobs' = jobs \/ Adds(m)) /\ Answers(m, {})
         \/ \E k \in DOMAIN jobs : jobs' = RemoveAt(jobs, k) /\ Answers(m, Q(k))
  BY ProcessIs
<1>2. answers' \in Seq(Seq(Statuses)) /\ Len(answers') = Len(msg)
  BY <1>1 DEF Answers, TypeInv
<1>3. CASE jobs' = jobs
  <2>1. \A i \in DOMAIN jobs : Q(i)' = Q(i)
    BY <1>3 DEF Q
  <2>. QED BY <1>1, <1>2, <1>3, <2>1 DEF TypeInv
<1>4. CASE Adds(m)
  <2>1. m \in Nat
    BY KindsOf DEF Messages
  <2>2. PICK n, id \in Nat : Added(m, n, id)
    BY <1>4, <2>1, AddsIs
  <2>3. \A i \in DOMAIN jobs' :
              /\ Q(i)' \subseteq Messages /\ jobs'[i].born \in Messages
              /\ \A x \in Q(i)' : msg[x].pool \in Pools
    BY <2>2 DEF Added
  <2>. QED BY <1>1, <1>2, <2>2, <2>3 DEF Added
<1>5. CASE \E k \in DOMAIN jobs : jobs' = RemoveAt(jobs, k)
  BY <1>1, <1>2, <1>5, RemovesIs DEF Removed
<1>. QED BY <1>1, <1>3, <1>4, <1>5

LEMMA OfFinite ==
  ASSUME NEW p
  PROVE  IsFiniteSet(Of(p)) /\ \A S \in SUBSET Of(p) : IsFiniteSet(S)
<1>1. IsFiniteSet(Workers)
  BY RcmServerAssumption DEF RcmServerAssumption
<1>2. IsFiniteSet(Of(p))
  BY <1>1, FS_Subset DEF Of
<1>. QED BY <1>2, FS_Subset

LEMMA ReturnReadyIs ==
  ASSUME TypeInv, NEW p, ReturnReady(p)
  PROVE  /\ answers' \in Seq(Seq(Statuses)) /\ Len(answers') = Len(msg)
         /\ \A m \in Messages :
              answers'[m] = IF m \in R(p) THEN Append(answers[m], "unprocessed") ELSE answers[m]
<1>1. "unprocessed" \in Statuses
  BY DEF Statuses
<1>2. DOMAIN answers = Messages /\ Messages = 1 .. Len(answers) /\ Len(answers) \in Nat
      /\ Len(answers) = Len(msg)
  BY KindsOf DEF TypeInv, Messages
<1>3. answers' = [m \in Messages |->
                    IF m \in R(p) THEN Append(answers[m], "unprocessed") ELSE answers[m]]
  BY <1>2 DEF ReturnReady, R
<1>4. ASSUME NEW m \in Messages PROVE answers'[m] \in Seq(Statuses)
  <2>1. answers[m] \in Seq(Statuses)
    BY KindsOf
  <2>2. Append(answers[m], "unprocessed") \in Seq(Statuses)
    BY <1>1, <2>1, AppendIs
  <2>. QED BY <1>3, <2>1, <2>2
<1>5. answers' \in Seq(Seq(Statuses)) /\ Len(answers') = Len(answers)
  <2>1. answers' = [m \in 1 .. Len(answers) |-> answers'[m]]
    BY <1>2, <1>3
  <2>. QED BY <1>2, <1>4, <2>1, IsASeq
<1>. QED BY <1>2, <1>3, <1>5

LEMMA TakeKeepsTypes ==
  ASSUME TypeInv, BoundInv, NEW k \in config.kinds, ServerTake(k)
  PROVE  TypeInv' /\ BoundInv'
<1>1. PICK m : m = Len(msg) + 1
  OBVIOUS
<1>2. /\ serverPc = "recv" /\ (shutdown => k.job = Discrete)
      /\ UNCHANGED <<config, jobId, wkPc, wkMsg, terminate, shutdown, finalizing>>
      /\ \/ TakenInBand(m, k) \/ TakenRejected(m, k)
         \/ TakenDiscrete(m, k) \/ TakenForJob(m, k)
  BY <1>1, TakeIs
<1>3. PICK a, b : Grown(m, k, a, b)
  BY <1>2 DEF TakenInBand, TakenRejected, TakenDiscrete, TakenForJob
<1>4. SUFFICES /\ serverPc' \in {"recv", "process", "exited"}
               /\ jobs' \in Seq(Job)
               /\ ready' \in [Pools -> Seq(Nat)] /\ sem' \in [Pools -> Nat]
               /\ \A p \in Pools : R(p)' \subseteq Messages'
               /\ \A i \in DOMAIN jobs' :
                    /\ Q(i)' \subseteq Messages' /\ jobs'[i].born \in Messages'
                    /\ \A x \in Q(i)' : msg'[x].pool \in Pools
  <2>1. TypeInv'
    BY <1>2, <1>3, <1>4 DEF TypeInv, Grown
  <2>2. \A w \in Workers : Busy(w)' <=> Busy(w)
    BY <1>2 DEF Busy
  <2>3. \A w \in Workers : IF Busy(w)' THEN wkMsg'[w] \in Messages' ELSE wkMsg'[w] = 0
    BY <1>2, <1>3, <2>2 DEF Grown, BoundInv
  <2>4. Len(msg') \in Messages'
    BY <1>3 DEF Grown
  <2>. QED BY <1>4, <2>1, <2>3, <2>4 DEF BoundInv
<1>5. Messages \subseteq Messages' /\ m \in Messages' /\ m \in Nat /\ msg'[m] = k
      /\ \A x \in Messages : msg'[x] = msg[x]
  BY <1>3 DEF Grown
<1>6. ASSUME UNCHANGED jobs
      PROVE  /\ jobs' \in Seq(Job)
             /\ \A i \in DOMAIN jobs' :
                    /\ Q(i)' \subseteq Messages' /\ jobs'[i].born \in Messages'
                    /\ \A x \in Q(i)' : msg'[x].pool \in Pools
  <2>1. \A i \in DOMAIN jobs : Q(i)' = Q(i)
    BY <1>6 DEF Q
  <2>. QED BY <1>5, <1>6, <2>1 DEF TypeInv, BoundInv
<1>7. ASSUME UNCHANGED <<ready, sem>>
      PROVE  /\ ready' \in [Pools -> Seq(Nat)] /\ sem' \in [Pools -> Nat]
             /\ \A p \in Pools : R(p)' \subseteq Messages'
  <2>1. \A p \in Pools : R(p)' = R(p)
    BY <1>7 DEF R
  <2>. QED BY <1>5, <1>7, <2>1 DEF TypeInv, BoundInv
<1>8. ASSUME k.pool \in Pools, PutReady(k.pool, m)
      PROVE  /\ ready' \in [Pools -> Seq(Nat)] /\ sem' \in [Pools -> Nat]
             /\ \A p \in Pools : R(p)' \subseteq Messages'
  <2>1. /\ ready' \in [Pools -> Seq(Nat)] /\ sem' \in [Pools -> Nat]
        /\ R(k.pool)' = R(k.pool) \cup {m}
        /\ \A q \in Pools \ {k.pool} : R(q)' = R(q)
    BY <1>5, <1>8, PutIs
  <2>. QED BY <1>5, <1>8, <2>1 DEF BoundInv
<1>9. CASE TakenInBand(m, k)
  BY <1>6, <1>7, <1>9 DEF TakenInBand
<1>10. CASE TakenRejected(m, k)
  BY <1>6, <1>7, <1>10 DEF TakenRejected
<1>11. CASE TakenDiscrete(m, k)
  BY <1>6, <1>8, <1>11 DEF TakenDiscrete
<1>12. CASE TakenForJob(m, k)
  <2>1. PICK i \in DOMAIN jobs :
          /\ jobs[i].id = k.job /\ Grown(m, k, <<>>, jobs[i].born)
          /\ \/ jobs[i].empty /\ jobs' = [jobs EXCEPT ![i].empty = FALSE] /\ PutReady(k.pool, m)
             \/ /\ ~jobs[i].empty /\ jobs' = [jobs EXCEPT ![i].msgQue = Append(@, m)]
                /\ UNCHANGED <<ready, sem>>
    BY <1>12 DEF TakenForJob
  <2>2. serverPc' \in {"recv", "exited"} /\ k.pool \in Pools
    BY <1>12 DEF TakenForJob
  <2>3. JobsSame(i) /\ Q(i)' \subseteq Q(i) \cup {m}
    BY <1>5, <2>1, MarkIs, EnqueueIs
  <2>4. \A j \in DOMAIN jobs :
          /\ Q(j)' \subseteq Q(j) \cup {m} /\ jobs'[j].born \in Messages
          /\ \A x \in Q(j) : x \in Messages /\ msg[x].pool \in Pools
    BY <2>3 DEF JobsSame, BoundInv
  <2>5. \A j \in DOMAIN jobs :
          /\ Q(j)' \subseteq Messages' /\ jobs'[j].born \in Messages'
          /\ \A x \in Q(j)' : msg'[x].pool \in Pools
    BY <1>5, <2>2, <2>4
  <2>6. jobs' \in Seq(Job) /\ DOMAIN jobs' = DOMAIN jobs
    BY <2>3 DEF JobsSame
  <2>. QED BY <1>7, <1>8, <2>1, <2>2, <2>5, <2>6
<1>. QED BY <1>2, <1>9, <1>10, <1>11, <1>12

LEMMA ServerProcessKeepsTypes ==
  ASSUME TypeInv, BoundInv, ServerProcess
  PROVE  TypeInv' /\ BoundInv'
<1>1. /\ serverPc = "process" /\ Process(Len(msg)) /\ serverPc' \in {"recv", "exited"}
      /\ UNCHANGED <<config, msg, stream, ready, sem, wkPc, wkMsg, terminate, shutdown, finalizing>>
  BY DEF ServerProcess, poolVars, wkVars, endVars
<1>2. PICK m : m = Len(msg)
  OBVIOUS
<1>3. m \in Messages
  BY <1>1, <1>2 DEF BoundInv
<1>4. /\ jobId' \in JobIds /\ jobs' \in Seq(Job)
      /\ answers' \in Seq(Seq(Statuses)) /\ Len(answers') = Len(msg)
      /\ \A i \in DOMAIN jobs' :
           /\ Q(i)' \subseteq Messages /\ jobs'[i].born \in Messages
           /\ \A x \in Q(i)' : msg[x].pool \in Pools
  BY <1>1, <1>2, <1>3, ProcessTypes
<1>5. /\ Messages' = Messages
      /\ \A p \in Pools : R(p)' = R(p)
      /\ \A w \in Workers : Busy(w)' <=> Busy(w)
  BY <1>1 DEF Messages, R, Busy
<1>6. TypeInv'
  BY <1>1, <1>4 DEF TypeInv
<1>7. BoundInv'
  BY <1>1, <1>4, <1>5 DEF BoundInv
<1>. QED BY <1>6, <1>7

LEMMA WorkerProcessKeepsTypes ==
  ASSUME TypeInv, BoundInv, NEW w \in Workers, WorkerProcess(w)
  PROVE  TypeInv' /\ BoundInv'
<1>1. /\ wkPc[w] = "process" /\ Process(wkMsg[w])
      /\ UNCHANGED <<config, msg, stream, ready, sem, serverPc, terminate, shutdown, finalizing>>
      /\ \/ wkPc' = [wkPc EXCEPT ![w] = "idle"] /\ wkMsg' = [wkMsg EXCEPT ![w] = 0]
         \/ wkPc' = [wkPc EXCEPT ![w] = "next"] /\ wkMsg' = wkMsg
  BY DEF WorkerProcess, poolVars, endVars, TypeInv
<1>2. PICK m : m = wkMsg[w]
  OBVIOUS
<1>3. m \in Messages
  BY <1>1, <1>2 DEF BoundInv, Busy
<1>4. /\ jobId' \in JobIds /\ jobs' \in Seq(Job)
      /\ answers' \in Seq(Seq(Statuses)) /\ Len(answers') = Len(msg)
      /\ \A i \in DOMAIN jobs' :
           /\ Q(i)' \subseteq Messages /\ jobs'[i].born \in Messages
           /\ \A x \in Q(i)' : msg[x].pool \in Pools
  BY <1>1, <1>2, <1>3, ProcessTypes
<1>5. Messages' = Messages /\ \A p \in Pools : R(p)' = R(p)
  BY <1>1 DEF Messages, R
<1>6. TypeInv'
  <2>1. /\ wkPc' \in [Workers -> {"idle", "process", "next", "exited"}]
        /\ wkMsg' \in [Workers -> Nat]
    <3>1. /\ wkPc \in [Workers -> {"idle", "process", "next", "exited"}]
          /\ wkMsg \in [Workers -> Nat]
      BY DEF TypeInv
    <3>. QED BY <1>1, <3>1
  <2>. QED BY <1>1, <1>4, <2>1 DEF TypeInv
<1>7. \A v \in Workers : IF Busy(v)' THEN wkMsg'[v] \in Messages ELSE wkMsg'[v] = 0
  BY <1>1 DEF BoundInv, Busy, TypeInv
<1>8. BoundInv'
  BY <1>1, <1>4, <1>5, <1>7 DEF BoundInv
<1>. QED BY <1>6, <1>8

LEMMA WorkerTakeKeepsTypes ==
  ASSUME TypeInv, BoundInv, PostInv, NEW w \in Workers, NEW p \in Pools, WorkerTake(w, p)
  PROVE  TypeInv' /\ BoundInv'
<1>1. UNCHANGED <<config, msg, answers, stream, jobs, jobId, serverPc, terminate, shutdown, finalizing>>
  BY DEF WorkerTake, jobVars, endVars
<1>2. Messages' = Messages /\ \A i \in DOMAIN jobs : Q(i)' = Q(i)
  BY <1>1 DEF Messages, Q
<1>3. wkPc[w] = "idle" /\ sem' \in [Pools -> Nat]
  BY WorkerTakeIs
<1>4. CASE wkPc' = [wkPc EXCEPT ![w] = "exited"] /\ UNCHANGED <<ready, wkMsg>>
  <2>1. TypeInv'
    BY <1>1, <1>3, <1>4 DEF TypeInv
  <2>2. \A q \in Pools : R(q)' = R(q)
    BY <1>4 DEF R
  <2>3. \A v \in Workers : IF Busy(v)' THEN wkMsg'[v] \in Messages ELSE wkMsg'[v] = 0
    BY <1>3, <1>4 DEF BoundInv, Busy, TypeInv
  <2>4. BoundInv'
    BY <1>1, <1>2, <2>2, <2>3 DEF BoundInv
  <2>. QED BY <2>1, <2>4
<1>5. CASE wkPc' = [wkPc EXCEPT ![w] = "process"]
  <2>1. PICK m : /\ m \in R(p) /\ m \in Nat
                 /\ wkMsg' = [wkMsg EXCEPT ![w] = m]
                 /\ ready' \in [Pools -> Seq(Nat)]
                 /\ R(p) = R(p)' \cup {m}
                 /\ \A q \in Pools \ {p} : R(q)' = R(q)
    <3>1. w \in Workers /\ wkPc \in [Workers -> {"idle", "process", "next", "exited"}]
      BY DEF TypeInv
    <3>2. wkPc' # [wkPc EXCEPT ![w] = "exited"]
      BY <1>5, <3>1
    <3>. QED BY <3>2, WorkerTakeIs
  <2>2. TypeInv'
    BY <1>1, <1>3, <1>5, <2>1 DEF TypeInv
  <2>3. m \in Messages /\ \A q \in Pools : R(q)' \subseteq Messages
    BY <2>1 DEF BoundInv
  <2>4. \A v \in Workers : IF Busy(v)' THEN wkMsg'[v] \in Messages ELSE wkMsg'[v] = 0
    BY <1>3, <1>5, <2>1, <2>3 DEF BoundInv, Busy, TypeInv
  <2>5. BoundInv'
    BY <1>1, <1>2, <2>3, <2>4 DEF BoundInv
  <2>. QED BY <2>2, <2>5
<1>. QED BY <1>4, <1>5, WorkerTakeIs

\* The jobs and the ready queues are in bounds after the step.
QueuesBound ==
  /\ jobs' \in Seq(Job)
  /\ ready' \in [Pools -> Seq(Nat)] /\ sem' \in [Pools -> Nat]
  /\ \A p \in Pools : R(p)' \subseteq Messages
  /\ \A i \in DOMAIN jobs' : Q(i)' \subseteq Messages /\ jobs'[i].born \in Messages
                             /\ \A x \in Q(i)' : msg[x].pool \in Pools

LEMMA WorkerNextKeepsTypes ==
  ASSUME TypeInv, BoundInv, NEW w \in Workers, WorkerNext(w)
  PROVE  TypeInv' /\ BoundInv'
<1>1. /\ UNCHANGED <<config, msg, answers, stream, jobId, serverPc, terminate, shutdown, finalizing>>
      /\ wkPc' = [wkPc EXCEPT ![w] = "idle"] /\ wkMsg' = [wkMsg EXCEPT ![w] = 0]
  BY DEF WorkerNext, endVars
<1>2. Messages' = Messages
  BY <1>1 DEF Messages
<1>3. \A v \in Workers : IF Busy(v)' THEN wkMsg'[v] \in Messages ELSE wkMsg'[v] = 0
  BY <1>1 DEF BoundInv, Busy, TypeInv
<1>4. SUFFICES QueuesBound
  <2>1. TypeInv'
    BY <1>1, <1>4 DEF TypeInv, QueuesBound
  <2>2. BoundInv'
    BY <1>1, <1>2, <1>3, <1>4 DEF BoundInv, QueuesBound
  <2>. QED BY <2>1, <2>2
<1>5. ASSUME UNCHANGED <<ready, sem>>
      PROVE  /\ ready' \in [Pools -> Seq(Nat)] /\ sem' \in [Pools -> Nat]
             /\ \A p \in Pools : R(p)' \subseteq Messages
  <2>1. \A p \in Pools : R(p)' = R(p)
    BY <1>5 DEF R
  <2>. QED BY <1>5, <2>1 DEF TypeInv, BoundInv
<1>6. ASSUME NEW i \in DOMAIN jobs, JobsSame(i), Q(i)' \subseteq Q(i)
      PROVE  /\ jobs' \in Seq(Job)
             /\ \A j \in DOMAIN jobs' : Q(j)' \subseteq Messages /\ jobs'[j].born \in Messages
                                        /\ \A x \in Q(j)' : msg[x].pool \in Pools
  BY <1>6 DEF JobsSame, BoundInv
<1>7. CASE UNCHANGED <<jobs, ready, sem>>
  <2>1. \A i \in DOMAIN jobs : Q(i)' = Q(i)
    BY <1>7 DEF Q
  <2>. QED BY <1>5, <1>7, <2>1 DEF TypeInv, BoundInv, QueuesBound
<1>8. ASSUME NEW i \in DOMAIN jobs, Empties(i)
      PROVE  QueuesBound
  <2>1. JobsSame(i) /\ Q(i)' = Q(i) /\ UNCHANGED <<ready, sem>>
    BY <1>8, MarkIs DEF Empties
  <2>. QED BY <1>5, <1>6, <2>1 DEF QueuesBound
<1>9. ASSUME NEW i \in DOMAIN jobs, NEW m \in Messages, Continues(i, m)
      PROVE  QueuesBound
  <2>1. JobsSame(i) /\ Q(i)' \subseteq Q(i)
    BY <1>9, DequeueIs DEF Continues
  <2>2. PICK p \in Pools : p = msg[m].pool /\ PutReady(p, m)
    BY <1>9 DEF Continues
  <2>3. /\ ready' \in [Pools -> Seq(Nat)] /\ sem' \in [Pools -> Nat]
        /\ R(p)' = R(p) \cup {m} /\ \A q \in Pools \ {p} : R(q)' = R(q)
    <3>1. m \in Nat
      BY DEF Messages
    <3>. QED BY <2>2, <3>1, PutIs
  <2>4. \A q \in Pools : R(q)' \subseteq Messages
    BY <2>3 DEF BoundInv
  <2>. QED BY <1>6, <2>1, <2>3, <2>4 DEF QueuesBound
<1>. QED BY <1>7, <1>8, <1>9, WorkerNextIs

\* The steps that leave the messages and the queues alone.
LEMMA OtherStepsKeepTypes ==
  ASSUME TypeInv, BoundInv,
         Start \/ ServerExit \/ Delete \/ JoinServer \/ (\E p \in Pools : JoinPool(p))
           \/ UNCHANGED serverVars
  PROVE  TypeInv' /\ BoundInv'
<1>. USE DEF jobVars, poolVars, wkVars, endVars
<1>1. ASSUME UNCHANGED <<config, msg, stream, jobId, wkPc, wkMsg>>,
             answers' \in Seq(Seq(Statuses)), Len(answers') = Len(msg),
             serverPc' \in {"recv", "exited"} \/ serverPc' = serverPc,
             shutdown' \in BOOLEAN, terminate' \in [Pools -> BOOLEAN],
             finalizing' \in {"no", "joinServer", "joinPool0", "joinPool1", "done"},
             sem' \in [Pools -> Nat], jobs' = jobs \/ jobs' = <<>>,
             ready' \in [Pools -> Seq(Nat)], \A p \in Pools : ready'[p] \in {ready[p], <<>>}
      PROVE  TypeInv' /\ BoundInv'
  <2>1. Messages' = Messages /\ \A w \in Workers : Busy(w)' <=> Busy(w)
    BY <1>1 DEF Messages, Busy
  <2>2. \A p \in Pools : R(p)' \subseteq R(p)
    BY <1>1, EmptyRange DEF R
  <2>3. \A i \in DOMAIN jobs' : i \in DOMAIN jobs /\ jobs'[i] = jobs[i] /\ Q(i)' = Q(i)
    BY <1>1 DEF Q
  <2>4. TypeInv'
    <3>1. jobs' \in Seq(Job)
      <4>1. jobs \in Seq(Job) /\ <<>> \in Seq(Job)
        BY EmptySeq DEF TypeInv
      <4>. QED BY <1>1, <4>1
    <3>. QED BY <1>1, <3>1 DEF TypeInv
  <2>5. BoundInv'
    BY <1>1, <2>1, <2>2, <2>3 DEF BoundInv
  <2>. QED BY <2>4, <2>5
<1>2. CASE Start
  BY <1>1, <1>2 DEF Start, TypeInv
<1>3. CASE ServerExit
  BY <1>1, <1>3 DEF ServerExit, TypeInv
<1>4. CASE Delete
  BY <1>1, <1>4 DEF Delete, TypeInv
<1>5. CASE UNCHANGED serverVars
  BY <1>1, <1>5 DEF serverVars, TypeInv
<1>6. ASSUME NEW p \in Pools, TerminatePool(p)
      PROVE  /\ terminate' \in [Pools -> BOOLEAN] /\ sem' \in [Pools -> Nat]
             /\ finalizing' \in {"joinPool0", "joinPool1"}
  <2>1. Cardinality(Of(p)) \in Nat
    BY OfFinite, FS_CardinalityType
  <2>. QED BY <1>6, <2>1 DEF TerminatePool, Place, TypeInv
<1>7. CASE JoinServer
  <2>1. 0 \in Pools
    BY DEF Pools
  <2>. QED BY <1>1, <1>6, <1>7, <2>1 DEF JoinServer, TypeInv
<1>8. ASSUME NEW p \in Pools, JoinPool(p) PROVE TypeInv' /\ BoundInv'
  <2>1. answers' \in Seq(Seq(Statuses)) /\ Len(answers') = Len(msg)
    BY <1>8, ReturnReadyIs DEF JoinPool
  <2>2. ready' = [ready EXCEPT ![p] = <<>>] /\ 1 \in Pools
    BY <1>8 DEF JoinPool, Pools
  <2>3. ready' \in [Pools -> Seq(Nat)] /\ \A q \in Pools : ready'[q] \in {ready[q], <<>>}
    BY <2>2 DEF TypeInv
  <2>4. /\ terminate' \in [Pools -> BOOLEAN] /\ sem' \in [Pools -> Nat]
        /\ finalizing' \in {"joinPool0", "joinPool1", "done"}
    BY <1>6, <1>8, <2>2 DEF JoinPool, TypeInv
  <2>5. /\ UNCHANGED <<config, msg, stream, jobId, wkPc, wkMsg, jobs, serverPc, shutdown>>
        /\ shutdown \in BOOLEAN
    BY <1>8 DEF JoinPool, TypeInv
  <2>. QED BY <1>1, <2>1, <2>3, <2>4, <2>5
<1>. QED BY <1>2, <1>3, <1>4, <1>5, <1>7, <1>8

-----------------------------------------------------------------------------
\* Posts.

Alive(p) == {w \in Of(p) : wkPc[w] # "exited"}

\* A post comes with a message.
LEMMA PostSame ==
  ASSUME PostInv, UNCHANGED <<config, terminate>>, \A p \in Pools : Alive(p)' = Alive(p),
         \/ UNCHANGED <<ready, sem>>
         \/ TypeInv /\ \E p \in Pools, m \in Nat : PutReady(p, m)
  PROVE  PostPerMessage'
<1>1. CASE UNCHANGED <<ready, sem>>
  BY <1>1 DEF PostInv, PostPerMessage, Alive
<1>2. ASSUME TypeInv, NEW p \in Pools, NEW m \in Nat, PutReady(p, m) PROVE PostPerMessage'
  <2>1. SUFFICES ASSUME NEW q \in Pools
                 PROVE  IF terminate[q] THEN sem'[q] >= Cardinality(Alive(q)) ELSE sem'[q] = Len(ready'[q])
    BY DEF PostPerMessage, Alive
  <2>2. /\ sem'[p] = sem[p] + 1 /\ Len(ready'[p]) = Len(ready[p]) + 1
        /\ q # p => ready'[q] = ready[q] /\ sem'[q] = sem[q]
    BY <1>2, PutIs
  <2>3. IF terminate[q] THEN sem[q] >= Cardinality(Alive(q)) ELSE sem[q] = Len(ready[q])
    BY DEF PostInv, PostPerMessage, Alive
  <2>4. sem[q] \in Nat /\ Cardinality(Alive(q)) \in Nat
    BY <1>2, OfFinite, FS_CardinalityType DEF TypeInv, Alive
  <2>. QED BY <2>2, <2>3, <2>4
<1>. QED BY <1>1, <1>2

LEMMA TakeKeepsPosts ==
  ASSUME TypeInv, BoundInv, PostInv, NEW k \in config.kinds, ServerTake(k)
  PROVE  PostInv'
<1>1. PICK m : m = Len(msg) + 1
  OBVIOUS
<1>2. /\ UNCHANGED <<config, jobId, wkPc, wkMsg, terminate, shutdown, finalizing>>
      /\ \/ TakenInBand(m, k) \/ TakenRejected(m, k)
         \/ TakenDiscrete(m, k) \/ TakenForJob(m, k)
  BY <1>1, TakeIs
<1>3. m \in Nat
  BY <1>2 DEF TakenInBand, TakenRejected, TakenDiscrete, TakenForJob, Grown
<1>4. UNCHANGED <<ready, sem>> \/ \E p \in Pools, x \in Nat : PutReady(p, x)
  BY <1>2, <1>3 DEF TakenInBand, TakenRejected, TakenDiscrete, TakenForJob
<1>5. \A p \in Pools : Alive(p)' = Alive(p)
  BY <1>2 DEF Alive, Of
<1>6. PostPerMessage'
  BY <1>2, <1>4, <1>5, PostSame
<1>. QED BY <1>2, <1>6 DEF PostInv

LEMMA WorkerTakeKeepsPosts ==
  ASSUME TypeInv, PostInv, NEW w \in Workers, NEW p \in Pools, WorkerTake(w, p)
  PROVE  PostInv'
<1>1. UNCHANGED <<config, terminate, finalizing>>
  BY DEF WorkerTake, endVars
<1>2. /\ wkPc[w] = "idle" /\ w \in Of(p) /\ sem[p] > 0
      /\ sem'[p] = sem[p] - 1 /\ \A q \in Pools \ {p} : sem'[q] = sem[q]
      /\ \/ /\ terminate[p] /\ wkPc' = [wkPc EXCEPT ![w] = "exited"]
            /\ UNCHANGED <<ready, wkMsg>>
         \/ /\ ~terminate[p] /\ wkPc' = [wkPc EXCEPT ![w] = "process"]
            /\ Len(ready'[p]) = Len(ready[p]) - 1
            /\ \A q \in Pools \ {p} : ready'[q] = ready[q]
  BY WorkerTakeIs
<1>3. /\ wkPc \in [Workers -> {"idle", "process", "next", "exited"}]
      /\ \A q \in Pools : sem[q] \in Nat
      /\ \A q \in Pools : Cardinality(Alive(q)) \in Nat /\ IsFiniteSet(Alive(q))
  BY OfFinite, FS_CardinalityType DEF TypeInv, Alive
<1>4. \A q \in Pools \ {p} : w \notin Of(q)
  BY <1>2 DEF Of
<1>5. \A q \in Pools \ {p} : Alive(q)' = Alive(q)
  BY <1>1, <1>2, <1>3, <1>4 DEF Alive, Of
<1>6. w \in Alive(p)
  BY <1>2 DEF Alive
<1>7. IF terminate[p] THEN Alive(p)' = Alive(p) \ {w} ELSE Alive(p)' = Alive(p)
  BY <1>1, <1>2, <1>3 DEF Alive, Of
<1>8. Cardinality(Alive(p) \ {w}) = Cardinality(Alive(p)) - 1
  BY <1>3, <1>6, FS_RemoveElement
<1>9. \A q \in Pools : IF terminate[q] THEN sem[q] >= Cardinality(Alive(q)) ELSE sem[q] = Len(ready[q])
  BY DEF PostInv, PostPerMessage, Alive
<1>10. ASSUME NEW q \in Pools
       PROVE IF terminate[q] THEN sem'[q] >= Cardinality(Alive(q)') ELSE sem'[q] = Len(ready'[q])
  <2>1. CASE q = p
    <3>1. CASE terminate[p]
      <4>1. Cardinality(Alive(p)') = Cardinality(Alive(p)) - 1
        BY <1>7, <1>8, <3>1
      <4>2. sem[p] >= Cardinality(Alive(p)) /\ sem'[p] = sem[p] - 1
        BY <1>2, <1>9, <3>1
      <4>3. sem'[p] >= Cardinality(Alive(p)')
        BY <1>3, <4>1, <4>2
      <4>. QED BY <2>1, <3>1, <4>3
    <3>2. CASE ~terminate[p]
      <4>1. sem'[p] = Len(ready'[p])
        BY <1>2, <1>9, <3>2
      <4>. QED BY <2>1, <3>2, <4>1
    <3>. QED BY <3>1, <3>2
  <2>2. CASE q # p
    BY <1>2, <1>5, <1>9, <2>2
  <2>. QED BY <2>1, <2>2
<1>11. PostPerMessage'
  BY <1>1, <1>10 DEF PostPerMessage, Alive
<1>. QED BY <1>1, <1>11 DEF PostInv

LEMMA WorkerNextKeepsPosts ==
  ASSUME TypeInv, BoundInv, PostInv, NEW w \in Workers, WorkerNext(w)
  PROVE  PostInv'
<1>1. /\ UNCHANGED <<config, terminate, finalizing>>
      /\ wkPc[w] = "next" /\ wkPc' = [wkPc EXCEPT ![w] = "idle"]
  BY DEF WorkerNext, endVars
<1>2. \A p \in Pools : Alive(p)' = Alive(p)
  BY <1>1 DEF Alive, Of, TypeInv
<1>3. \/ UNCHANGED <<ready, sem>>
      \/ \E p \in Pools, m \in Nat : PutReady(p, m)
  BY WorkerNextIs DEF Empties, Continues, Messages
<1>4. PostPerMessage'
  BY <1>1, <1>2, <1>3, PostSame
<1>. QED BY <1>1, <1>4 DEF PostInv

LEMMA TerminateIs ==
  ASSUME TypeInv, NEW p \in Pools, TerminatePool(p), UNCHANGED <<config, wkPc>>
  PROVE  /\ terminate'[p] /\ \A q \in Pools \ {p} : terminate'[q] = terminate[q] /\ sem'[q] = sem[q]
         /\ finalizing' = Place(p) /\ \A q \in Pools : Alive(q)' = Alive(q)
         /\ sem'[p] >= Cardinality(Alive(p))
<1>1. /\ terminate' = [terminate EXCEPT ![p] = TRUE]
      /\ sem' = [sem EXCEPT ![p] = sem[p] + Cardinality(Of(p))]
      /\ finalizing' = Place(p)
  BY DEF TerminatePool, TypeInv
<1>2. \A q \in Pools : Alive(q)' = Alive(q)
  BY DEF Alive, Of
<1>3. /\ Cardinality(Of(p)) \in Nat /\ Cardinality(Alive(p)) \in Nat
      /\ Cardinality(Alive(p)) <= Cardinality(Of(p))
  <2>1. IsFiniteSet(Of(p)) /\ Alive(p) \subseteq Of(p)
    BY OfFinite DEF Alive
  <2>. QED BY <2>1, FS_CardinalityType, FS_Subset
<1>4. terminate \in [Pools -> BOOLEAN] /\ sem \in [Pools -> Nat]
  BY DEF TypeInv
<1>5. sem'[p] = sem[p] + Cardinality(Of(p)) /\ sem[p] \in Nat
  BY <1>1, <1>4
<1>6. sem'[p] >= Cardinality(Alive(p))
  BY <1>3, <1>5
<1>. QED BY <1>1, <1>2, <1>4, <1>6

LEMMA JoinServerKeepsPosts ==
  ASSUME TypeInv, PostInv, JoinServer
  PROVE  PostInv'
<1>1. /\ finalizing = "joinServer" /\ TerminatePool(0) /\ UNCHANGED <<config, wkPc, ready>>
      /\ 0 \in Pools /\ 1 \in Pools /\ Place(0) = "joinPool0"
  BY DEF JoinServer, wkVars, Pools, Place
<1>2. /\ terminate'[0] /\ \A q \in Pools \ {0} : terminate'[q] = terminate[q] /\ sem'[q] = sem[q]
      /\ finalizing' = "joinPool0" /\ \A q \in Pools : Alive(q)' = Alive(q)
      /\ sem'[0] >= Cardinality(Alive(0))
  BY <1>1, TerminateIs
<1>3. \A q \in Pools : IF terminate[q] THEN sem[q] >= Cardinality(Alive(q)) ELSE sem[q] = Len(ready[q])
  BY DEF PostInv, PostPerMessage, Alive
<1>4. PostPerMessage'
  BY <1>1, <1>2, <1>3 DEF PostPerMessage, Alive
<1>5. ~terminate[1] /\ terminate'[1] = terminate[1]
  BY <1>1, <1>2 DEF PostInv
<1>. QED BY <1>2, <1>4, <1>5 DEF PostInv

LEMMA JoinPoolKeepsPosts ==
  ASSUME TypeInv, PostInv, NEW p \in Pools, JoinPool(p)
  PROVE  PostInv'
<1>1. /\ finalizing = Place(p) /\ UNCHANGED <<config, wkPc>>
      /\ \A q \in Pools \ {p} : ready'[q] = ready[q]
      /\ 0 \in Pools /\ 1 \in Pools /\ Pools = {0, 1}
  BY DEF JoinPool, wkVars, Pools, TypeInv
<1>2. \A q \in Pools : IF terminate[q] THEN sem[q] >= Cardinality(Alive(q)) ELSE sem[q] = Len(ready[q])
  BY DEF PostInv, PostPerMessage, Alive
<1>3. CASE p = 0
  <2>1. terminate[0] /\ TerminatePool(1)
    BY <1>1, <1>3 DEF PostInv, Place, JoinPool
  <2>2. /\ terminate'[1] /\ \A q \in Pools \ {1} : terminate'[q] = terminate[q] /\ sem'[q] = sem[q]
        /\ finalizing' = "joinPool1" /\ \A q \in Pools : Alive(q)' = Alive(q)
        /\ sem'[1] >= Cardinality(Alive(1))
    BY <1>1, <2>1, TerminateIs DEF Place
  <2>3. \A q \in Pools : IF terminate'[q] THEN sem'[q] >= Cardinality(Alive(q)') ELSE sem'[q] = Len(ready'[q])
    BY <1>1, <1>2, <2>1, <2>2
  <2>4. PostPerMessage'
    BY <2>3 DEF PostPerMessage, Alive
  <2>. QED BY <2>2, <2>4 DEF PostInv
<1>4. CASE p = 1
  <2>1. terminate[1] /\ UNCHANGED <<terminate, sem>> /\ finalizing' = "done"
    BY <1>1, <1>4 DEF PostInv, Place, JoinPool
  <2>2. \A q \in Pools : Alive(q)' = Alive(q)
    BY <1>1 DEF Alive, Of
  <2>3. \A q \in Pools : IF terminate'[q] THEN sem'[q] >= Cardinality(Alive(q)') ELSE sem'[q] = Len(ready'[q])
    BY <1>1, <1>2, <1>4, <2>1, <2>2
  <2>4. PostPerMessage'
    BY <2>3 DEF PostPerMessage, Alive
  <2>. QED BY <2>1, <2>4 DEF PostInv
<1>. QED BY <1>1, <1>3, <1>4

LEMMA OtherStepsKeepPosts ==
  ASSUME TypeInv, PostInv,
         \/ Start \/ ServerExit \/ ServerProcess \/ Delete \/ UNCHANGED serverVars
         \/ \E w \in Workers : WorkerProcess(w)
  PROVE  PostInv'
<1>. USE DEF jobVars, poolVars, wkVars, endVars
<1>1. UNCHANGED <<config, terminate, ready, sem>>
  BY DEF Start, ServerExit, ServerProcess, Delete, serverVars, WorkerProcess
<1>2. \/ UNCHANGED finalizing
      \/ finalizing = "no" /\ finalizing' = "joinServer"
  BY DEF Start, ServerExit, ServerProcess, Delete, serverVars, WorkerProcess
<1>3. \A p \in Pools : Alive(p)' = Alive(p)
  <2>1. CASE UNCHANGED wkPc
    BY <1>1, <2>1 DEF Alive, Of
  <2>2. ASSUME NEW w \in Workers, WorkerProcess(w) PROVE \A p \in Pools : Alive(p)' = Alive(p)
    BY <1>1, <2>2 DEF Alive, Of, WorkerProcess, TypeInv
  <2>. QED BY <2>1, <2>2 DEF Start, ServerExit, ServerProcess, Delete, serverVars
<1>4. PostPerMessage'
  BY <1>1, <1>3, PostSame
<1>5. (~terminate[0] /\ ~terminate[1]) \/ finalizing \notin {"no", "joinServer"}
  BY DEF PostInv, Pools
<1>. QED BY <1>1, <1>2, <1>4, <1>5 DEF PostInv, Pools

-----------------------------------------------------------------------------
\* Ids of jobs.

LEMMA IdsKeptByList ==
  ASSUME TypeInv, JobIdsAreUnique,
         \/ jobs' = jobs \/ jobs' = <<>>
         \/ \E i \in DOMAIN jobs : JobsSame(i)
         \/ \E m \in Nat : Adds(m)
         \/ \E k \in DOMAIN jobs : jobs' = RemoveAt(jobs, k)
  PROVE  JobIdsAreUnique'
<1>. USE DEF JobIdsAreUnique
<1>1. CASE \E i \in DOMAIN jobs : JobsSame(i)
  BY <1>1 DEF JobsSame
<1>2. ASSUME NEW m \in Nat, Adds(m) PROVE JobIdsAreUnique'
  <2>1. PICK n, id \in Nat : Added(m, n, id)
    BY <1>2, AddsIs
  <2>. QED BY <2>1 DEF Added
<1>3. ASSUME NEW k \in DOMAIN jobs, jobs' = RemoveAt(jobs, k) PROVE JobIdsAreUnique'
  <2>1. PICK up : Removed(k, up)
    BY <1>3, RemovesIs
  <2>. QED BY <2>1 DEF Removed
<1>. QED BY <1>1, <1>2, <1>3

\* What a step does to the list of jobs.
LEMMA StepKeepsIds ==
  ASSUME TypeInv, BoundInv, JobIdsAreUnique, [ServerNext]_serverVars
  PROVE  JobIdsAreUnique'
<1>. USE DEF jobVars, poolVars, wkVars, endVars
<1>1. ASSUME NEW k \in config.kinds, ServerTake(k) PROVE JobIdsAreUnique'
  <2>1. PICK m : m = Len(msg) + 1
    OBVIOUS
  <2>2. \/ TakenInBand(m, k) \/ TakenRejected(m, k)
        \/ TakenDiscrete(m, k) \/ TakenForJob(m, k)
    BY <1>1, <2>1, TakeIs
  <2>3. m \in Nat
    BY <2>2 DEF TakenInBand, TakenRejected, TakenDiscrete, TakenForJob, Grown
  <2>4. CASE jobs' = jobs
    BY <2>4, IdsKeptByList
  <2>5. CASE TakenForJob(m, k)
    BY <2>3, <2>5, MarkIs, EnqueueIs, IdsKeptByList DEF TakenForJob
  <2>. QED BY <2>2, <2>4, <2>5 DEF TakenInBand, TakenRejected, TakenDiscrete
<1>2. ASSUME NEW m \in Messages, Process(m) PROVE JobIdsAreUnique'
  <2>1. m \in Nat
    BY DEF Messages
  <2>. QED BY <1>2, <2>1, ProcessIs, IdsKeptByList
<1>3. CASE ServerProcess
  BY <1>2, <1>3 DEF ServerProcess, BoundInv
<1>4. ASSUME NEW w \in Workers, WorkerProcess(w) PROVE JobIdsAreUnique'
  BY <1>2, <1>4 DEF WorkerProcess, BoundInv, Busy
<1>5. ASSUME NEW w \in Workers, WorkerNext(w) PROVE JobIdsAreUnique'
  BY <1>5, WorkerNextIs, MarkIs, DequeueIs, IdsKeptByList DEF Empties, Continues
<1>6. CASE jobs' = jobs \/ jobs' = <<>>
  BY <1>6, IdsKeptByList
<1>. QED
  BY <1>1, <1>3, <1>4, <1>5, <1>6 DEF ServerNext, WorkerStep, DeleteStep, Start, ServerExit,
    WorkerTake, Delete, JoinServer, JoinPool, serverVars

-----------------------------------------------------------------------------
\* One place for a message.

\* Every queue of a job after the step was the queue of a job before it, or is
\* empty.
QueuesKept ==
  \E up :
    /\ \A i \in DOMAIN jobs' :
         \/ up[i] \in DOMAIN jobs /\ jobs'[i].msgQue = jobs[up[i]].msgQue /\ Q(i)' = Q(up[i])
         \/ jobs'[i].msgQue = <<>> /\ Q(i)' = {}
    /\ \A i, j \in DOMAIN jobs' : Q(i)' # {} /\ Q(j)' # {} /\ up[i] = up[j] => i = j

LEMMA QueuesKeptIs ==
  ASSUME TypeInv,
         \/ jobs' = jobs \/ jobs' = <<>>
         \/ \E i \in DOMAIN jobs : jobs[i].msgQue = <<>> /\ JobsSame(i) /\ jobs'[i].msgQue = <<>>
         \/ \E i \in DOMAIN jobs : JobsSame(i) /\ jobs'[i].msgQue = jobs[i].msgQue
         \/ \E m \in Nat : Adds(m)
         \/ \E k \in DOMAIN jobs : jobs' = RemoveAt(jobs, k)
  PROVE  QueuesKept
<1>1. CASE jobs' = jobs
  <2>1. PICK up : up = [i \in DOMAIN jobs |-> i]
    OBVIOUS
  <2>2. \A i \in DOMAIN jobs : Q(i)' = Q(i) /\ up[i] = i
    BY <1>1, <2>1 DEF Q
  <2>. QED BY <1>1, <2>2 DEF QueuesKept
<1>2. CASE jobs' = <<>>
  BY <1>2 DEF QueuesKept
<1>3. ASSUME NEW i \in DOMAIN jobs, JobsSame(i), jobs'[i].msgQue = jobs[i].msgQue
      PROVE  QueuesKept
  <2>1. PICK up : up = [j \in DOMAIN jobs |-> j]
    OBVIOUS
  <2>2. DOMAIN jobs' = DOMAIN jobs
    BY <1>3 DEF JobsSame
  <2>3. \A j \in DOMAIN jobs : up[j] = j /\ jobs'[j].msgQue = jobs[j].msgQue /\ Q(j)' = Q(j)
    <3>1. Q(i)' = Q(i)
      BY <1>3 DEF Q
    <3>. QED BY <1>3, <2>1, <3>1 DEF JobsSame
  <2>. QED BY <2>2, <2>3 DEF QueuesKept
<1>4. ASSUME NEW m \in Nat, Adds(m) PROVE QueuesKept
  <2>1. PICK n, id \in Nat : Added(m, n, id)
    BY <1>4, AddsIs
  <2>2. PICK up : up = [j \in DOMAIN jobs |-> j]
    OBVIOUS
  <2>3. \A i \in DOMAIN jobs' :
          \/ i \in DOMAIN jobs /\ up[i] = i /\ jobs'[i].msgQue = jobs[i].msgQue /\ Q(i)' = Q(i)
          \/ jobs'[i].msgQue = <<>> /\ Q(i)' = {}
    BY <2>1, <2>2 DEF Added
  <2>. QED BY <2>3 DEF QueuesKept
<1>5. ASSUME NEW k \in DOMAIN jobs, jobs' = RemoveAt(jobs, k) PROVE QueuesKept
  <2>1. PICK up : Removed(k, up)
    BY <1>5, RemovesIs
  <2>. QED BY <2>1 DEF Removed, QueuesKept
<1>. QED BY <1>1, <1>2, <1>3, <1>4, <1>5

\* Places are given up and none is taken.
LEMMA PlaceShrinks ==
  ASSUME TypeInv, BoundInv, PlaceInv, UNCHANGED msg,
         \A p \in Pools : ready'[p] \in {ready[p], <<>>},
         QueuesKept,
         \A w \in Workers : /\ Busy(w)' => Busy(w)
                            /\ wkMsg'[w] \in {wkMsg[w], 0} /\ (Busy(w)' => wkMsg'[w] = wkMsg[w]),
         serverPc' = "process" => serverPc = "process"
  PROVE  PlaceInv'
<1>. DEFINE n == Len(msg)
<1>1. \A p \in Pools : R(p)' \subseteq R(p) /\ Once(ready'[p])
  BY EmptyRange DEF R, PlaceInv
<1>2. R(0) \cap R(1) = {} /\ 0 \in Pools /\ 1 \in Pools
  BY DEF PlaceInv, Pools
<1>3. PICK up :
        /\ \A i \in DOMAIN jobs' :
             \/ up[i] \in DOMAIN jobs /\ jobs'[i].msgQue = jobs[up[i]].msgQue /\ Q(i)' = Q(up[i])
             \/ jobs'[i].msgQue = <<>> /\ Q(i)' = {}
        /\ \A i, j \in DOMAIN jobs' : Q(i)' # {} /\ Q(j)' # {} /\ up[i] = up[j] => i = j
  BY DEF QueuesKept
<1>4. \A i \in DOMAIN jobs' : Ascending(jobs'[i].msgQue)
  BY <1>3, EmptyRange DEF PlaceInv
<1>5. \A i, j \in DOMAIN jobs' : i # j => Q(i)' \cap Q(j)' = {}
  BY <1>3 DEF PlaceInv
<1>6. \A p \in Pools, i \in DOMAIN jobs' : R(p)' \cap Q(i)' = {}
  BY <1>1, <1>3 DEF PlaceInv
<1>7. \A w \in Workers : Busy(w)' =>
       /\ \A p \in Pools : wkMsg'[w] \notin R(p)'
       /\ \A i \in DOMAIN jobs' : wkMsg'[w] \notin Q(i)'
       /\ \A v \in Workers : Busy(v)' /\ v # w => wkMsg'[v] # wkMsg'[w]
  BY <1>1, <1>3 DEF PlaceInv
<1>8. serverPc' = "process" =>
       /\ \A p \in Pools : n \notin R(p)'
       /\ \A i \in DOMAIN jobs' : n \notin Q(i)'
       /\ \A w \in Workers : wkMsg'[w] # n
  <2>1. serverPc = "process" => n # 0
    BY DEF BoundInv, Messages
  <2>2. serverPc = "process" =>
          /\ \A p \in Pools : n \notin R(p)
          /\ \A i \in DOMAIN jobs : n \notin Q(i)
          /\ \A w \in Workers : wkMsg[w] # n
    BY DEF PlaceInv
  <2>. QED BY <1>1, <1>3, <2>1, <2>2
<1>. QED BY <1>1, <1>2, <1>4, <1>5, <1>6, <1>7, <1>8 DEF PlaceInv

LEMMA TakeKeepsPlaces ==
  ASSUME TypeInv, BoundInv, PlaceInv, NEW k \in config.kinds, ServerTake(k)
  PROVE  PlaceInv'
<1>1. PICK m : m = Len(msg) + 1
  OBVIOUS
<1>2. /\ UNCHANGED <<config, jobId, wkPc, wkMsg, terminate, shutdown, finalizing>>
      /\ \/ TakenInBand(m, k) \/ TakenRejected(m, k)
         \/ TakenDiscrete(m, k) \/ TakenForJob(m, k)
  BY <1>1, TakeIs
<1>3. /\ m \in Nat /\ m \notin Messages /\ m > 0 /\ Len(msg') = m
      /\ \A x \in Messages : x \in Nat /\ x < m
  <2>1. Len(msg) \in Nat
    BY DEF TypeInv
  <2>. QED BY <1>1, <1>2, <2>1 DEF TakenInBand, TakenRejected, TakenDiscrete, TakenForJob, Grown
<1>4. /\ \A p \in Pools : m \notin R(p)
      /\ \A i \in DOMAIN jobs : m \notin Q(i)
      /\ \A w \in Workers : wkMsg[w] # m
  BY <1>3 DEF BoundInv
<1>5. \A w \in Workers : Busy(w)' <=> Busy(w)
  BY <1>2 DEF Busy
<1>6. ASSUME UNCHANGED jobs PROVE \A i \in DOMAIN jobs : Q(i)' = Q(i)
  BY <1>6 DEF Q
<1>7. ASSUME UNCHANGED ready PROVE \A p \in Pools : R(p)' = R(p)
  BY <1>7 DEF R
<1>8. CASE TakenInBand(m, k) \/ TakenRejected(m, k)
  <2>1. UNCHANGED <<jobs, ready>>
    BY <1>8 DEF TakenInBand, TakenRejected
  <2>. QED BY <1>2, <1>3, <1>4, <1>5, <1>6, <1>7, <2>1 DEF PlaceInv, Pools
<1>9. ASSUME NEW p \in Pools, PutReady(p, m), serverPc' # "process",
             DOMAIN jobs' = DOMAIN jobs,
             \A i \in DOMAIN jobs : jobs'[i].msgQue = jobs[i].msgQue /\ Q(i)' = Q(i)
      PROVE  PlaceInv'
  <2>1. /\ ready'[p] = Append(ready[p], m) /\ R(p)' = R(p) \cup {m}
        /\ \A q \in Pools \ {p} : ready'[q] = ready[q] /\ R(q)' = R(q)
    BY <1>3, <1>9, PutIs
  <2>2. Once(ready'[p])
    <3>1. ready[p] \in Seq(Nat) /\ m \notin Range(ready[p]) /\ Once(ready[p])
      BY <1>4 DEF TypeInv, PlaceInv, R
    <3>. QED BY <1>3, <2>1, <3>1, AppendOnce
  <2>3. \A q \in Pools : Once(ready'[q])
    BY <2>1, <2>2 DEF PlaceInv
  <2>4. R(0)' \cap R(1)' = {}
    BY <1>4, <2>1 DEF PlaceInv, Pools
  <2>5. \A q \in Pools, i \in DOMAIN jobs : R(q)' \cap Q(i)' = {}
    BY <1>4, <1>9, <2>1 DEF PlaceInv
  <2>6. \A w \in Workers : Busy(w) => \A q \in Pools : wkMsg[w] \notin R(q)'
    BY <1>4, <2>1 DEF PlaceInv
  <2>. QED BY <1>2, <1>5, <1>9, <2>3, <2>4, <2>5, <2>6 DEF PlaceInv
<1>10. CASE TakenDiscrete(m, k)
  BY <1>6, <1>9, <1>10 DEF TakenDiscrete
<1>11. CASE TakenForJob(m, k)
  <2>1. PICK i \in DOMAIN jobs :
          \/ jobs' = [jobs EXCEPT ![i].empty = FALSE] /\ PutReady(k.pool, m)
          \/ jobs' = [jobs EXCEPT ![i].msgQue = Append(@, m)] /\ UNCHANGED ready
    BY <1>11 DEF TakenForJob
  <2>2. serverPc' # "process" /\ k.pool \in Pools
    BY <1>11 DEF TakenForJob
  <2>3. CASE jobs' = [jobs EXCEPT ![i].empty = FALSE] /\ PutReady(k.pool, m)
    <3>1. JobsSame(i) /\ jobs'[i].msgQue = jobs[i].msgQue /\ Q(i)' = Q(i)
      BY <2>3, MarkIs
    <3>2. /\ DOMAIN jobs' = DOMAIN jobs
          /\ \A j \in DOMAIN jobs : jobs'[j].msgQue = jobs[j].msgQue /\ Q(j)' = Q(j)
      BY <3>1 DEF JobsSame
    <3>. QED BY <1>9, <2>2, <2>3, <3>2
  <2>4. CASE jobs' = [jobs EXCEPT ![i].msgQue = Append(@, m)] /\ UNCHANGED ready
    <3>1. JobsSame(i) /\ jobs'[i].msgQue = Append(jobs[i].msgQue, m) /\ Q(i)' = Q(i) \cup {m}
      BY <1>3, <2>4, EnqueueIs
    <3>2. /\ DOMAIN jobs' = DOMAIN jobs
          /\ \A j \in DOMAIN jobs \ {i} : jobs'[j] = jobs[j] /\ Q(j)' = Q(j)
      BY <3>1 DEF JobsSame
    <3>3. Ascending(jobs'[i].msgQue)
      <4>1. jobs[i].msgQue \in Seq(Nat) /\ Ascending(jobs[i].msgQue)
        BY JobFields DEF PlaceInv
      <4>2. \A y \in Range(jobs[i].msgQue) : y < m
        BY <1>3 DEF BoundInv, Q
      <4>. QED BY <1>3, <3>1, <4>1, <4>2, AppendAscending
    <3>4. \A j \in DOMAIN jobs' : Ascending(jobs'[j].msgQue)
      BY <3>2, <3>3 DEF PlaceInv
    <3>5. \A j, h \in DOMAIN jobs : j # h => Q(j)' \cap Q(h)' = {}
      BY <1>4, <3>1, <3>2 DEF PlaceInv
    <3>6. \A p \in Pools, j \in DOMAIN jobs : R(p) \cap Q(j)' = {}
      BY <1>4, <3>1, <3>2 DEF PlaceInv
    <3>7. \A w \in Workers : Busy(w) => \A j \in DOMAIN jobs : wkMsg[w] \notin Q(j)'
      BY <1>4, <3>1, <3>2 DEF PlaceInv
    <3>8. \A p \in Pools : R(p)' = R(p) /\ 0 \in Pools /\ 1 \in Pools
      BY <1>7, <2>4 DEF Pools
    <3>. QED BY <1>2, <1>5, <2>2, <2>4, <3>2, <3>4, <3>5, <3>6, <3>7, <3>8 DEF PlaceInv
  <2>. QED BY <2>1, <2>3, <2>4
<1>. QED BY <1>2, <1>8, <1>10, <1>11

LEMMA WorkerTakeKeepsPlaces ==
  ASSUME TypeInv, BoundInv, PostInv, PlaceInv, NEW w \in Workers, NEW p \in Pools, WorkerTake(w, p)
  PROVE  PlaceInv'
<1>1. UNCHANGED <<config, msg, jobs, serverPc>> /\ wkPc[w] = "idle"
  BY DEF WorkerTake, jobVars
<1>2. \A i \in DOMAIN jobs : Q(i)' = Q(i)
  BY <1>1 DEF Q
<1>3. CASE wkPc' = [wkPc EXCEPT ![w] = "exited"] /\ UNCHANGED <<ready, wkMsg>>
  <2>1. \A v \in Workers : Busy(v)' => Busy(v)
    BY <1>3 DEF Busy, TypeInv
  <2>. QED BY <1>1, <1>3, <2>1, QueuesKeptIs, PlaceShrinks
<1>4. CASE wkPc' = [wkPc EXCEPT ![w] = "process"]
  <2>1. /\ ready[p] # <<>> /\ Head(ready[p]) \in R(p)
        /\ wkMsg' = [wkMsg EXCEPT ![w] = Head(ready[p])]
        /\ ready'[p] = Tail(ready[p])
        /\ R(p) = R(p)' \cup {Head(ready[p])}
        /\ \A q \in Pools \ {p} : ready'[q] = ready[q] /\ R(q)' = R(q)
    <3>1. w \in Workers /\ wkPc \in [Workers -> {"idle", "process", "next", "exited"}]
      BY DEF TypeInv
    <3>2. wkPc' # [wkPc EXCEPT ![w] = "exited"]
      BY <1>4, <3>1
    <3>. QED BY <3>2, WorkerTakeIs
  <2>2. PICK m : m = Head(ready[p])
    OBVIOUS
  <2>3. Once(ready'[p]) /\ m \notin R(p)'
    <3>1. ready[p] \in Seq(Nat) /\ Once(ready[p])
      BY DEF TypeInv, PlaceInv
    <3>. QED BY <2>1, <2>2, <3>1, TailIs DEF R
  <2>4. /\ \A v \in Workers \ {w} : (Busy(v)' <=> Busy(v)) /\ wkMsg'[v] = wkMsg[v]
        /\ Busy(w)' /\ ~Busy(w) /\ wkMsg'[w] = m
    BY <1>1, <1>4, <2>1, <2>2 DEF Busy, TypeInv
  <2>5. m \in R(p) /\ R(p)' \subseteq R(p) /\ \A q \in Pools : R(q)' \subseteq R(q)
    BY <2>1, <2>2
  <2>6. \A q \in Pools : Once(ready'[q]) /\ m \notin R(q)'
    BY <2>1, <2>3, <2>5 DEF PlaceInv, Pools
  <2>7. /\ \A i \in DOMAIN jobs : m \notin Q(i)
        /\ \A v \in Workers : Busy(v) => wkMsg[v] # m
        /\ serverPc = "process" => m # Len(msg)
    BY <2>5 DEF PlaceInv
  <2>8. \A v \in Workers : Busy(v)' =>
          /\ \A q \in Pools : wkMsg'[v] \notin R(q)'
          /\ \A i \in DOMAIN jobs : wkMsg'[v] \notin Q(i)
          /\ \A u \in Workers : Busy(u)' /\ u # v => wkMsg'[u] # wkMsg'[v]
    BY <2>4, <2>5, <2>6, <2>7 DEF PlaceInv
  <2>9. serverPc = "process" =>
          /\ \A q \in Pools : Len(msg) \notin R(q)'
          /\ \A v \in Workers : wkMsg'[v] # Len(msg)
    BY <2>4, <2>5, <2>7 DEF PlaceInv
  <2>10. R(0)' \cap R(1)' = {} /\ \A q \in Pools, i \in DOMAIN jobs : R(q)' \cap Q(i) = {}
    BY <2>5 DEF PlaceInv, Pools
  <2>. QED BY <1>1, <1>2, <2>6, <2>8, <2>9, <2>10 DEF PlaceInv
<1>. QED BY <1>3, <1>4, WorkerTakeIs

LEMMA WorkerNextKeepsPlaces ==
  ASSUME TypeInv, BoundInv, PlaceInv, NEW w \in Workers, WorkerNext(w)
  PROVE  PlaceInv'
<1>1. /\ UNCHANGED <<msg, serverPc>>
      /\ wkPc' = [wkPc EXCEPT ![w] = "idle"] /\ wkMsg' = [wkMsg EXCEPT ![w] = 0]
  BY DEF WorkerNext
<1>2. \A v \in Workers : /\ Busy(v)' => Busy(v) /\ v # w
                         /\ wkMsg'[v] \in {wkMsg[v], 0} /\ (v # w => wkMsg'[v] = wkMsg[v])
  BY <1>1 DEF Busy, TypeInv
<1>3. CASE UNCHANGED <<jobs, ready, sem>>
  BY <1>1, <1>2, <1>3, QueuesKeptIs, PlaceShrinks
<1>4. ASSUME NEW i \in DOMAIN jobs, Empties(i) PROVE PlaceInv'
  <2>1. JobsSame(i) /\ jobs'[i].msgQue = jobs[i].msgQue /\ UNCHANGED ready
    BY <1>4, MarkIs DEF Empties
  <2>. QED BY <1>1, <1>2, <2>1, QueuesKeptIs, PlaceShrinks
<1>5. ASSUME NEW i \in DOMAIN jobs, NEW m \in Messages, Continues(i, m) PROVE PlaceInv'
  <2>1. PICK p \in Pools : PutReady(p, m)
    BY <1>5 DEF Continues
  <2>2. m \in Nat /\ m # 0 /\ jobs[i].msgQue \in Seq(Nat) /\ m = Head(jobs[i].msgQue)
        /\ jobs[i].msgQue # <<>>
    BY <1>5, JobFields DEF Messages, Continues
  <2>3. /\ ready'[p] = Append(ready[p], m) /\ R(p)' = R(p) \cup {m}
        /\ \A q \in Pools \ {p} : ready'[q] = ready[q] /\ R(q)' = R(q)
    BY <2>1, <2>2, PutIs
  <2>4. /\ JobsSame(i) /\ jobs'[i].msgQue = Tail(jobs[i].msgQue)
        /\ m \in Q(i) /\ Q(i) = Q(i)' \cup {m}
    BY <1>5, <2>2, DequeueIs DEF Continues
  <2>5. Ascending(jobs'[i].msgQue) /\ m \notin Q(i)'
    <3>1. Ascending(jobs[i].msgQue)
      BY DEF PlaceInv
    <3>2. Ascending(Tail(jobs[i].msgQue)) /\ Once(jobs[i].msgQue)
      BY <2>2, <3>1, TailAscending, AscendingOnce
    <3>3. m \notin Range(Tail(jobs[i].msgQue))
      BY <2>2, <3>2, TailIs
    <3>. QED BY <2>4, <3>2, <3>3 DEF Q
  <2>6. /\ DOMAIN jobs' = DOMAIN jobs /\ Q(i)' \subseteq Q(i)
        /\ \A j \in DOMAIN jobs \ {i} : jobs'[j] = jobs[j] /\ Q(j)' = Q(j)
    BY <2>4 DEF JobsSame
  <2>7. \A j \in DOMAIN jobs : Q(j)' \subseteq Q(j) /\ m \notin Q(j)' /\ Ascending(jobs'[j].msgQue)
    BY <2>4, <2>5, <2>6 DEF PlaceInv
  <2>8. /\ \A q \in Pools : m \notin R(q)
        /\ \A v \in Workers : Busy(v) => wkMsg[v] # m
        /\ serverPc = "process" => m # Len(msg)
    BY <2>4 DEF PlaceInv
  <2>9. \A q \in Pools : Once(ready'[q])
    <3>1. ready[p] \in Seq(Nat) /\ m \notin Range(ready[p]) /\ Once(ready[p])
      BY <2>8 DEF TypeInv, PlaceInv, R
    <3>2. Once(ready'[p])
      BY <2>2, <2>3, <3>1, AppendOnce
    <3>. QED BY <2>3, <3>2 DEF PlaceInv
  <2>10. R(0)' \cap R(1)' = {}
    BY <2>3, <2>8 DEF PlaceInv, Pools
  <2>11. \A j, h \in DOMAIN jobs : j # h => Q(j)' \cap Q(h)' = {}
    BY <2>7 DEF PlaceInv
  <2>12. \A q \in Pools, j \in DOMAIN jobs : R(q)' \cap Q(j)' = {}
    BY <2>3, <2>7 DEF PlaceInv
  <2>13. \A v \in Workers : Busy(v)' =>
          /\ \A q \in Pools : wkMsg'[v] \notin R(q)'
          /\ \A j \in DOMAIN jobs : wkMsg'[v] \notin Q(j)'
          /\ \A u \in Workers : Busy(u)' /\ u # v => wkMsg'[u] # wkMsg'[v]
    BY <1>2, <2>3, <2>7, <2>8 DEF PlaceInv
  <2>14. serverPc = "process" =>
          /\ \A q \in Pools : Len(msg) \notin R(q)'
          /\ \A j \in DOMAIN jobs : Len(msg) \notin Q(j)'
          /\ \A v \in Workers : wkMsg'[v] # Len(msg)
    <3>1. serverPc = "process" => Len(msg) # 0
      BY DEF BoundInv, Messages
    <3>. QED BY <1>2, <2>3, <2>7, <2>8, <3>1 DEF PlaceInv
  <2>. QED BY <1>1, <2>6, <2>7, <2>9, <2>10, <2>11, <2>12, <2>13, <2>14 DEF PlaceInv
<1>. QED BY <1>3, <1>4, <1>5, WorkerNextIs

LEMMA OtherStepsKeepPlaces ==
  ASSUME TypeInv, BoundInv, PlaceInv,
         \/ Start \/ ServerExit \/ ServerProcess \/ Delete \/ JoinServer \/ UNCHANGED serverVars
         \/ \E w \in Workers : WorkerProcess(w)
         \/ \E p \in Pools : JoinPool(p)
  PROVE  PlaceInv'
<1>. USE DEF jobVars, poolVars, wkVars, endVars
<1>1. UNCHANGED msg /\ (serverPc' = "process" => serverPc = "process")
  BY DEF Start, ServerExit, ServerProcess, Delete, JoinServer, JoinPool, serverVars, WorkerProcess
<1>2. \A p \in Pools : ready'[p] \in {ready[p], <<>>}
  BY DEF Start, ServerExit, ServerProcess, Delete, JoinServer, JoinPool, serverVars, WorkerProcess, TypeInv
<1>3. QueuesKept
  <2>1. ASSUME NEW m \in Messages, Process(m) PROVE QueuesKept
    <3>1. m \in Nat
      BY DEF Messages
    <3>. QED BY <2>1, <3>1, ProcessIs, QueuesKeptIs
  <2>2. CASE ServerProcess
    BY <2>1, <2>2 DEF ServerProcess, BoundInv
  <2>3. ASSUME NEW w \in Workers, WorkerProcess(w) PROVE QueuesKept
    BY <2>1, <2>3 DEF WorkerProcess, BoundInv, Busy
  <2>4. CASE jobs' = jobs \/ jobs' = <<>>
    BY <2>4, QueuesKeptIs
  <2>. QED BY <2>2, <2>3, <2>4 DEF Start, ServerExit, Delete, JoinServer, JoinPool, serverVars
<1>4. \A w \in Workers : /\ Busy(w)' => Busy(w)
                         /\ wkMsg'[w] \in {wkMsg[w], 0} /\ (Busy(w)' => wkMsg'[w] = wkMsg[w])
  <2>1. SUFFICES ASSUME NEW w \in Workers
                 PROVE  /\ Busy(w)' => Busy(w)
                        /\ wkMsg'[w] \in {wkMsg[w], 0} /\ (Busy(w)' => wkMsg'[w] = wkMsg[w])
    OBVIOUS
  <2>2. ASSUME NEW v \in Workers, WorkerProcess(v)
        PROVE  /\ Busy(w)' => Busy(w)
               /\ wkMsg'[w] \in {wkMsg[w], 0} /\ (Busy(w)' => wkMsg'[w] = wkMsg[w])
    <3>1. /\ wkPc[v] = "process"
          /\ \/ wkPc' = [wkPc EXCEPT ![v] = "idle"] /\ wkMsg' = [wkMsg EXCEPT ![v] = 0]
             \/ wkPc' = [wkPc EXCEPT ![v] = "next"] /\ wkMsg' = wkMsg
      BY <2>2 DEF WorkerProcess, TypeInv
    <3>. QED BY <3>1 DEF Busy, TypeInv
  <2>3. CASE UNCHANGED <<wkPc, wkMsg>>
    BY <2>3 DEF Busy
  <2>. QED BY <2>2, <2>3 DEF Start, ServerExit, ServerProcess, Delete, JoinServer, JoinPool, serverVars
<1>. QED BY <1>1, <1>2, <1>3, <1>4, PlaceShrinks

-----------------------------------------------------------------------------
\* The end.

\* When the server is to end, what is being done belongs to no job.
NoJobAtWork ==
  /\ \A p \in Pools : \A m \in R(p) : msg[m].job = Discrete
  /\ \A w \in Workers : Busy(w) => msg[wkMsg[w]].job = Discrete

LEMMA EndInvIs ==
  EndInv <=>
    /\ \A i \in DOMAIN jobs : jobs[i].empty => Q(i) = {}
    /\ finalizing # "no" => shutdown
    /\ shutdown => (\A i \in DOMAIN jobs : jobs[i].empty) /\ NoJobAtWork
BY DEF EndInv, NoJobAtWork

\* What the list of jobs must be after a step.
EndOfJobs ==
  /\ \A i \in DOMAIN jobs' : jobs'[i].empty => Q(i)' = {}
  /\ shutdown => \A i \in DOMAIN jobs' : jobs'[i].empty

LEMMA EndOfJobsIs ==
  ASSUME TypeInv, EndInv,
         \/ jobs' = jobs \/ jobs' = <<>>
         \/ \E m \in Nat : Adds(m)
         \/ \E k \in DOMAIN jobs : jobs' = RemoveAt(jobs, k)
         \/ \E i \in DOMAIN jobs : JobsSame(i) /\ (jobs'[i].empty => Q(i)' = {}) /\ ~shutdown
  PROVE  EndOfJobs
<1>. USE DEF EndOfJobs, EndInv
<1>1. CASE jobs' = jobs
  <2>1. \A i \in DOMAIN jobs : Q(i)' = Q(i)
    BY <1>1 DEF Q
  <2>. QED BY <1>1, <2>1
<1>2. CASE jobs' = <<>>
  BY <1>2
<1>3. ASSUME NEW m \in Nat, Adds(m) PROVE EndOfJobs
  <2>1. PICK n, id \in Nat : Added(m, n, id)
    BY <1>3, AddsIs
  <2>. QED BY <2>1 DEF Added
<1>4. ASSUME NEW k \in DOMAIN jobs, jobs' = RemoveAt(jobs, k) PROVE EndOfJobs
  <2>1. PICK up : Removed(k, up)
    BY <1>4, RemovesIs
  <2>. QED BY <2>1 DEF Removed
<1>5. ASSUME NEW i \in DOMAIN jobs, JobsSame(i), jobs'[i].empty => Q(i)' = {}, ~shutdown
      PROVE  EndOfJobs
  BY <1>5 DEF JobsSame
<1>. QED BY <1>1, <1>2, <1>3, <1>4, <1>5

LEMMA TakeKeepsEnd ==
  ASSUME TypeInv, BoundInv, EndInv, NEW k \in config.kinds, ServerTake(k)
  PROVE  EndInv'
<1>1. PICK m : m = Len(msg) + 1
  OBVIOUS
<1>2. /\ shutdown => k.job = Discrete
      /\ UNCHANGED <<config, jobId, wkPc, wkMsg, terminate, shutdown, finalizing>>
      /\ \/ TakenInBand(m, k) \/ TakenRejected(m, k)
         \/ TakenDiscrete(m, k) \/ TakenForJob(m, k)
  BY <1>1, TakeIs
<1>3. /\ m \in Nat /\ msg'[m] = k
      /\ \A x \in Messages : msg'[x] = msg[x]
  BY <1>2 DEF TakenInBand, TakenRejected, TakenDiscrete, TakenForJob, Grown
<1>4. EndOfJobs
  <2>1. CASE TakenForJob(m, k)
    <3>1. ~shutdown
      BY <1>2, <2>1 DEF TakenForJob
    <3>2. PICK i \in DOMAIN jobs :
            \/ jobs' = [jobs EXCEPT ![i].empty = FALSE]
            \/ ~jobs[i].empty /\ jobs' = [jobs EXCEPT ![i].msgQue = Append(@, m)]
      BY <2>1 DEF TakenForJob
    <3>3. JobsSame(i) /\ (jobs'[i].empty => Q(i)' = {})
      BY <1>3, <3>2, MarkIs, EnqueueIs
    <3>. QED BY <3>1, <3>3, EndOfJobsIs
  <2>2. CASE jobs' = jobs
    BY <2>2, EndOfJobsIs
  <2>. QED BY <1>2, <2>1, <2>2 DEF TakenInBand, TakenRejected, TakenDiscrete
<1>5. ASSUME shutdown PROVE NoJobAtWork'
  <2>1. k.job = Discrete /\ NoJobAtWork
    BY <1>2, <1>5, EndInvIs
  <2>2. \A p \in Pools : R(p)' \subseteq R(p) \cup {m}
    <3>1. CASE UNCHANGED ready
      BY <3>1 DEF R
    <3>2. ASSUME NEW p \in Pools, PutReady(p, m) PROVE \A q \in Pools : R(q)' \subseteq R(q) \cup {m}
      BY <1>3, <3>2, PutIs
    <3>. QED BY <1>2, <3>1, <3>2 DEF TakenInBand, TakenRejected, TakenDiscrete, TakenForJob
  <2>3. \A p \in Pools : \A x \in R(p)' : msg'[x].job = Discrete
    BY <1>3, <2>1, <2>2 DEF NoJobAtWork, BoundInv
  <2>4. \A w \in Workers : Busy(w)' => msg'[wkMsg'[w]].job = Discrete
    BY <1>2, <1>3, <2>1 DEF NoJobAtWork, BoundInv, Busy
  <2>. QED BY <2>3, <2>4 DEF NoJobAtWork
<1>. QED BY <1>2, <1>4, <1>5 DEF EndInv, EndOfJobs, NoJobAtWork

\* Nothing new is put to work.
LEMMA AtWorkShrinks ==
  ASSUME NoJobAtWork, UNCHANGED msg,
         \A p \in Pools : R(p)' \subseteq R(p),
         \A w \in Workers : Busy(w)' => Busy(w) /\ wkMsg'[w] = wkMsg[w]
  PROVE  NoJobAtWork'
BY DEF NoJobAtWork

LEMMA WorkerKeepsEnd ==
  ASSUME TypeInv, BoundInv, PostInv, EndInv, NEW w \in Workers, WorkerStep(w)
  PROVE  EndInv'
<1>1. UNCHANGED <<config, msg, shutdown, finalizing>>
  BY DEF WorkerStep, WorkerTake, WorkerProcess, WorkerNext, endVars
<1>2. SUFFICES EndOfJobs /\ (shutdown => NoJobAtWork')
  BY <1>1 DEF EndInv, EndOfJobs, NoJobAtWork
<1>3. shutdown => NoJobAtWork
  BY EndInvIs
<1>4. ASSUME NEW p \in Pools, WorkerTake(w, p) PROVE EndOfJobs /\ (shutdown => NoJobAtWork')
  <2>1. EndOfJobs
    BY <1>4, EndOfJobsIs DEF WorkerTake, jobVars
  <2>2. CASE wkPc' = [wkPc EXCEPT ![w] = "exited"] /\ UNCHANGED <<ready, wkMsg>>
    <3>1. \A v \in Workers : Busy(v)' => Busy(v)
      BY <2>2 DEF Busy, TypeInv
    <3>2. \A q \in Pools : R(q)' = R(q)
      BY <2>2 DEF R
    <3>. QED BY <1>1, <1>3, <2>1, <2>2, <3>1, <3>2, AtWorkShrinks
  <2>3. CASE wkPc' = [wkPc EXCEPT ![w] = "process"]
    <3>1. PICK m : /\ m \in R(p) /\ wkMsg' = [wkMsg EXCEPT ![w] = m]
                   /\ R(p)' \subseteq R(p) /\ \A q \in Pools \ {p} : R(q)' = R(q)
      <4>1. w \in Workers /\ wkPc \in [Workers -> {"idle", "process", "next", "exited"}]
        BY DEF TypeInv
      <4>2. wkPc' # [wkPc EXCEPT ![w] = "exited"]
        BY <2>3, <4>1
      <4>. QED BY <1>4, <4>2, WorkerTakeIs
    <3>2. \A v \in Workers : Busy(v)' => \/ v = w /\ wkMsg'[v] = m
                                         \/ Busy(v) /\ wkMsg'[v] = wkMsg[v]
      BY <2>3, <3>1 DEF Busy, TypeInv
    <3>. QED BY <1>1, <1>3, <2>1, <3>1, <3>2 DEF NoJobAtWork
  <2>. QED BY <1>4, <2>2, <2>3, WorkerTakeIs
<1>5. CASE WorkerProcess(w)
  <2>1. wkMsg[w] \in Messages /\ wkMsg[w] \in Nat
    BY <1>5 DEF WorkerProcess, BoundInv, Busy, Messages
  <2>2. EndOfJobs
    BY <1>5, <2>1, ProcessIs, EndOfJobsIs DEF WorkerProcess
  <2>3. \A v \in Workers : Busy(v)' => Busy(v) /\ wkMsg'[v] = wkMsg[v]
    <3>1. /\ wkPc[w] = "process"
          /\ \/ wkPc' = [wkPc EXCEPT ![w] = "idle"] /\ wkMsg' = [wkMsg EXCEPT ![w] = 0]
             \/ wkPc' = [wkPc EXCEPT ![w] = "next"] /\ wkMsg' = wkMsg
      BY <1>5 DEF WorkerProcess, TypeInv
    <3>. QED BY <3>1 DEF Busy, TypeInv
  <2>4. \A p \in Pools : R(p)' = R(p)
    BY <1>5 DEF WorkerProcess, poolVars, R
  <2>. QED BY <1>1, <1>3, <2>2, <2>3, <2>4, AtWorkShrinks
<1>6. CASE WorkerNext(w)
  <2>1. \A v \in Workers : Busy(v)' => Busy(v) /\ wkMsg'[v] = wkMsg[v]
    BY <1>6 DEF WorkerNext, Busy, TypeInv
  <2>2. CASE UNCHANGED <<jobs, ready, sem>>
    <3>1. \A p \in Pools : R(p)' = R(p)
      BY <2>2 DEF R
    <3>. QED BY <1>1, <1>3, <2>1, <2>2, <3>1, AtWorkShrinks, EndOfJobsIs
  <2>3. ASSUME NEW i \in DOMAIN jobs, jobs[i].id = msg[wkMsg[w]].job,
               Empties(i) \/ \E m \in Messages : Continues(i, m)
        PROVE  EndOfJobs /\ (shutdown => NoJobAtWork')
    <3>1. ~shutdown
      <4>1. jobs[i].id # Discrete
        BY JobFields, RcmServerAssumption DEF RcmServerAssumption, JobIds, Discrete
      <4>2. Busy(w)
        BY <1>6 DEF WorkerNext, Busy
      <4>. QED BY <1>3, <2>3, <4>1, <4>2 DEF NoJobAtWork
    <3>2. JobsSame(i) /\ (jobs'[i].empty => Q(i)' = {})
      <4>1. CASE Empties(i)
        <5>1. JobsSame(i) /\ Q(i)' = Q(i) /\ Q(i) = {}
          BY <4>1, MarkIs, EmptyRange DEF Empties, Q
        <5>. QED BY <5>1
      <4>2. ASSUME NEW m \in Messages, Continues(i, m) PROVE JobsSame(i) /\ (jobs'[i].empty => Q(i)' = {})
        <5>1. JobsSame(i) /\ jobs'[i].empty = jobs[i].empty /\ Head(jobs[i].msgQue) \in Q(i)
          BY <4>2, DequeueIs DEF Continues
        <5>. QED BY <5>1 DEF EndInv
      <4>. QED BY <2>3, <4>1, <4>2
    <3>. QED BY <3>1, <3>2, EndOfJobsIs
  <2>. QED BY <1>6, <2>2, <2>3, WorkerNextIs
<1>. QED BY <1>4, <1>5, <1>6 DEF WorkerStep

LEMMA OtherStepsKeepEnd ==
  ASSUME TypeInv, BoundInv, EndInv,
         \/ Start \/ ServerExit \/ ServerProcess \/ Delete \/ JoinServer \/ UNCHANGED serverVars
         \/ \E p \in Pools : JoinPool(p)
  PROVE  EndInv'
<1>. USE DEF jobVars, poolVars, wkVars, endVars
<1>1. UNCHANGED <<msg, wkPc, wkMsg>>
  BY DEF Start, ServerExit, ServerProcess, Delete, JoinServer, JoinPool, serverVars
<1>2. \A p \in Pools : R(p)' \subseteq R(p)
  <2>1. \A p \in Pools : ready'[p] \in {ready[p], <<>>}
    BY DEF Start, ServerExit, ServerProcess, Delete, JoinServer, JoinPool, serverVars, TypeInv
  <2>. QED BY <2>1, EmptyRange DEF R
<1>3. \A w \in Workers : Busy(w)' => Busy(w) /\ wkMsg'[w] = wkMsg[w]
  BY <1>1 DEF Busy
<1>4. EndOfJobs
  <2>1. CASE ServerProcess
    <3>1. Len(msg) \in Messages /\ Len(msg) \in Nat
      BY <2>1 DEF ServerProcess, BoundInv, Messages
    <3>. QED BY <2>1, <3>1, ProcessIs, EndOfJobsIs DEF ServerProcess
  <2>2. CASE jobs' = jobs \/ jobs' = <<>>
    BY <2>2, EndOfJobsIs
  <2>. QED BY <2>1, <2>2 DEF Start, ServerExit, Delete, JoinServer, JoinPool, serverVars
<1>5. CASE Delete
  <2>1. NoJobAtWork /\ \A i \in DOMAIN jobs : jobs[i].empty
    <3>1. \A w \in Workers : Busy(w) => wkMsg[w] # 0
      BY DEF BoundInv, Messages
    <3>. QED BY <1>5, <3>1 DEF Delete, JobsAreIdle, NoJobAtWork, R
  <2>2. NoJobAtWork'
    BY <1>1, <1>2, <1>3, <2>1, AtWorkShrinks
  <2>3. jobs' = jobs /\ shutdown'
    BY <1>5 DEF Delete
  <2>. QED BY <1>4, <2>1, <2>2, <2>3 DEF EndInv, EndOfJobs, NoJobAtWork
<1>6. CASE ~Delete
  <2>1. shutdown' = shutdown /\ (finalizing' # "no" => finalizing # "no")
    BY <1>6 DEF Start, ServerExit, ServerProcess, JoinServer, JoinPool, serverVars, Place
  <2>2. shutdown => NoJobAtWork'
    BY <1>1, <1>2, <1>3, AtWorkShrinks, EndInvIs
  <2>. QED BY <1>4, <2>1, <2>2 DEF EndInv, EndOfJobs, NoJobAtWork
<1>. QED BY <1>5, <1>6

-----------------------------------------------------------------------------
\* Answers.

\* A step that neither answers nor takes a message.
LEMMA AnswersKept ==
  ASSUME AnswerInv, UNCHANGED <<msg, answers>>, \A x \in Messages : InPlace(x)' <=> InPlace(x)
  PROVE  AnswerInv'
<1>1. Messages' = Messages /\ \A x \in Messages : Expected(x)' <=> Expected(x)
  BY DEF Messages, Expected
<1>. QED BY <1>1 DEF AnswerInv

LEMMA OneAnswer ==
  ASSUME NEW status \in Statuses
  PROVE  Append(<<>>, status) # <<>> /\ Len(Append(<<>>, status)) <= 1
OBVIOUS

\* m is processed, and what waits for its job is returned.
LEMMA Settles ==
  ASSUME TypeInv, AnswerInv, NEW m \in Messages, NEW pending \in SUBSET Messages,
         InPlace(m), \A x \in pending : InPlace(x),
         Answers(m, pending), UNCHANGED msg,
         \A x \in Messages : InPlace(x)' <=> InPlace(x) /\ x # m /\ x \notin pending
  PROVE  AnswerInv'
<1>1. Messages' = Messages /\ \A x \in Messages : Expected(x)' <=> Expected(x)
  BY DEF Messages, Expected
<1>2. SUFFICES ASSUME NEW x \in Messages
               PROVE  /\ Len(answers'[x]) <= 1
                      /\ InPlace(x)' => answers'[x] = <<>>
                      /\ ~InPlace(x)' /\ Expected(x) => answers'[x] # <<>>
  BY <1>1 DEF AnswerInv
<1>3. /\ Len(answers[x]) <= 1
      /\ InPlace(x) => answers[x] = <<>>
      /\ ~InPlace(x) /\ Expected(x) => answers[x] # <<>>
  BY DEF AnswerInv
<1>4. CASE x = m
  <2>1. answers[x] = <<>> /\ ~InPlace(x)'
    BY <1>3, <1>4
  <2>2. CASE \E status \in Statuses : answers'[m] = Append(answers[m], status)
    BY <1>4, <2>1, <2>2, OneAnswer
  <2>3. CASE answers'[m] = answers[m] /\ ~Expected(m)
    BY <1>3, <1>4, <2>1, <2>3
  <2>. QED BY <2>2, <2>3 DEF Answers
<1>5. CASE x # m /\ x \in pending
  <2>1. answers[x] = <<>> /\ ~InPlace(x)' /\ "unprocessed" \in Statuses
    BY <1>3, <1>5 DEF Statuses
  <2>2. answers'[x] = Append(answers[x], "unprocessed")
    BY <1>5 DEF Answers
  <2>. QED BY <2>1, <2>2, OneAnswer
<1>6. CASE x # m /\ x \notin pending
  BY <1>3, <1>6 DEF Answers
<1>. QED BY <1>4, <1>5, <1>6

LEMMA TakeKeepsAnswers ==
  ASSUME TypeInv, BoundInv, AnswerInv, NEW k \in config.kinds, ServerTake(k)
  PROVE  AnswerInv'
<1>1. PICK m : m = Len(msg) + 1
  OBVIOUS
<1>2. /\ serverPc = "recv"
      /\ UNCHANGED <<config, jobId, wkPc, wkMsg, terminate, shutdown, finalizing>>
      /\ \/ TakenInBand(m, k) \/ TakenRejected(m, k)
         \/ TakenDiscrete(m, k) \/ TakenForJob(m, k)
  BY <1>1, TakeIs
<1>3. /\ m \in Nat /\ m \notin Messages /\ Len(msg') = m /\ Messages' = Messages \cup {m}
      /\ \A x \in Messages : msg'[x] = msg[x] /\ answers'[x] = answers[x]
  BY <1>2 DEF TakenInBand, TakenRejected, TakenDiscrete, TakenForJob, Grown
<1>4. SUFFICES /\ \A x \in Messages : InPlace(x)' <=> InPlace(x)
               /\ \/ InPlace(m)' /\ answers'[m] = <<>>
                  \/ ~InPlace(m)' /\ \E status \in Statuses : answers'[m] = <<status>>
  <2>1. \A x \in Messages : Expected(x)' <=> Expected(x)
    BY <1>3 DEF Expected
  <2>2. Len(<<>>) <= 1 /\ \A status \in Statuses : <<status>> # <<>> /\ Len(<<status>>) <= 1
    OBVIOUS
  <2>3. /\ Len(answers'[m]) <= 1
        /\ InPlace(m)' => answers'[m] = <<>>
        /\ ~InPlace(m)' => answers'[m] # <<>>
    BY <1>4, <2>2
  <2>. QED BY <1>3, <1>4, <2>1, <2>3 DEF AnswerInv
<1>5. /\ \A p \in Pools : m \notin R(p)
      /\ \A i \in DOMAIN jobs : m \notin Q(i)
      /\ \A w \in Workers : wkPc[w] = "process" => wkMsg[w] # m
  BY <1>3 DEF BoundInv, Busy
<1>6. ASSUME UNCHANGED jobs PROVE \A i \in DOMAIN jobs : Q(i)' = Q(i)
  BY <1>6 DEF Q
<1>7. ASSUME UNCHANGED ready PROVE \A p \in Pools : R(p)' = R(p)
  BY <1>7 DEF R
<1>8. CASE TakenInBand(m, k)
  <2>1. UNCHANGED <<jobs, ready>> /\ serverPc' = "process" /\ answers'[m] = <<>>
    BY <1>8 DEF TakenInBand, Grown
  <2>. QED BY <1>2, <1>3, <1>6, <1>7, <2>1 DEF InPlace
<1>9. CASE TakenRejected(m, k)
  <2>1. /\ UNCHANGED <<jobs, ready>> /\ serverPc' # "process"
        /\ \E status \in Statuses : answers'[m] = <<status>>
    BY <1>9 DEF TakenRejected, Grown
  <2>. QED BY <1>2, <1>3, <1>5, <1>6, <1>7, <2>1 DEF InPlace
<1>10. ASSUME NEW p \in Pools, PutReady(p, m), serverPc' # "process", DOMAIN jobs' = DOMAIN jobs,
              \A i \in DOMAIN jobs : Q(i)' = Q(i)
       PROVE  InPlace(m)' /\ \A x \in Messages : InPlace(x)' <=> InPlace(x)
  <2>1. R(p)' = R(p) \cup {m} /\ \A q \in Pools \ {p} : R(q)' = R(q)
    BY <1>3, <1>10, PutIs
  <2>. QED BY <1>2, <1>3, <1>10, <2>1 DEF InPlace
<1>11. CASE TakenDiscrete(m, k)
  <2>1. k.pool \in Pools /\ PutReady(k.pool, m) /\ serverPc' # "process" /\ UNCHANGED jobs
        /\ answers'[m] = <<>>
    BY <1>11 DEF TakenDiscrete, Grown
  <2>. QED BY <1>6, <1>10, <2>1
<1>12. CASE TakenForJob(m, k)
  <2>1. PICK i \in DOMAIN jobs :
          \/ jobs' = [jobs EXCEPT ![i].empty = FALSE] /\ PutReady(k.pool, m)
          \/ jobs' = [jobs EXCEPT ![i].msgQue = Append(@, m)] /\ UNCHANGED ready
    BY <1>12 DEF TakenForJob
  <2>2. serverPc' # "process" /\ k.pool \in Pools /\ answers'[m] = <<>>
    BY <1>12 DEF TakenForJob, Grown
  <2>3. CASE jobs' = [jobs EXCEPT ![i].empty = FALSE] /\ PutReady(k.pool, m)
    <3>1. DOMAIN jobs' = DOMAIN jobs /\ \A j \in DOMAIN jobs : Q(j)' = Q(j)
      BY <2>3, MarkIs DEF JobsSame
    <3>. QED BY <1>10, <2>2, <2>3, <3>1
  <2>4. CASE jobs' = [jobs EXCEPT ![i].msgQue = Append(@, m)] /\ UNCHANGED ready
    <3>1. /\ DOMAIN jobs' = DOMAIN jobs /\ Q(i)' = Q(i) \cup {m}
          /\ \A j \in DOMAIN jobs \ {i} : Q(j)' = Q(j)
      BY <1>3, <2>4, EnqueueIs DEF JobsSame
    <3>2. InPlace(m)'
      BY <3>1 DEF InPlace
    <3>3. \A x \in Messages : InPlace(x)' <=> InPlace(x)
      BY <1>2, <1>3, <1>7, <2>2, <2>4, <3>1 DEF InPlace
    <3>. QED BY <2>2, <3>2, <3>3
  <2>. QED BY <2>1, <2>3, <2>4
<1>. QED BY <1>2, <1>8, <1>9, <1>11, <1>12

\* What waits in the list of jobs after m has been processed.
LEMMA PendingIs ==
  ASSUME TypeInv, BoundInv, PlaceInv, NEW m \in Messages, Process(m), UNCHANGED msg
  PROVE  \E pending \in SUBSET Messages :
           /\ Answers(m, pending)
           /\ \A x \in pending : \E i \in DOMAIN jobs : x \in Q(i)
           /\ \A x \in Messages :
                (\E i \in DOMAIN jobs' : x \in Q(i)')
                   <=> (\E i \in DOMAIN jobs : x \in Q(i)) /\ x \notin pending
<1>1. CASE jobs' = jobs /\ Answers(m, {})
  <2>1. \A i \in DOMAIN jobs : Q(i)' = Q(i)
    BY <1>1 DEF Q
  <2>. QED BY <1>1, <2>1
<1>2. CASE Adds(m) /\ Answers(m, {})
  <2>1. m \in Nat
    BY DEF Messages
  <2>2. PICK n, id \in Nat : Added(m, n, id)
    BY <1>2, <2>1, AddsIs
  <2>3. \A x : (\E i \in DOMAIN jobs' : x \in Q(i)') <=> (\E i \in DOMAIN jobs : x \in Q(i))
    BY <2>2 DEF Added
  <2>. QED BY <1>2, <2>3
<1>3. ASSUME NEW k \in DOMAIN jobs, jobs' = RemoveAt(jobs, k), Answers(m, Q(k))
      PROVE  \E pending \in SUBSET Messages :
               /\ Answers(m, pending)
               /\ \A x \in pending : \E i \in DOMAIN jobs : x \in Q(i)
               /\ \A x \in Messages :
                    (\E i \in DOMAIN jobs' : x \in Q(i)')
                       <=> (\E i \in DOMAIN jobs : x \in Q(i)) /\ x \notin pending
  <2>1. PICK up : Removed(k, up)
    BY <1>3, RemovesIs
  <2>2. \A i \in DOMAIN jobs \ {k} : Q(i) \cap Q(k) = {}
    BY DEF PlaceInv
  <2>3. \A x : (\E i \in DOMAIN jobs' : x \in Q(i)')
                 <=> (\E i \in DOMAIN jobs : x \in Q(i)) /\ x \notin Q(k)
    BY <2>1, <2>2 DEF Removed
  <2>4. Q(k) \in SUBSET Messages
    BY DEF BoundInv
  <2>. QED BY <1>3, <2>3, <2>4
<1>. QED BY <1>1, <1>2, <1>3, ProcessIs

LEMMA ServerProcessKeepsAnswers ==
  ASSUME TypeInv, BoundInv, PlaceInv, AnswerInv, ServerProcess
  PROVE  AnswerInv'
<1>1. /\ serverPc = "process" /\ Process(Len(msg)) /\ serverPc' # "process"
      /\ UNCHANGED <<msg, ready, wkPc, wkMsg>>
  BY DEF ServerProcess, poolVars, wkVars
<1>2. PICK m : m = Len(msg)
  OBVIOUS
<1>3. m \in Messages /\ InPlace(m)
  BY <1>1, <1>2 DEF BoundInv, InPlace
<1>4. PICK pending \in SUBSET Messages :
           /\ Answers(m, pending)
           /\ \A x \in pending : \E i \in DOMAIN jobs : x \in Q(i)
           /\ \A x \in Messages :
                (\E i \in DOMAIN jobs' : x \in Q(i)')
                   <=> (\E i \in DOMAIN jobs : x \in Q(i)) /\ x \notin pending
  BY <1>1, <1>2, <1>3, PendingIs
<1>5. \A p \in Pools : R(p)' = R(p)
  BY <1>1 DEF R
<1>6. \A x \in pending :
        /\ \A p \in Pools : x \notin R(p)
        /\ \A w \in Workers : wkPc[w] = "process" => wkMsg[w] # x
  BY <1>4 DEF PlaceInv, Busy
<1>7. /\ \A p \in Pools : m \notin R(p)
      /\ \A i \in DOMAIN jobs : m \notin Q(i)
      /\ \A w \in Workers : wkMsg[w] # m
  BY <1>1, <1>2 DEF PlaceInv
<1>8. ASSUME NEW x \in Messages
      PROVE  InPlace(x)' <=> InPlace(x) /\ x # m /\ x \notin pending
  <2>1. InPlace(x)' <=> \/ \E p \in Pools : x \in R(p)
                        \/ \E i \in DOMAIN jobs' : x \in Q(i)'
                        \/ \E w \in Workers : wkPc[w] = "process" /\ wkMsg[w] = x
    BY <1>1, <1>5 DEF InPlace
  <2>. QED BY <1>1, <1>2, <1>4, <1>6, <1>7, <2>1 DEF InPlace
<1>9. \A x \in pending : InPlace(x)
  BY <1>4 DEF InPlace
<1>. QED BY <1>1, <1>3, <1>4, <1>8, <1>9, Settles

LEMMA WorkerProcessKeepsAnswers ==
  ASSUME TypeInv, BoundInv, PlaceInv, AnswerInv, NEW w \in Workers, WorkerProcess(w)
  PROVE  AnswerInv'
<1>1. /\ wkPc[w] = "process" /\ Process(wkMsg[w])
      /\ UNCHANGED <<msg, ready, serverPc>>
      /\ wkPc'[w] # "process"
      /\ \A v \in Workers \ {w} : wkPc'[v] = wkPc[v] /\ wkMsg'[v] = wkMsg[v]
  BY DEF WorkerProcess, poolVars, TypeInv
<1>2. PICK m : m = wkMsg[w]
  OBVIOUS
<1>3. m \in Messages /\ InPlace(m)
  BY <1>1, <1>2 DEF BoundInv, InPlace, Busy
<1>4. PICK pending \in SUBSET Messages :
           /\ Answers(m, pending)
           /\ \A x \in pending : \E i \in DOMAIN jobs : x \in Q(i)
           /\ \A x \in Messages :
                (\E i \in DOMAIN jobs' : x \in Q(i)')
                   <=> (\E i \in DOMAIN jobs : x \in Q(i)) /\ x \notin pending
  BY <1>1, <1>2, <1>3, PendingIs
<1>5. \A p \in Pools : R(p)' = R(p)
  BY <1>1 DEF R
<1>6. \A x \in pending :
        /\ \A p \in Pools : x \notin R(p)
        /\ \A v \in Workers : wkPc[v] = "process" => wkMsg[v] # x
        /\ serverPc = "process" => x # Len(msg)
  BY <1>4 DEF PlaceInv, Busy
<1>7. /\ \A p \in Pools : m \notin R(p)
      /\ \A i \in DOMAIN jobs : m \notin Q(i)
      /\ \A v \in Workers \ {w} : wkPc[v] = "process" => wkMsg[v] # m
      /\ serverPc = "process" => m # Len(msg)
  BY <1>1, <1>2 DEF PlaceInv, Busy
<1>8. ASSUME NEW x \in Messages
      PROVE  InPlace(x)' <=> InPlace(x) /\ x # m /\ x \notin pending
  <2>1. InPlace(x)' <=> \/ \E p \in Pools : x \in R(p)
                        \/ \E i \in DOMAIN jobs' : x \in Q(i)'
                        \/ \E v \in Workers \ {w} : wkPc[v] = "process" /\ wkMsg[v] = x
                        \/ serverPc = "process" /\ x = Len(msg)
    BY <1>1, <1>5 DEF InPlace
  <2>. QED BY <1>1, <1>2, <1>4, <1>6, <1>7, <2>1 DEF InPlace
<1>9. \A x \in pending : InPlace(x)
  BY <1>4 DEF InPlace
<1>. QED BY <1>1, <1>3, <1>4, <1>8, <1>9, Settles

LEMMA WorkerTakeKeepsAnswers ==
  ASSUME TypeInv, BoundInv, PostInv, PlaceInv, AnswerInv,
         NEW w \in Workers, NEW p \in Pools, WorkerTake(w, p)
  PROVE  AnswerInv'
<1>1. UNCHANGED <<msg, answers, jobs, serverPc>> /\ wkPc[w] = "idle"
  BY DEF WorkerTake, jobVars
<1>2. \A i \in DOMAIN jobs : Q(i)' = Q(i)
  BY <1>1 DEF Q
<1>3. CASE wkPc' = [wkPc EXCEPT ![w] = "exited"] /\ UNCHANGED <<ready, wkMsg>>
  <2>1. \A v \in Workers : wkPc'[v] = "process" <=> wkPc[v] = "process"
    BY <1>1, <1>3 DEF TypeInv
  <2>2. \A q \in Pools : R(q)' = R(q)
    BY <1>3 DEF R
  <2>3. \A x \in Messages : InPlace(x)' <=> InPlace(x)
    BY <1>1, <1>2, <1>3, <2>1, <2>2 DEF InPlace
  <2>. QED BY <1>1, <2>3, AnswersKept
<1>4. CASE wkPc' = [wkPc EXCEPT ![w] = "process"]
  <2>1. PICK m : /\ wkMsg' = [wkMsg EXCEPT ![w] = m]
                 /\ R(p) = R(p)' \cup {m} /\ \A q \in Pools \ {p} : R(q)' = R(q)
    <3>1. w \in Workers /\ wkPc \in [Workers -> {"idle", "process", "next", "exited"}]
      BY DEF TypeInv
    <3>2. wkPc' # [wkPc EXCEPT ![w] = "exited"]
      BY <1>4, <3>1
    <3>3. /\ wkMsg' = [wkMsg EXCEPT ![w] = Head(ready[p])]
          /\ R(p) = R(p)' \cup {Head(ready[p])} /\ \A q \in Pools \ {p} : R(q)' = R(q)
      BY <3>2, WorkerTakeIs
    <3>. QED BY <3>3
  <2>2. /\ wkPc'[w] = "process" /\ wkMsg'[w] = m
        /\ \A v \in Workers \ {w} : wkPc'[v] = wkPc[v] /\ wkMsg'[v] = wkMsg[v]
    BY <1>4, <2>1 DEF TypeInv
  <2>3. ASSUME NEW x \in Messages PROVE InPlace(x)' <=> InPlace(x)
    <3>1. (\E v \in Workers : wkPc'[v] = "process" /\ wkMsg'[v] = x)
            <=> x = m \/ \E v \in Workers : wkPc[v] = "process" /\ wkMsg[v] = x
      BY <1>1, <2>2
    <3>2. (\E q \in Pools : x \in R(q)) <=> x = m \/ \E q \in Pools : x \in R(q)'
      BY <2>1
    <3>. QED BY <1>1, <1>2, <3>1, <3>2 DEF InPlace
  <2>. QED BY <1>1, <2>3, AnswersKept
<1>. QED BY <1>3, <1>4, WorkerTakeIs

LEMMA WorkerNextKeepsAnswers ==
  ASSUME TypeInv, BoundInv, PlaceInv, AnswerInv, NEW w \in Workers, WorkerNext(w)
  PROVE  AnswerInv'
<1>1. /\ UNCHANGED <<msg, answers, serverPc>> /\ wkPc[w] = "next"
      /\ wkPc'[w] = "idle"
      /\ \A v \in Workers \ {w} : wkPc'[v] = wkPc[v] /\ wkMsg'[v] = wkMsg[v]
  BY DEF WorkerNext, TypeInv
<1>2. SUFFICES ASSUME NEW x \in Messages
               PROVE  (\E p \in Pools : x \in R(p)') \/ (\E i \in DOMAIN jobs' : x \in Q(i)')
                        <=> (\E p \in Pools : x \in R(p)) \/ (\E i \in DOMAIN jobs : x \in Q(i))
  <2>1. \A x \in Messages : InPlace(x)' <=> InPlace(x)
    BY <1>1, <1>2 DEF InPlace
  <2>. QED BY <1>1, <2>1, AnswersKept
<1>3. ASSUME UNCHANGED ready PROVE \A p \in Pools : R(p)' = R(p)
  BY <1>3 DEF R
<1>4. CASE UNCHANGED <<jobs, ready, sem>>
  <2>1. \A i \in DOMAIN jobs : Q(i)' = Q(i)
    BY <1>4 DEF Q
  <2>. QED BY <1>3, <1>4, <2>1
<1>5. CASE \E i \in DOMAIN jobs : Empties(i)
  <2>1. DOMAIN jobs' = DOMAIN jobs /\ UNCHANGED ready /\ \A j \in DOMAIN jobs : Q(j)' = Q(j)
    BY <1>5, MarkIs DEF Empties, JobsSame
  <2>. QED BY <1>3, <2>1
<1>6. CASE \E i \in DOMAIN jobs, m \in Messages : Continues(i, m)
  <2>1. PICK i \in DOMAIN jobs, m \in Messages : Continues(i, m)
    BY <1>6
  <2>2. PICK p \in Pools : PutReady(p, m)
    BY <2>1 DEF Continues
  <2>3. R(p)' = R(p) \cup {m} /\ \A q \in Pools \ {p} : R(q)' = R(q)
    BY <2>2, PutIs DEF Messages
  <2>4. /\ DOMAIN jobs' = DOMAIN jobs /\ Q(i) = Q(i)' \cup {m}
        /\ \A j \in DOMAIN jobs \ {i} : Q(j)' = Q(j)
    BY <2>1, DequeueIs DEF Continues, JobsSame
  <2>. QED BY <2>3, <2>4
<1>. QED BY <1>4, <1>5, <1>6, WorkerNextIs

LEMMA JoinPoolKeepsAnswers ==
  ASSUME TypeInv, BoundInv, PlaceInv, AnswerInv, NEW p \in Pools, JoinPool(p)
  PROVE  AnswerInv'
<1>1. /\ UNCHANGED <<msg, jobs, serverPc, wkPc, wkMsg>> /\ ReturnReady(p)
      /\ ready' = [ready EXCEPT ![p] = <<>>]
  BY DEF JoinPool, jobVars, wkVars
<1>2. /\ Messages' = Messages /\ \A x \in Messages : Expected(x)' <=> Expected(x)
      /\ \A i \in DOMAIN jobs : Q(i)' = Q(i)
  BY <1>1 DEF Messages, Expected, Q
<1>3. R(p)' = {} /\ \A q \in Pools \ {p} : R(q)' = R(q)
  BY <1>1, EmptyRange DEF R, TypeInv
<1>4. \A q \in Pools \ {p} : R(p) \cap R(q) = {}
  BY DEF PlaceInv, Pools
<1>5. \A x \in R(p) :
        /\ \A i \in DOMAIN jobs : x \notin Q(i)
        /\ \A w \in Workers : wkPc[w] = "process" => wkMsg[w] # x
        /\ serverPc = "process" => x # Len(msg)
  BY DEF PlaceInv, Busy
<1>6. ASSUME NEW x \in Messages
      PROVE  InPlace(x)' <=> InPlace(x) /\ x \notin R(p)
  <2>1. InPlace(x)' <=> \/ \E q \in Pools : x \in R(q)'
                        \/ \E i \in DOMAIN jobs : x \in Q(i)
                        \/ \E w \in Workers : wkPc[w] = "process" /\ wkMsg[w] = x
                        \/ serverPc = "process" /\ x = Len(msg)
    BY <1>1, <1>2 DEF InPlace
  <2>2. (\E q \in Pools : x \in R(q)') <=> (\E q \in Pools : x \in R(q)) /\ x \notin R(p)
    BY <1>3, <1>4
  <2>. QED BY <1>5, <2>1, <2>2 DEF InPlace
<1>7. \A x \in Messages :
        answers'[x] = IF x \in R(p) THEN Append(answers[x], "unprocessed") ELSE answers[x]
  BY <1>1, ReturnReadyIs
<1>8. ASSUME NEW x \in Messages
      PROVE  /\ Len(answers'[x]) <= 1
             /\ InPlace(x)' => answers'[x] = <<>>
             /\ ~InPlace(x)' /\ Expected(x) => answers'[x] # <<>>
  <2>1. CASE x \in R(p)
    <3>1. answers[x] = <<>> /\ ~InPlace(x)' /\ "unprocessed" \in Statuses
      BY <1>6, <2>1 DEF AnswerInv, InPlace, Statuses
    <3>. QED BY <1>7, <2>1, <3>1, OneAnswer
  <2>2. CASE x \notin R(p)
    BY <1>6, <1>7, <2>2 DEF AnswerInv
  <2>. QED BY <2>1, <2>2
<1>. QED BY <1>2, <1>8 DEF AnswerInv

LEMMA OtherStepsKeepAnswers ==
  ASSUME TypeInv, EndInv, AnswerInv,
         Start \/ ServerExit \/ Delete \/ JoinServer \/ UNCHANGED serverVars
  PROVE  AnswerInv'
<1>. USE DEF jobVars, poolVars, wkVars, endVars
<1>1. UNCHANGED <<msg, answers, ready, wkPc, wkMsg>>
  BY DEF Start, ServerExit, Delete, JoinServer, serverVars
<1>2. serverPc' = "process" <=> serverPc = "process"
  BY DEF Start, ServerExit, Delete, JoinServer, serverVars
<1>3. \A p \in Pools : R(p)' = R(p)
  BY <1>1 DEF R
<1>4. \A x : (\E i \in DOMAIN jobs' : x \in Q(i)') <=> (\E i \in DOMAIN jobs : x \in Q(i))
  <2>1. CASE UNCHANGED jobs
    BY <2>1 DEF Q
  <2>2. CASE JoinServer
    <3>1. \A i \in DOMAIN jobs : Q(i) = {}
      BY <2>2 DEF JoinServer, EndInv
    <3>. QED BY <2>2, <3>1 DEF JoinServer
  <2>. QED BY <2>1, <2>2 DEF Start, ServerExit, Delete, serverVars
<1>5. \A x \in Messages : InPlace(x)' <=> InPlace(x)
  BY <1>1, <1>2, <1>3, <1>4 DEF InPlace
<1>. QED BY <1>1, <1>5, AnswersKept

-----------------------------------------------------------------------------
\* Sequence.

\* Nothing new is at work, and every job that is left is as it was.
LEMMA StreamShrinks ==
  ASSUME StreamInv, UNCHANGED <<msg, stream>>,
         \A x \in Messages : /\ InPlace(x)' => InPlace(x)
                             /\ Active(x)' => Active(x)
                             /\ AtPool(x)' => AtPool(x),
         serverPc' = "process" => serverPc = "process",
         NEW up,
         \A i \in DOMAIN jobs' :
           up[i] \in DOMAIN jobs /\ jobs'[i] = jobs[up[i]] /\ Q(i)' = Q(up[i]),
         \A i, j \in DOMAIN jobs' : up[i] = up[j] => i = j,
         \A i \in DOMAIN jobs : jobs[i].born \in Messages
  PROVE  StreamInv'
<1>1. Messages' = Messages
  BY DEF Messages
<1>2. \A i, j \in DOMAIN jobs' : jobs'[i].born = jobs'[j].born => i = j
  BY DEF StreamInv
<1>3. \A i \in DOMAIN jobs' : \A m \in Messages : jobs'[i].born = m => ~InPlace(m)'
  BY DEF StreamInv
<1>4. \A m \in Messages : /\ stream[m] # 0 => stream[m] \in Messages
                          /\ \A k \in Messages : stream[m] = k => ~InPlace(k)'
  BY DEF StreamInv
<1>5. \A m, k \in Messages :
        Active(m)' /\ Active(k)' /\ stream[m] = stream[k] /\ stream[m] # 0 => m = k
  BY DEF StreamInv
<1>6. \A i \in DOMAIN jobs' : \A m \in Messages :
        /\ Active(m)' /\ stream[m] = jobs'[i].born => ~jobs'[i].empty /\ \A k \in Q(i)' : m < k
        /\ m \in Q(i)' => stream[m] = jobs'[i].born /\ msg[m].job = jobs'[i].id
        /\ Active(m)' /\ stream[m] # 0 /\ msg[m].job = jobs'[i].id => stream[m] = jobs'[i].born
  BY DEF StreamInv
<1>7. \A m \in Messages : AtPool(m)' => (stream[m] = 0 <=> msg[m].job = Discrete)
  BY DEF StreamInv
<1>. QED BY <1>1, <1>2, <1>3, <1>4, <1>5, <1>6, <1>7 DEF StreamInv

LEMMA SameJobs ==
  ASSUME UNCHANGED jobs
  PROVE  \E up : /\ \A i \in DOMAIN jobs' :
                      up[i] \in DOMAIN jobs /\ jobs'[i] = jobs[up[i]] /\ Q(i)' = Q(up[i])
                 /\ \A i, j \in DOMAIN jobs' : up[i] = up[j] => i = j
<1>1. PICK up : up = [i \in DOMAIN jobs |-> i]
  OBVIOUS
<1>2. \A i \in DOMAIN jobs : up[i] = i /\ Q(i)' = Q(i)
  BY <1>1 DEF Q
<1>. QED BY <1>2

\* m is processed by the server thread or a worker.
LEMMA ProcessKeepsStreams ==
  ASSUME TypeInv, BoundInv, StreamInv, FreshIds, NEW m \in Messages, Process(m), InPlace(m),
         UNCHANGED <<msg, stream>>,
         \A x \in Messages : /\ InPlace(x)' => InPlace(x) /\ x # m
                             /\ Active(x)' => Active(x)
                             /\ AtPool(x)' => AtPool(x),
         serverPc' = "process" => serverPc = "process"
  PROVE  StreamInv'
<1>1. \A i \in DOMAIN jobs : jobs[i].born \in Messages
  BY DEF BoundInv
<1>2. CASE jobs' = jobs
  <2>1. PICK up :
          /\ \A i \in DOMAIN jobs' :
               up[i] \in DOMAIN jobs /\ jobs'[i] = jobs[up[i]] /\ Q(i)' = Q(up[i])
          /\ \A i, j \in DOMAIN jobs' : up[i] = up[j] => i = j
    BY <1>2, SameJobs
  <2>. QED BY <1>1, <2>1, StreamShrinks
<1>3. ASSUME NEW k \in DOMAIN jobs, jobs' = RemoveAt(jobs, k) PROVE StreamInv'
  <2>1. PICK up : Removed(k, up)
    BY <1>3, RemovesIs
  <2>2. /\ \A i \in DOMAIN jobs' :
             up[i] \in DOMAIN jobs /\ jobs'[i] = jobs[up[i]] /\ Q(i)' = Q(up[i])
        /\ \A i, j \in DOMAIN jobs' : up[i] = up[j] => i = j
    BY <2>1 DEF Removed
  <2>. QED BY <1>1, <2>2, StreamShrinks
<1>4. CASE Adds(m)
  <2>1. m \in Nat /\ Messages' = Messages /\ m # 0
    BY DEF Messages
  <2>2. PICK n, id \in Nat : Added(m, n, id)
    BY <1>4, <2>1, AddsIs
  <2>3. /\ n \notin DOMAIN jobs /\ DOMAIN jobs' = DOMAIN jobs \cup {n}
        /\ \A i \in DOMAIN jobs : jobs'[i] = jobs[i] /\ Q(i)' = Q(i) /\ jobs[i].id # id
        /\ jobs'[n].id = id /\ jobs'[n].born = m /\ Q(n)' = {}
    BY <2>2 DEF Added
  <2>4. \A i \in DOMAIN jobs : jobs[i].born # m
    BY DEF StreamInv
  <2>5. \A x \in Messages : stream[x] # m
    BY <2>1 DEF StreamInv
  <2>6. \A x \in Messages : Active(x) /\ msg[x].job = id => stream[x] = 0
    BY <2>3 DEF FreshIds
  <2>7. \A i, j \in DOMAIN jobs' : jobs'[i].born = jobs'[j].born => i = j
    BY <2>3, <2>4 DEF StreamInv
  <2>8. \A i \in DOMAIN jobs' : \A x \in Messages : jobs'[i].born = x => ~InPlace(x)'
    BY <2>3 DEF StreamInv
  <2>9. \A x \in Messages : /\ stream[x] # 0 => stream[x] \in Messages
                            /\ \A k \in Messages : stream[x] = k => ~InPlace(k)'
    BY DEF StreamInv
  <2>10. \A x, k \in Messages :
          Active(x)' /\ Active(k)' /\ stream[x] = stream[k] /\ stream[x] # 0 => x = k
    BY DEF StreamInv
  <2>11. \A i \in DOMAIN jobs' : \A x \in Messages :
          /\ Active(x)' /\ stream[x] = jobs'[i].born => ~jobs'[i].empty /\ \A k \in Q(i)' : x < k
          /\ x \in Q(i)' => stream[x] = jobs'[i].born /\ msg[x].job = jobs'[i].id
          /\ Active(x)' /\ stream[x] # 0 /\ msg[x].job = jobs'[i].id => stream[x] = jobs'[i].born
    <3>1. SUFFICES ASSUME NEW i \in DOMAIN jobs', NEW x \in Messages
                   PROVE
          /\ Active(x)' /\ stream[x] = jobs'[i].born => ~jobs'[i].empty /\ \A k \in Q(i)' : x < k
          /\ x \in Q(i)' => stream[x] = jobs'[i].born /\ msg[x].job = jobs'[i].id
          /\ Active(x)' /\ stream[x] # 0 /\ msg[x].job = jobs'[i].id => stream[x] = jobs'[i].born
      OBVIOUS
    <3>2. CASE i = n
      BY <2>3, <2>5, <2>6, <3>2
    <3>3. CASE i \in DOMAIN jobs
      BY <2>3, <3>3 DEF StreamInv
    <3>. QED BY <2>3, <3>2, <3>3
  <2>12. \A x \in Messages : AtPool(x)' => (stream[x] = 0 <=> msg[x].job = Discrete)
    BY DEF StreamInv
  <2>13. serverPc' = "process" => stream[Len(msg)] = 0
    BY DEF StreamInv
  <2>. QED BY <2>1, <2>7, <2>8, <2>9, <2>10, <2>11, <2>12, <2>13 DEF StreamInv
<1>. QED BY <1>2, <1>3, <1>4, ProcessIs

LEMMA ServerProcessKeepsStreams ==
  ASSUME TypeInv, BoundInv, PlaceInv, StreamInv, FreshIds, ServerProcess
  PROVE  StreamInv'
<1>1. /\ serverPc = "process" /\ Process(Len(msg)) /\ serverPc' # "process"
      /\ UNCHANGED <<msg, stream, ready, wkPc, wkMsg>>
  BY DEF ServerProcess, poolVars, wkVars
<1>2. PICK m : m = Len(msg)
  OBVIOUS
<1>3. m \in Messages /\ InPlace(m)
  BY <1>1, <1>2 DEF BoundInv, InPlace
<1>4. PICK pending \in SUBSET Messages :
           \A x \in Messages :
                (\E i \in DOMAIN jobs' : x \in Q(i)')
                   <=> (\E i \in DOMAIN jobs : x \in Q(i)) /\ x \notin pending
  <2>1. \E pending \in SUBSET Messages :
           /\ Answers(m, pending)
           /\ \A x \in pending : \E i \in DOMAIN jobs : x \in Q(i)
           /\ \A x \in Messages :
                (\E i \in DOMAIN jobs' : x \in Q(i)')
                   <=> (\E i \in DOMAIN jobs : x \in Q(i)) /\ x \notin pending
    BY <1>1, <1>2, <1>3, PendingIs
  <2>. QED BY <2>1
<1>5. (\A p \in Pools : R(p)' = R(p)) /\ \A w \in Workers : Busy(w)' <=> Busy(w)
  BY <1>1 DEF R, Busy
<1>6. \A x : AtPool(x)' <=> AtPool(x)
  BY <1>1, <1>5 DEF AtPool
<1>7. \A x : Active(x)' => Active(x)
  BY <1>1, <1>6 DEF Active
<1>8. ASSUME NEW x \in Messages, InPlace(x)'
      PROVE  InPlace(x) /\ x # m
  <2>1. \/ \E p \in Pools : x \in R(p)
        \/ \E i \in DOMAIN jobs : x \in Q(i)
        \/ \E w \in Workers : wkPc[w] = "process" /\ wkMsg[w] = x
    BY <1>1, <1>4, <1>5, <1>8 DEF InPlace
  <2>. QED BY <1>1, <1>2, <2>1 DEF InPlace, PlaceInv
<1>. QED BY <1>1, <1>2, <1>3, <1>6, <1>7, <1>8, ProcessKeepsStreams

LEMMA WorkerProcessKeepsStreams ==
  ASSUME TypeInv, BoundInv, PlaceInv, StreamInv, FreshIds, NEW w \in Workers, WorkerProcess(w)
  PROVE  StreamInv'
<1>1. /\ wkPc[w] = "process" /\ Process(wkMsg[w])
      /\ UNCHANGED <<msg, stream, ready, serverPc>>
      /\ wkPc'[w] # "process" /\ (Busy(w)' => wkMsg'[w] = wkMsg[w])
      /\ \A v \in Workers \ {w} : wkPc'[v] = wkPc[v] /\ wkMsg'[v] = wkMsg[v]
  <2>1. /\ wkPc[w] = "process"
        /\ \/ wkPc' = [wkPc EXCEPT ![w] = "idle"] /\ wkMsg' = [wkMsg EXCEPT ![w] = 0]
           \/ wkPc' = [wkPc EXCEPT ![w] = "next"] /\ wkMsg' = wkMsg
    BY DEF WorkerProcess, TypeInv
  <2>2. Process(wkMsg[w]) /\ UNCHANGED <<msg, stream, ready, serverPc>>
    BY DEF WorkerProcess, poolVars
  <2>. QED BY <2>1, <2>2 DEF Busy, TypeInv
<1>2. PICK m : m = wkMsg[w]
  OBVIOUS
<1>3. m \in Messages /\ InPlace(m) /\ Busy(w)
  BY <1>1, <1>2 DEF BoundInv, InPlace, Busy
<1>4. PICK pending \in SUBSET Messages :
           \A x \in Messages :
                (\E i \in DOMAIN jobs' : x \in Q(i)')
                   <=> (\E i \in DOMAIN jobs : x \in Q(i)) /\ x \notin pending
  <2>1. \E pending \in SUBSET Messages :
           /\ Answers(m, pending)
           /\ \A x \in pending : \E i \in DOMAIN jobs : x \in Q(i)
           /\ \A x \in Messages :
                (\E i \in DOMAIN jobs' : x \in Q(i)')
                   <=> (\E i \in DOMAIN jobs : x \in Q(i)) /\ x \notin pending
    BY <1>1, <1>2, <1>3, PendingIs
  <2>. QED BY <2>1
<1>5. \A p \in Pools : R(p)' = R(p)
  BY <1>1 DEF R
<1>6. \A v \in Workers : Busy(v)' => Busy(v) /\ wkMsg'[v] = wkMsg[v]
  BY <1>1, <1>3 DEF Busy
<1>7. \A x : AtPool(x)' => AtPool(x)
  BY <1>5, <1>6 DEF AtPool
<1>8. \A x : Active(x)' => Active(x)
  BY <1>1, <1>7 DEF Active
<1>9. ASSUME NEW x \in Messages, InPlace(x)'
      PROVE  InPlace(x) /\ x # m
  <2>1. \/ \E p \in Pools : x \in R(p)
        \/ \E i \in DOMAIN jobs : x \in Q(i)
        \/ \E v \in Workers \ {w} : wkPc[v] = "process" /\ wkMsg[v] = x
        \/ serverPc = "process" /\ x = Len(msg)
    BY <1>1, <1>4, <1>5, <1>9 DEF InPlace
  <2>2. x # m
    BY <1>2, <1>3, <2>1 DEF PlaceInv, Busy
  <2>. QED BY <2>1, <2>2 DEF InPlace
<1>. QED BY <1>1, <1>2, <1>3, <1>7, <1>8, <1>9, ProcessKeepsStreams

LEMMA WorkerTakeKeepsStreams ==
  ASSUME TypeInv, BoundInv, PostInv, StreamInv,
         NEW w \in Workers, NEW p \in Pools, WorkerTake(w, p)
  PROVE  StreamInv'
<1>1. UNCHANGED <<msg, stream, jobs, serverPc>> /\ wkPc[w] = "idle"
  BY DEF WorkerTake, jobVars
<1>2. \A i \in DOMAIN jobs : Q(i)' = Q(i)
  BY <1>1 DEF Q
<1>3. SUFFICES \A x : (AtPool(x)' => AtPool(x)) /\ (InPlace(x)' => InPlace(x))
  <2>1. \A x : Active(x)' => Active(x)
    BY <1>1, <1>3 DEF Active
  <2>2. PICK up :
          /\ \A i \in DOMAIN jobs' :
               up[i] \in DOMAIN jobs /\ jobs'[i] = jobs[up[i]] /\ Q(i)' = Q(up[i])
          /\ \A i, j \in DOMAIN jobs' : up[i] = up[j] => i = j
    BY <1>1, SameJobs
  <2>3. \A i \in DOMAIN jobs : jobs[i].born \in Messages
    BY DEF BoundInv
  <2>. QED BY <1>1, <1>3, <2>1, <2>2, <2>3, StreamShrinks
<1>4. CASE wkPc' = [wkPc EXCEPT ![w] = "exited"] /\ UNCHANGED <<ready, wkMsg>>
  <2>1. \A v \in Workers : (wkPc'[v] = "process" => wkPc[v] = "process") /\ (Busy(v)' => Busy(v))
    BY <1>1, <1>4 DEF TypeInv, Busy
  <2>2. \A q \in Pools : R(q)' = R(q)
    BY <1>4 DEF R
  <2>. QED BY <1>1, <1>2, <1>4, <2>1, <2>2 DEF AtPool, InPlace
<1>5. CASE wkPc' = [wkPc EXCEPT ![w] = "process"]
  <2>1. PICK m : /\ wkMsg' = [wkMsg EXCEPT ![w] = m]
                 /\ R(p) = R(p)' \cup {m} /\ \A q \in Pools \ {p} : R(q)' = R(q)
    <3>1. w \in Workers /\ wkPc \in [Workers -> {"idle", "process", "next", "exited"}]
      BY DEF TypeInv
    <3>2. wkPc' # [wkPc EXCEPT ![w] = "exited"]
      BY <1>5, <3>1
    <3>3. /\ wkMsg' = [wkMsg EXCEPT ![w] = Head(ready[p])]
          /\ R(p) = R(p)' \cup {Head(ready[p])} /\ \A q \in Pools \ {p} : R(q)' = R(q)
      BY <3>2, WorkerTakeIs
    <3>. QED BY <3>3
  <2>2. /\ wkPc'[w] = "process" /\ wkMsg'[w] = m
        /\ \A v \in Workers \ {w} : wkPc'[v] = wkPc[v] /\ wkMsg'[v] = wkMsg[v]
    BY <1>5, <2>1 DEF TypeInv
  <2>3. m \in R(p) /\ \A q \in Pools : R(q)' \subseteq R(q)
    BY <2>1
  <2>4. \A v \in Workers \ {w} : Busy(v)' <=> Busy(v)
    BY <2>2 DEF Busy
  <2>5. \A x : AtPool(x)' => AtPool(x)
    BY <2>2, <2>3, <2>4 DEF AtPool
  <2>6. \A x : InPlace(x)' => InPlace(x)
    BY <1>1, <1>2, <2>2, <2>3 DEF InPlace
  <2>. QED BY <2>5, <2>6
<1>. QED BY <1>4, <1>5, WorkerTakeIs

LEMMA TakeKeepsStreams ==
  ASSUME TypeInv, BoundInv, EndInv, JobIdsAreUnique, StreamInv,
         NEW k \in config.kinds, ServerTake(k)
  PROVE  StreamInv'
<1>1. PICK m : m = Len(msg) + 1
  OBVIOUS
<1>2. /\ serverPc = "recv" /\ UNCHANGED <<wkPc, wkMsg>>
      /\ \/ TakenInBand(m, k) \/ TakenRejected(m, k)
         \/ TakenDiscrete(m, k) \/ TakenForJob(m, k)
  BY <1>1, TakeIs
<1>3. /\ m \in Nat /\ m \notin Messages /\ Len(msg') = m /\ Messages' = Messages \cup {m}
      /\ msg'[m] = k
      /\ \A x \in Messages : msg'[x] = msg[x] /\ stream'[x] = stream[x] /\ x < m /\ x \in Nat
  BY <1>2 DEF TakenInBand, TakenRejected, TakenDiscrete, TakenForJob, Grown
<1>4. \A x \in Messages : x # 0
  BY DEF Messages
<1>5. /\ \A p \in Pools : m \notin R(p)
      /\ \A i \in DOMAIN jobs : m \notin Q(i) /\ jobs[i].born \in Messages /\ Q(i) \subseteq Messages
      /\ \A w \in Workers : Busy(w) => wkMsg[w] # m
  BY <1>3 DEF BoundInv
<1>6. \A w \in Workers : Busy(w)' <=> Busy(w)
  BY <1>2 DEF Busy
<1>7. ~AtPool(m) /\ \A x \in Messages : Active(x) <=> AtPool(x)
  BY <1>2, <1>5 DEF AtPool, Active
<1>8. ASSUME UNCHANGED jobs PROVE \A i \in DOMAIN jobs : Q(i)' = Q(i)
  BY <1>8 DEF Q
<1>9. ASSUME UNCHANGED ready PROVE \A p \in Pools : R(p)' = R(p)
  BY <1>9 DEF R
\* A message of no job.
<1>10. ASSUME UNCHANGED jobs, stream'[m] = 0,
              \A x \in Messages : (AtPool(x)' <=> AtPool(x)) /\ (InPlace(x)' <=> InPlace(x))
                                  /\ (Active(x)' <=> Active(x)),
              AtPool(m)' => k.job = Discrete,
              serverPc' = "process" => stream'[Len(msg')] = 0
       PROVE  StreamInv'
  <2>1. \A i, j \in DOMAIN jobs : jobs[i].born = jobs[j].born => i = j
    BY DEF StreamInv
  <2>2. \A i \in DOMAIN jobs : \A x \in Messages' : jobs[i].born = x => ~InPlace(x)'
    BY <1>3, <1>5, <1>10 DEF StreamInv
  <2>3. \A x \in Messages' : /\ stream'[x] # 0 => stream'[x] \in Messages'
                             /\ \A y \in Messages' : stream'[x] = y => ~InPlace(y)'
    <3>1. ASSUME NEW x \in Messages, stream[x] # 0
          PROVE  stream[x] \in Messages /\ \A y \in Messages : stream[x] = y => ~InPlace(y)'
      BY <1>10, <3>1 DEF StreamInv
    <3>2. m # 0
      BY <1>1 DEF TypeInv
    <3>. QED BY <1>3, <1>4, <1>10, <3>1, <3>2
  <2>4. \A x, y \in Messages' :
          Active(x)' /\ Active(y)' /\ stream'[x] = stream'[y] /\ stream'[x] # 0 => x = y
    BY <1>3, <1>10 DEF StreamInv
  <2>5. \A i \in DOMAIN jobs : \A x \in Messages' :
         /\ Active(x)' /\ stream'[x] = jobs[i].born => ~jobs[i].empty /\ \A y \in Q(i)' : x < y
         /\ x \in Q(i)' => stream'[x] = jobs[i].born /\ msg'[x].job = jobs[i].id
         /\ Active(x)' /\ stream'[x] # 0 /\ msg'[x].job = jobs[i].id => stream'[x] = jobs[i].born
    <3>1. SUFFICES ASSUME NEW i \in DOMAIN jobs, NEW x \in Messages'
                   PROVE
         /\ Active(x)' /\ stream'[x] = jobs[i].born => ~jobs[i].empty /\ \A y \in Q(i)' : x < y
         /\ x \in Q(i)' => stream'[x] = jobs[i].born /\ msg'[x].job = jobs[i].id
         /\ Active(x)' /\ stream'[x] # 0 /\ msg'[x].job = jobs[i].id => stream'[x] = jobs[i].born
      OBVIOUS
    <3>2. Q(i)' = Q(i) /\ jobs[i].born # 0 /\ m \notin Q(i)
      BY <1>4, <1>5, <1>8, <1>10
    <3>3. CASE x = m
      BY <1>10, <3>2, <3>3
    <3>4. CASE x \in Messages
      BY <1>3, <1>10, <3>2, <3>4 DEF StreamInv
    <3>. QED BY <1>3, <3>3, <3>4
  <2>6. \A x \in Messages' : AtPool(x)' => (stream'[x] = 0 <=> msg'[x].job = Discrete)
    BY <1>3, <1>10 DEF StreamInv
  <2>. QED BY <1>10, <2>1, <2>2, <2>3, <2>4, <2>5, <2>6 DEF StreamInv
<1>11. CASE TakenInBand(m, k)
  <2>1. UNCHANGED <<jobs, ready>> /\ serverPc' = "process" /\ stream'[m] = 0
    BY <1>11 DEF TakenInBand, Grown
  <2>2. \A x : AtPool(x)' <=> AtPool(x)
    BY <1>2, <1>6, <1>9, <2>1 DEF AtPool
  <2>3. \A x \in Messages : (InPlace(x)' <=> InPlace(x)) /\ (Active(x)' <=> Active(x))
    BY <1>2, <1>3, <1>8, <1>9, <2>1, <2>2 DEF InPlace, Active
  <2>. QED BY <1>3, <1>7, <1>10, <2>1, <2>2, <2>3
<1>12. CASE TakenRejected(m, k)
  <2>1. UNCHANGED <<jobs, ready>> /\ serverPc' # "process" /\ stream'[m] = 0
    BY <1>12 DEF TakenRejected, Grown
  <2>2. \A x : AtPool(x)' <=> AtPool(x)
    BY <1>2, <1>6, <1>9, <2>1 DEF AtPool
  <2>3. \A x \in Messages : (InPlace(x)' <=> InPlace(x)) /\ (Active(x)' <=> Active(x))
    BY <1>2, <1>3, <1>8, <1>9, <2>1, <2>2 DEF InPlace, Active
  <2>. QED BY <1>7, <1>10, <2>1, <2>2, <2>3
<1>13. ASSUME NEW p \in Pools, PutReady(p, m), serverPc' # "process", DOMAIN jobs' = DOMAIN jobs,
              \A i \in DOMAIN jobs : Q(i)' = Q(i)
       PROVE  /\ AtPool(m)' /\ Active(m)'
              /\ \A x \in Messages : (AtPool(x)' <=> AtPool(x)) /\ (InPlace(x)' <=> InPlace(x))
                                     /\ (Active(x)' <=> Active(x))
  <2>1. R(p)' = R(p) \cup {m} /\ \A q \in Pools \ {p} : R(q)' = R(q)
    BY <1>3, <1>13, PutIs
  <2>2. AtPool(m)' /\ \A x \in Messages : AtPool(x)' <=> AtPool(x)
    BY <1>2, <1>3, <1>6, <2>1 DEF AtPool
  <2>3. \A x \in Messages : InPlace(x)' <=> InPlace(x)
    BY <1>2, <1>3, <1>13, <2>1 DEF InPlace
  <2>. QED BY <1>2, <1>13, <2>2, <2>3 DEF Active
<1>14. CASE TakenDiscrete(m, k)
  <2>1. /\ k.pool \in Pools /\ PutReady(k.pool, m) /\ serverPc' # "process" /\ UNCHANGED jobs
        /\ stream'[m] = 0 /\ k.job = Discrete
    BY <1>14 DEF TakenDiscrete, Grown
  <2>2. \A x \in Messages : (AtPool(x)' <=> AtPool(x)) /\ (InPlace(x)' <=> InPlace(x))
                                     /\ (Active(x)' <=> Active(x))
    BY <1>8, <1>13, <2>1
  <2>. QED BY <1>10, <2>1, <2>2
<1>15. CASE TakenForJob(m, k)
  <2>1. PICK i \in DOMAIN jobs :
          /\ jobs[i].id = k.job /\ stream'[m] = jobs[i].born
          /\ \/ jobs[i].empty /\ jobs' = [jobs EXCEPT ![i].empty = FALSE] /\ PutReady(k.pool, m)
             \/ ~jobs[i].empty /\ jobs' = [jobs EXCEPT ![i].msgQue = Append(@, m)] /\ UNCHANGED ready
    BY <1>15 DEF TakenForJob, Grown
  <2>2. serverPc' # "process" /\ k.pool \in Pools /\ k.job # Discrete
    BY <1>15 DEF TakenForJob
  <2>3. JobsSame(i)
    BY <1>3, <2>1, MarkIs, EnqueueIs
  <2>4. /\ DOMAIN jobs' = DOMAIN jobs
        /\ \A j \in DOMAIN jobs : jobs'[j].id = jobs[j].id /\ jobs'[j].born = jobs[j].born
        /\ \A j \in DOMAIN jobs \ {i} : jobs'[j] = jobs[j] /\ Q(j)' = Q(j)
    BY <2>3 DEF JobsSame
  <2>5. \A j \in DOMAIN jobs \ {i} : jobs[j].born # jobs[i].born /\ jobs[j].id # jobs[i].id
    BY DEF StreamInv, JobIdsAreUnique
  <2>6. \A x \in Messages : x = jobs[i].born => ~InPlace(x)
    BY DEF StreamInv
  \* Into the ready queue, when nothing of the job is at work.
  <2>7. CASE jobs[i].empty /\ jobs' = [jobs EXCEPT ![i].empty = FALSE] /\ PutReady(k.pool, m)
    <3>1. ~jobs'[i].empty /\ Q(i)' = Q(i) /\ Q(i) = {}
      BY <2>7, MarkIs DEF EndInv
    <3>2. \A j \in DOMAIN jobs : Q(j)' = Q(j)
      BY <2>4, <3>1
    <3>3. /\ AtPool(m)' /\ Active(m)'
          /\ \A x \in Messages : (AtPool(x)' <=> AtPool(x)) /\ (InPlace(x)' <=> InPlace(x))
                                 /\ (Active(x)' <=> Active(x))
      BY <1>13, <2>2, <2>4, <2>7, <3>2
    <3>4. \A x \in Messages : Active(x) => stream[x] # jobs[i].born
      BY <2>7 DEF StreamInv
    <3>5. \A j, h \in DOMAIN jobs : jobs'[j].born = jobs'[h].born => j = h
      BY <2>4 DEF StreamInv
    <3>6. \A j \in DOMAIN jobs : \A x \in Messages' : jobs'[j].born = x => ~InPlace(x)'
      BY <1>3, <1>5, <2>4, <3>3 DEF StreamInv
    <3>7. \A x \in Messages' : /\ stream'[x] # 0 => stream'[x] \in Messages'
                               /\ \A y \in Messages' : stream'[x] = y => ~InPlace(y)'
      <4>1. ASSUME NEW x \in Messages, stream[x] # 0
            PROVE  stream[x] \in Messages /\ \A y \in Messages : stream[x] = y => ~InPlace(y)'
        BY <3>3, <4>1 DEF StreamInv
      <4>2. jobs[i].born \in Messages /\ \A y \in Messages : jobs[i].born = y => ~InPlace(y)'
        BY <1>5, <2>6, <3>3
      <4>. QED BY <1>3, <1>4, <2>1, <4>1, <4>2
    <3>8. \A x, y \in Messages' :
            Active(x)' /\ Active(y)' /\ stream'[x] = stream'[y] /\ stream'[x] # 0 => x = y
      BY <1>3, <2>1, <3>3, <3>4 DEF StreamInv
    <3>9. ASSUME NEW j \in DOMAIN jobs, NEW x \in Messages'
          PROVE
         /\ Active(x)' /\ stream'[x] = jobs'[j].born => ~jobs'[j].empty /\ \A y \in Q(j)' : x < y
         /\ x \in Q(j)' => stream'[x] = jobs'[j].born /\ msg'[x].job = jobs'[j].id
         /\ Active(x)' /\ stream'[x] # 0 /\ msg'[x].job = jobs'[j].id => stream'[x] = jobs'[j].born
      <4>1. jobs'[j].id = jobs[j].id /\ jobs'[j].born = jobs[j].born /\ Q(j)' = Q(j) /\ m \notin Q(j)
        BY <1>5, <2>4, <3>2
      <4>2. CASE x = m
        BY <1>3, <2>1, <2>5, <3>1, <4>1, <4>2
      <4>3. CASE x \in Messages /\ j = i
        BY <1>3, <3>1, <3>3, <3>4, <4>1, <4>3 DEF StreamInv
      <4>4. CASE x \in Messages /\ j # i
        BY <1>3, <2>4, <3>3, <4>1, <4>4 DEF StreamInv
      <4>. QED BY <1>3, <4>2, <4>3, <4>4
    <3>10. \A x \in Messages' : AtPool(x)' => (stream'[x] = 0 <=> msg'[x].job = Discrete)
      <4>1. jobs[i].born # 0
        BY <1>4, <1>5
      <4>. QED BY <1>3, <2>1, <2>2, <3>3, <4>1 DEF StreamInv
    <3>. QED BY <2>2, <2>4, <3>5, <3>6, <3>7, <3>8, <3>9, <3>10 DEF StreamInv
  \* Into the queue of the job.
  <2>8. CASE ~jobs[i].empty /\ jobs' = [jobs EXCEPT ![i].msgQue = Append(@, m)] /\ UNCHANGED ready
    <3>1. jobs'[i].empty = jobs[i].empty /\ Q(i)' = Q(i) \cup {m}
      BY <1>3, <2>8, EnqueueIs
    <3>2. \A x : AtPool(x)' <=> AtPool(x)
      BY <1>2, <1>6, <1>9, <2>8 DEF AtPool
    <3>3. ~Active(m)' /\ \A x \in Messages : Active(x)' <=> Active(x)
      BY <1>2, <1>7, <2>2, <3>2 DEF Active
    <3>4. \A x \in Messages : InPlace(x)' <=> InPlace(x)
      BY <1>2, <1>3, <1>9, <2>2, <2>4, <2>8, <3>1 DEF InPlace
    <3>5. \A j, h \in DOMAIN jobs : jobs'[j].born = jobs'[h].born => j = h
      BY <2>4 DEF StreamInv
    <3>6. \A j \in DOMAIN jobs : \A x \in Messages' : jobs'[j].born = x => ~InPlace(x)'
      BY <1>3, <1>5, <2>4, <3>4 DEF StreamInv
    <3>7. \A x \in Messages' : /\ stream'[x] # 0 => stream'[x] \in Messages'
                               /\ \A y \in Messages' : stream'[x] = y => ~InPlace(y)'
      <4>1. ASSUME NEW x \in Messages, stream[x] # 0
            PROVE  stream[x] \in Messages /\ \A y \in Messages : stream[x] = y => ~InPlace(y)'
        BY <3>4, <4>1 DEF StreamInv
      <4>2. jobs[i].born \in Messages /\ \A y \in Messages : jobs[i].born = y => ~InPlace(y)'
        BY <1>5, <2>6, <3>4
      <4>. QED BY <1>3, <1>4, <2>1, <4>1, <4>2
    <3>8. \A x, y \in Messages' :
            Active(x)' /\ Active(y)' /\ stream'[x] = stream'[y] /\ stream'[x] # 0 => x = y
      BY <1>3, <3>3 DEF StreamInv
    <3>9. ASSUME NEW j \in DOMAIN jobs, NEW x \in Messages'
          PROVE
         /\ Active(x)' /\ stream'[x] = jobs'[j].born => ~jobs'[j].empty /\ \A y \in Q(j)' : x < y
         /\ x \in Q(j)' => stream'[x] = jobs'[j].born /\ msg'[x].job = jobs'[j].id
         /\ Active(x)' /\ stream'[x] # 0 /\ msg'[x].job = jobs'[j].id => stream'[x] = jobs'[j].born
      <4>1. /\ jobs'[j].id = jobs[j].id /\ jobs'[j].born = jobs[j].born
            /\ jobs'[j].empty = jobs[j].empty
            /\ IF j = i THEN Q(j)' = Q(j) \cup {m} ELSE Q(j)' = Q(j)
            /\ m \notin Q(j)
        BY <1>5, <2>4, <3>1
      <4>2. CASE x = m
        BY <1>3, <2>1, <3>3, <4>1, <4>2
      <4>3. CASE x \in Messages
        <5>1. /\ Active(x) /\ stream[x] = jobs[j].born => ~jobs[j].empty /\ \A y \in Q(j) : x < y
              /\ x \in Q(j) => stream[x] = jobs[j].born /\ msg[x].job = jobs[j].id
              /\ Active(x) /\ stream[x] # 0 /\ msg[x].job = jobs[j].id => stream[x] = jobs[j].born
          BY <4>3 DEF StreamInv
        <5>. QED BY <1>3, <3>3, <4>1, <4>3, <5>1
      <4>. QED BY <1>3, <4>2, <4>3
    <3>10. \A x \in Messages' : AtPool(x)' => (stream'[x] = 0 <=> msg'[x].job = Discrete)
      BY <1>3, <1>7, <3>2 DEF StreamInv
    <3>. QED BY <2>2, <2>4, <3>5, <3>6, <3>7, <3>8, <3>9, <3>10 DEF StreamInv
  <2>. QED BY <2>1, <2>7, <2>8
<1>. QED BY <1>2, <1>11, <1>12, <1>14, <1>15

LEMMA WorkerNextKeepsStreams ==
  ASSUME TypeInv, BoundInv, PlaceInv, JobIdsAreUnique, StreamInv,
         NEW w \in Workers, WorkerNext(w)
  PROVE  StreamInv'
<1>1. /\ UNCHANGED <<msg, stream, serverPc>> /\ wkPc[w] = "next" /\ wkPc'[w] = "idle"
      /\ \A v \in Workers \ {w} : wkPc'[v] = wkPc[v] /\ wkMsg'[v] = wkMsg[v]
      /\ Messages' = Messages
  BY DEF WorkerNext, TypeInv, Messages
<1>2. \A v \in Workers \ {w} : Busy(v)' <=> Busy(v)
  BY <1>1 DEF Busy
<1>3. Busy(w) /\ ~Busy(w)'
  BY <1>1 DEF Busy
<1>4. PICK z : z = wkMsg[w]
  OBVIOUS
<1>5. z \in Messages /\ AtPool(z) /\ Active(z)
  BY <1>3, <1>4 DEF BoundInv, AtPool, Active
<1>6. /\ \A p \in Pools : z \notin R(p)
      /\ \A i \in DOMAIN jobs : z \notin Q(i)
      /\ \A v \in Workers : Busy(v) /\ v # w => wkMsg[v] # z
      /\ serverPc = "process" => z # Len(msg)
  BY <1>3, <1>4 DEF PlaceInv
<1>7. ASSUME UNCHANGED ready PROVE \A p \in Pools : R(p)' = R(p)
  BY <1>7 DEF R
<1>8. ASSUME UNCHANGED ready, \A i \in DOMAIN jobs : Q(i)' = Q(i), DOMAIN jobs' = DOMAIN jobs
      PROVE  \A x : /\ AtPool(x)' => AtPool(x) /\ x # z
                    /\ Active(x)' => Active(x) /\ x # z
                    /\ InPlace(x)' => InPlace(x)
  <2>1. \A x : AtPool(x)' => AtPool(x) /\ x # z
    BY <1>2, <1>1, <1>3, <1>6, <1>7, <1>8 DEF AtPool
  <2>2. \A x : InPlace(x)' => InPlace(x)
    BY <1>1, <1>7, <1>8 DEF InPlace
  <2>. QED BY <1>1, <1>6, <2>1, <2>2 DEF Active
<1>9. CASE UNCHANGED <<jobs, ready, sem>>
  <2>1. PICK up :
          /\ \A i \in DOMAIN jobs' :
               up[i] \in DOMAIN jobs /\ jobs'[i] = jobs[up[i]] /\ Q(i)' = Q(up[i])
          /\ \A i, j \in DOMAIN jobs' : up[i] = up[j] => i = j
    BY <1>9, SameJobs
  <2>2. \A i \in DOMAIN jobs : jobs[i].born \in Messages /\ Q(i)' = Q(i)
    BY <1>9 DEF BoundInv, Q
  <2>. QED BY <1>1, <1>8, <1>9, <2>1, <2>2, StreamShrinks
<1>10. ASSUME NEW i \in DOMAIN jobs, jobs[i].id = msg[z].job
       PROVE  /\ stream[z] = jobs[i].born /\ ~jobs[i].empty /\ jobs[i].born # 0
              /\ jobs[i].id # Discrete
              /\ \A x \in Messages : Active(x) /\ stream[x] = jobs[i].born => x = z
  <2>1. jobs[i].id # Discrete /\ jobs[i].born # 0
    <3>1. jobs[i].id \in JobIds /\ jobs[i].born \in Messages
      BY JobFields DEF BoundInv
    <3>. QED BY <3>1, RcmServerAssumption DEF RcmServerAssumption, JobIds, Discrete, Messages
  <2>2. stream[z] # 0
    BY <1>5, <1>10, <2>1 DEF StreamInv
  <2>3. stream[z] = jobs[i].born
    BY <1>5, <1>10, <2>2 DEF StreamInv
  <2>. QED BY <1>5, <2>1, <2>3 DEF StreamInv
<1>11. ASSUME NEW i \in DOMAIN jobs, jobs[i].id = msg[z].job, Empties(i) PROVE StreamInv'
  <2>1. JobsSame(i) /\ Q(i)' = Q(i) /\ Q(i) = {} /\ UNCHANGED ready
    BY <1>11, MarkIs, EmptyRange DEF Empties, Q
  <2>2. /\ DOMAIN jobs' = DOMAIN jobs
        /\ \A j \in DOMAIN jobs : /\ jobs'[j].id = jobs[j].id /\ jobs'[j].born = jobs[j].born
                                  /\ Q(j)' = Q(j)
        /\ \A j \in DOMAIN jobs \ {i} : jobs'[j] = jobs[j]
    BY <2>1 DEF JobsSame
  <2>3. \A x : /\ AtPool(x)' => AtPool(x) /\ x # z
               /\ Active(x)' => Active(x) /\ x # z
               /\ InPlace(x)' => InPlace(x)
    BY <1>8, <2>1, <2>2
  <2>4. \A x \in Messages : Active(x)' => stream[x] # jobs[i].born
    BY <1>10, <1>11, <2>3
  <2>5. \A j, h \in DOMAIN jobs : jobs'[j].born = jobs'[h].born => j = h
    BY <2>2 DEF StreamInv
  <2>6. \A j \in DOMAIN jobs : \A x \in Messages : jobs'[j].born = x => ~InPlace(x)'
    BY <2>2, <2>3 DEF StreamInv
  <2>7. \A x \in Messages : /\ stream[x] # 0 => stream[x] \in Messages
                            /\ \A y \in Messages : stream[x] = y => ~InPlace(y)'
    BY <2>3 DEF StreamInv
  <2>8. \A x, y \in Messages :
          Active(x)' /\ Active(y)' /\ stream[x] = stream[y] /\ stream[x] # 0 => x = y
    BY <2>3 DEF StreamInv
  <2>9. \A j \in DOMAIN jobs : \A x \in Messages :
         /\ Active(x)' /\ stream[x] = jobs'[j].born => ~jobs'[j].empty /\ \A y \in Q(j)' : x < y
         /\ x \in Q(j)' => stream[x] = jobs'[j].born /\ msg[x].job = jobs'[j].id
         /\ Active(x)' /\ stream[x] # 0 /\ msg[x].job = jobs'[j].id => stream[x] = jobs'[j].born
    BY <2>2, <2>3, <2>4 DEF StreamInv
  <2>10. \A x \in Messages : AtPool(x)' => (stream[x] = 0 <=> msg[x].job = Discrete)
    BY <2>3 DEF StreamInv
  <2>11. serverPc' = "process" => stream[Len(msg)] = 0
    BY <1>1 DEF StreamInv
  <2>. QED BY <1>1, <2>2, <2>5, <2>6, <2>7, <2>8, <2>9, <2>10, <2>11 DEF StreamInv
<1>12. ASSUME NEW i \in DOMAIN jobs, jobs[i].id = msg[z].job, NEW m \in Messages, Continues(i, m)
       PROVE  StreamInv'
  <2>1. PICK p \in Pools : PutReady(p, m)
    BY <1>12 DEF Continues
  <2>2. /\ m \in Nat /\ m \in Q(i) /\ m = Head(jobs[i].msgQue) /\ jobs[i].msgQue # <<>>
        /\ jobs[i].msgQue \in Seq(Nat) /\ m # z
    BY <1>6, <1>12, JobFields DEF Continues, Messages
  <2>3. R(p)' = R(p) \cup {m} /\ \A q \in Pools \ {p} : R(q)' = R(q)
    BY <2>1, <2>2, PutIs
  <2>4. /\ JobsSame(i) /\ Q(i) = Q(i)' \cup {m} /\ jobs'[i].empty = jobs[i].empty
        /\ jobs'[i].msgQue = Tail(jobs[i].msgQue)
    BY <1>12, <2>2, DequeueIs DEF Continues
  <2>5. \A y \in Q(i)' : m < y
    <3>1. Ascending(jobs[i].msgQue)
      BY DEF PlaceInv
    <3>2. \A y \in Range(Tail(jobs[i].msgQue)) : m < y
      BY <2>2, <3>1, TailAscending
    <3>. QED BY <2>4, <3>2 DEF Q
  <2>6. /\ DOMAIN jobs' = DOMAIN jobs
        /\ \A j \in DOMAIN jobs : /\ jobs'[j].id = jobs[j].id /\ jobs'[j].born = jobs[j].born
                                  /\ jobs'[j].empty = jobs[j].empty /\ Q(j)' \subseteq Q(j)
    BY <2>4 DEF JobsSame
  <2>7. \A x : AtPool(x)' => x = m \/ (AtPool(x) /\ x # z)
    BY <1>1, <1>2, <1>3, <1>6, <2>3 DEF AtPool
  <2>8. \A x : Active(x)' => x = m \/ (Active(x) /\ x # z)
    BY <1>1, <1>6, <2>7 DEF Active
  <2>9. \A x : InPlace(x)' => InPlace(x)
    BY <1>1, <2>2, <2>3, <2>6 DEF InPlace
  <2>10. stream[m] = jobs[i].born /\ msg[m].job = jobs[i].id
    BY <2>2 DEF StreamInv
  <2>11. /\ \A x \in Messages : Active(x)' /\ stream[x] = jobs[i].born => x = m
         /\ ~jobs[i].empty /\ jobs[i].born # 0 /\ jobs[i].id # Discrete
    BY <1>10, <1>12, <2>8
  <2>12. \A j, h \in DOMAIN jobs : jobs'[j].born = jobs'[h].born => j = h
    BY <2>6 DEF StreamInv
  <2>13. \A j \in DOMAIN jobs : \A x \in Messages : jobs'[j].born = x => ~InPlace(x)'
    BY <2>6, <2>9 DEF StreamInv
  <2>14. \A x \in Messages : /\ stream[x] # 0 => stream[x] \in Messages
                             /\ \A y \in Messages : stream[x] = y => ~InPlace(y)'
    BY <2>9 DEF StreamInv
  <2>15. \A x, y \in Messages :
          Active(x)' /\ Active(y)' /\ stream[x] = stream[y] /\ stream[x] # 0 => x = y
    BY <2>8, <2>10, <2>11 DEF StreamInv
  <2>16. ASSUME NEW j \in DOMAIN jobs, NEW x \in Messages
         PROVE
         /\ Active(x)' /\ stream[x] = jobs'[j].born => ~jobs'[j].empty /\ \A y \in Q(j)' : x < y
         /\ x \in Q(j)' => stream[x] = jobs'[j].born /\ msg[x].job = jobs'[j].id
         /\ Active(x)' /\ stream[x] # 0 /\ msg[x].job = jobs'[j].id => stream[x] = jobs'[j].born
    <3>1. x \in Q(j)' => stream[x] = jobs'[j].born /\ msg[x].job = jobs'[j].id
      BY <2>6 DEF StreamInv
    <3>2. CASE x = m
      <4>1. jobs[j].born = jobs[i].born => j = i
        BY DEF StreamInv
      <4>2. jobs[j].id = jobs[i].id => j = i
        BY DEF JobIdsAreUnique
      <4>. QED BY <2>5, <2>6, <2>10, <2>11, <3>1, <3>2, <4>1, <4>2
    <3>3. CASE x # m
      BY <2>6, <2>8, <3>1, <3>3 DEF StreamInv
    <3>. QED BY <3>2, <3>3
  <2>17. \A x \in Messages : AtPool(x)' => (stream[x] = 0 <=> msg[x].job = Discrete)
    BY <2>7, <2>10, <2>11 DEF StreamInv
  <2>18. serverPc' = "process" => stream[Len(msg)] = 0
    BY <1>1 DEF StreamInv
  <2>. QED BY <1>1, <2>6, <2>12, <2>13, <2>14, <2>15, <2>16, <2>17, <2>18 DEF StreamInv
<1>. QED BY <1>4, <1>9, <1>11, <1>12, WorkerNextIs

LEMMA OtherStepsKeepStreams ==
  ASSUME TypeInv, BoundInv, StreamInv,
         \/ Start \/ ServerExit \/ Delete \/ JoinServer \/ UNCHANGED serverVars
         \/ \E p \in Pools : JoinPool(p)
  PROVE  StreamInv'
<1>. USE DEF jobVars, poolVars, wkVars, endVars
<1>1. UNCHANGED <<msg, stream, wkPc, wkMsg>> /\ (serverPc' = "process" => serverPc = "process")
  BY DEF Start, ServerExit, Delete, JoinServer, JoinPool, serverVars
<1>2. jobs' = jobs \/ jobs' = <<>>
  BY DEF Start, ServerExit, Delete, JoinServer, JoinPool, serverVars
<1>3. \A p \in Pools : R(p)' \subseteq R(p)
  <2>1. \A p \in Pools : ready'[p] \in {ready[p], <<>>}
    BY DEF Start, ServerExit, Delete, JoinServer, JoinPool, serverVars, TypeInv
  <2>. QED BY <2>1, EmptyRange DEF R
<1>4. \A i \in DOMAIN jobs' : i \in DOMAIN jobs /\ jobs'[i] = jobs[i] /\ Q(i)' = Q(i)
  BY <1>2 DEF Q
<1>5. \A x : AtPool(x)' => AtPool(x)
  BY <1>1, <1>3 DEF AtPool, Busy
<1>6. \A x : (Active(x)' => Active(x)) /\ (InPlace(x)' => InPlace(x))
  BY <1>1, <1>3, <1>4, <1>5 DEF Active, InPlace
<1>7. PICK up : up = [i \in DOMAIN jobs |-> i]
  OBVIOUS
<1>8. /\ \A i \in DOMAIN jobs' :
           up[i] \in DOMAIN jobs /\ jobs'[i] = jobs[up[i]] /\ Q(i)' = Q(up[i])
      /\ \A i, j \in DOMAIN jobs' : up[i] = up[j] => i = j
  BY <1>4, <1>7
<1>9. \A i \in DOMAIN jobs : jobs[i].born \in Messages
  BY DEF BoundInv
<1>. QED BY <1>1, <1>5, <1>6, <1>8, <1>9, StreamShrinks

-----------------------------------------------------------------------------
\* The theorems.

(* Queues, workers, jobs and answers are right whatever the ids do. *)
LEMMA InitIsRight == ServerInit => ServerInv
<1>. SUFFICES ASSUME ServerInit PROVE ServerInv
  OBVIOUS
<1>. USE DEF ServerInit
<1>1. /\ Messages = {} /\ DOMAIN jobs = {} /\ \A p \in Pools : R(p) = {}
      /\ \A w \in Workers : ~Busy(w) /\ wkPc[w] = "idle"
  BY EmptyRange DEF Messages, R, Busy
<1>2. TypeInv
  <2>1. config.max \in Nat
    BY RcmServerAssumption DEF RcmServerAssumption
  <2>2. jobId \in JobIds
    BY RcmServerAssumption DEF RcmServerAssumption, JobIds
  <2>3. <<>> \in Seq(config.kinds) /\ <<>> \in Seq(Seq(Statuses)) /\ <<>> \in Seq(Job)
        /\ <<>> \in Seq(Nat) /\ Len(<<>>) = 0
    BY EmptySeq
  <2>4. <<>> \in Seq(0 .. config.max)
    BY EmptySeq
  <2>5. ready \in [Pools -> Seq(Nat)] /\ sem \in [Pools -> Nat] /\ terminate \in [Pools -> BOOLEAN]
    BY <2>3
  <2>6. /\ wkPc \in [Workers -> {"idle", "process", "next", "exited"}]
        /\ wkMsg \in [Workers -> Nat]
    OBVIOUS
  <2>7. msg \in Seq(config.kinds) /\ Len(msg) <= config.max /\ stream \in Seq(0 .. config.max)
    BY <2>1, <2>3, <2>4
  <2>. QED BY <2>2, <2>3, <2>5, <2>6, <2>7 DEF TypeInv
<1>3. BoundInv
  BY <1>1 DEF BoundInv
<1>4. PostInv
  <2>1. \A p \in Pools : ~terminate[p] /\ sem[p] = Len(ready[p])
    <3>1. Len(<<>>) = 0
      OBVIOUS
    <3>. QED BY <3>1
  <2>. QED BY <2>1 DEF PostInv, PostPerMessage, Pools
<1>5. PlaceInv
  BY <1>1, EmptyRange DEF PlaceInv, Pools
<1>6. AnswerInv /\ EndInv /\ JobIdsAreUnique
  BY <1>1 DEF AnswerInv, EndInv, JobIdsAreUnique
<1>. QED BY <1>2, <1>3, <1>4, <1>5, <1>6 DEF ServerInv

LEMMA StepIsRight == ServerInv /\ [ServerNext]_serverVars => ServerInv'
<1>. SUFFICES ASSUME ServerInv, [ServerNext]_serverVars PROVE ServerInv'
  OBVIOUS
<1>1. TypeInv /\ BoundInv /\ PostInv /\ PlaceInv /\ AnswerInv /\ EndInv /\ JobIdsAreUnique
  BY DEF ServerInv
<1>2. JobIdsAreUnique'
  BY <1>1, StepKeepsIds
<1>3. SUFFICES TypeInv' /\ BoundInv' /\ PostInv' /\ PlaceInv' /\ AnswerInv' /\ EndInv'
  BY <1>2 DEF ServerInv
<1>4. ASSUME NEW k \in config.kinds, ServerTake(k)
      PROVE  TypeInv' /\ BoundInv' /\ PostInv' /\ PlaceInv' /\ AnswerInv' /\ EndInv'
  BY <1>1, <1>4, TakeKeepsTypes, TakeKeepsPosts, TakeKeepsPlaces, TakeKeepsAnswers, TakeKeepsEnd
<1>5. CASE ServerProcess
  BY <1>1, <1>5, ServerProcessKeepsTypes, OtherStepsKeepPosts, OtherStepsKeepPlaces,
     ServerProcessKeepsAnswers, OtherStepsKeepEnd
<1>6. ASSUME NEW w \in Workers, NEW p \in Pools, WorkerTake(w, p)
      PROVE  TypeInv' /\ BoundInv' /\ PostInv' /\ PlaceInv' /\ AnswerInv' /\ EndInv'
  <2>1. WorkerStep(w)
    BY <1>6 DEF WorkerStep
  <2>. QED BY <1>1, <1>6, <2>1, WorkerTakeKeepsTypes, WorkerTakeKeepsPosts, WorkerTakeKeepsPlaces,
              WorkerTakeKeepsAnswers, WorkerKeepsEnd
<1>7. ASSUME NEW w \in Workers, WorkerProcess(w)
      PROVE  TypeInv' /\ BoundInv' /\ PostInv' /\ PlaceInv' /\ AnswerInv' /\ EndInv'
  <2>1. WorkerStep(w)
    BY <1>7 DEF WorkerStep
  <2>. QED BY <1>1, <1>7, <2>1, WorkerProcessKeepsTypes, OtherStepsKeepPosts, OtherStepsKeepPlaces,
              WorkerProcessKeepsAnswers, WorkerKeepsEnd
<1>8. ASSUME NEW w \in Workers, WorkerNext(w)
      PROVE  TypeInv' /\ BoundInv' /\ PostInv' /\ PlaceInv' /\ AnswerInv' /\ EndInv'
  <2>1. WorkerStep(w)
    BY <1>8 DEF WorkerStep
  <2>. QED BY <1>1, <1>8, <2>1, WorkerNextKeepsTypes, WorkerNextKeepsPosts, WorkerNextKeepsPlaces,
              WorkerNextKeepsAnswers, WorkerKeepsEnd
<1>9. CASE Start \/ ServerExit \/ Delete \/ UNCHANGED serverVars
  BY <1>1, <1>9, OtherStepsKeepTypes, OtherStepsKeepPosts, OtherStepsKeepPlaces,
     OtherStepsKeepAnswers, OtherStepsKeepEnd
<1>10. CASE JoinServer
  BY <1>1, <1>10, OtherStepsKeepTypes, JoinServerKeepsPosts, OtherStepsKeepPlaces,
     OtherStepsKeepAnswers, OtherStepsKeepEnd
<1>11. ASSUME NEW p \in Pools, JoinPool(p)
       PROVE  TypeInv' /\ BoundInv' /\ PostInv' /\ PlaceInv' /\ AnswerInv' /\ EndInv'
  BY <1>1, <1>11, OtherStepsKeepTypes, JoinPoolKeepsPosts, OtherStepsKeepPlaces,
     JoinPoolKeepsAnswers, OtherStepsKeepEnd
<1>. QED
  BY <1>4, <1>5, <1>6, <1>7, <1>8, <1>9, <1>10, <1>11 DEF ServerNext, WorkerStep, DeleteStep

LEMMA ServerInvariant == ServerSpec => []ServerInv
BY InitIsRight, StepIsRight, PTL DEF ServerSpec

LEMMA TypesAreOK == ServerInv => ServerTypeOK
<1>. SUFFICES ASSUME ServerInv PROVE ServerTypeOK
  OBVIOUS
<1>1. TypeInv /\ BoundInv
  BY DEF ServerInv
<1>2. DOMAIN msg = Messages
  BY <1>1 DEF TypeInv, Messages
<1>3. \A i \in DOMAIN jobs :
       /\ jobs[i].id \in JobIds /\ jobs[i].born \in DOMAIN msg
       /\ jobs[i].empty \in BOOLEAN /\ jobs[i].msgQue \in Seq(DOMAIN msg)
  <2>1. SUFFICES ASSUME NEW i \in DOMAIN jobs
                 PROVE  /\ jobs[i].id \in JobIds /\ jobs[i].born \in Messages
                        /\ jobs[i].empty \in BOOLEAN /\ jobs[i].msgQue \in Seq(Messages)
    BY <1>2
  <2>2. jobs[i].id \in JobIds /\ jobs[i].empty \in BOOLEAN /\ jobs[i].msgQue \in Seq(Nat)
    BY <1>1, JobFields
  <2>3. jobs[i].born \in Messages /\ \A x \in Range(jobs[i].msgQue) : x \in Messages
    BY <1>1 DEF BoundInv, Q
  <2>. QED BY <2>2, <2>3, SeqOfElements
<1>4. ready \in [Pools -> Seq(DOMAIN msg)]
  <2>1. ASSUME NEW p \in Pools PROVE ready[p] \in Seq(Messages)
    <3>1. ready[p] \in Seq(Nat) /\ \A x \in Range(ready[p]) : x \in Messages
      BY <1>1 DEF TypeInv, BoundInv, R
    <3>. QED BY <3>1, SeqOfElements
  <2>2. ready \in [Pools -> Seq(Nat)]
    BY <1>1 DEF TypeInv
  <2>. QED BY <1>2, <2>1, <2>2
<1>5. wkMsg \in [Workers -> {0} \cup DOMAIN msg]
  BY <1>1, <1>2 DEF TypeInv, BoundInv
<1>. QED BY <1>1, <1>3, <1>4, <1>5 DEF ServerTypeOK, TypeInv

LEMMA QueuedIs ==
  ASSUME NEW m
  PROVE  m \in Queued <=> (\E p \in Pools : m \in R(p)) \/ (\E i \in DOMAIN jobs : m \in Q(i))
<1>1. m \in UNION {Range(ready[p]) : p \in Pools} <=> \E p \in Pools : m \in R(p)
  BY DEF R
<1>2. m \in UNION {Range(jobs[i].msgQue) : i \in DOMAIN jobs} <=> \E i \in DOMAIN jobs : m \in Q(i)
  BY DEF Q
<1>. DEFINE a == UNION {Range(ready[p]) : p \in Pools}
            b == UNION {Range(jobs[i].msgQue) : i \in DOMAIN jobs}
<1>3. Queued = a \cup b
  BY DEF Queued
<1>. HIDE DEF a, b
<1>4. m \in Queued <=> m \in a \/ m \in b
  BY <1>3
<1>. QED BY <1>1, <1>2, <1>4 DEF a, b

(* Through any interleaving of the server thread, the workers, dispatch,     *)
(* release of jobs and the end of the server, the list of jobs and the       *)
(* queues of the pools are kept: RcmServer_acqJobId_P gives no id twice, and *)
(* the branch "ready queue is empty" of RcmServer_workerThrFxn_P is never    *)
(* reached.                                                                  *)
THEOREM JobsTheorem == ServerSpec => []JobsAreKept
<1>1. ServerInv => JobsAreKept
  BY TypesAreOK DEF ServerInv, PostInv, JobsAreKept
<1>. QED BY <1>1, ServerInvariant, PTL

(* No message is answered twice, and none that expects an answer leaves the  *)
(* queues without one, not by the release of its job nor by the deletion of  *)
(* the server: a message is in one place until it is answered.               *)
THEOREM AnswerTheorem == ServerSpec => []AnsweredOnce
<1>1. ServerInv => AnsweredOnce
  <2>. SUFFICES ASSUME ServerInv, NEW m \in DOMAIN msg
                PROVE  Len(answers[m]) <= 1 /\ (Done(m) /\ Expected(m) => answers[m] # <<>>)
    BY DEF AnsweredOnce
  <2>1. TypeInv /\ BoundInv /\ AnswerInv
    BY DEF ServerInv
  <2>2. m \in Messages
    BY <2>1 DEF TypeInv, Messages
  <2>3. InPlace(m) => m \in Queued \cup InProcess
    BY QueuedIs DEF InPlace, InProcess
  <2>. QED BY <2>1, <2>2, <2>3 DEF AnswerInv, Done
<1>. QED BY <1>1, ServerInvariant, PTL

LEMMA StepKeepsStreams ==
  ServerInv /\ StreamInv /\ [ServerNext]_serverVars /\ [FreshIds]_serverVars => StreamInv'
<1>. SUFFICES ASSUME ServerInv, StreamInv, [ServerNext]_serverVars, [FreshIds]_serverVars
              PROVE  StreamInv'
  OBVIOUS
<1>1. TypeInv /\ BoundInv /\ PostInv /\ PlaceInv /\ AnswerInv /\ EndInv /\ JobIdsAreUnique
  BY DEF ServerInv
<1>2. FreshIds \/ UNCHANGED serverVars
  OBVIOUS
<1>3. CASE UNCHANGED serverVars
  BY <1>1, <1>3, OtherStepsKeepStreams
<1>4. CASE FreshIds /\ ServerNext
  <2>1. ASSUME NEW k \in config.kinds, ServerTake(k) PROVE StreamInv'
    BY <1>1, <2>1, TakeKeepsStreams
  <2>2. CASE ServerProcess
    BY <1>1, <1>4, <2>2, ServerProcessKeepsStreams
  <2>3. ASSUME NEW w \in Workers, NEW p \in Pools, WorkerTake(w, p) PROVE StreamInv'
    BY <1>1, <2>3, WorkerTakeKeepsStreams
  <2>4. ASSUME NEW w \in Workers, WorkerProcess(w) PROVE StreamInv'
    BY <1>1, <1>4, <2>4, WorkerProcessKeepsStreams
  <2>5. ASSUME NEW w \in Workers, WorkerNext(w) PROVE StreamInv'
    BY <1>1, <2>5, WorkerNextKeepsStreams
  <2>6. CASE Start \/ ServerExit \/ Delete \/ DeleteStep
    BY <1>1, <2>6, OtherStepsKeepStreams DEF DeleteStep
  <2>. QED BY <1>4, <2>1, <2>2, <2>3, <2>4, <2>5, <2>6 DEF ServerNext, WorkerStep
<1>. QED BY <1>2, <1>3, <1>4

LEMMA StreamsInOrder == ServerInv /\ StreamInv => InSequence
<1>. SUFFICES ASSUME ServerInv, StreamInv, NEW m \in DOMAIN msg, NEW k \in DOMAIN msg,
                     k < m, stream[k] = stream[m], stream[m] # 0, m \in InProcess
              PROVE  Done(k)
  BY DEF InSequence
<1>1. TypeInv /\ BoundInv
  BY DEF ServerInv
<1>2. m \in Messages /\ k \in Messages /\ \A x \in Messages : x \in Nat /\ x # 0
  BY <1>1 DEF TypeInv, Messages
<1>3. \A x \in Messages : x \in InProcess => Active(x)
  BY <1>1, <1>2 DEF InProcess, Active, AtPool, BoundInv
<1>4. ~Active(k)
  BY <1>2, <1>3 DEF StreamInv
<1>5. ASSUME NEW i \in DOMAIN jobs, k \in Q(i) PROVE FALSE
  <2>1. stream[m] = jobs[i].born
    BY <1>2, <1>5 DEF StreamInv
  <2>2. m < k
    BY <1>2, <1>3, <1>5, <2>1 DEF StreamInv
  <2>. QED BY <1>2, <2>2
<1>6. k \notin Queued
  BY <1>4, <1>5, QueuedIs DEF Active, AtPool
<1>. QED BY <1>2, <1>3, <1>4, <1>6 DEF Done

(* The messages of a job are processed in the order they came in, whatever   *)
(* pools they are for ("The server will process all messages for a given job *)
(* id in sequence", RcmClient.h:560), on the one condition that ids do not   *)
(* come round to one that a message at work still carries.                   *)
THEOREM SequenceTheorem == ServerSpec /\ IdsAreFresh => []InSequence
<1>1. ServerInit => StreamInv
  BY EmptyRange DEF ServerInit, StreamInv, Messages
<1>2. ServerInv /\ StreamInv => InSequence
  BY StreamsInOrder
<1>. HIDE DEF FreshIds
<1>. QED BY <1>1, <1>2, StepKeepsStreams, ServerInvariant, PTL DEF ServerSpec, IdsAreFresh

-----------------------------------------------------------------------------
(***************************************************************************)
(* The symbols, for any tables, any names and any number of keys.          *)
(***************************************************************************)

Indexes == [slot : AllSlots, key : 1 .. MaxKey]
Addresses == Names \cup {NoName, Garbage}
Tasks == [pc : {"idle", "addName", "addKey", "removeName", "removeKey"},
          name : Names \cup {NoName}, slot : AllSlots \cup {0}]

SymbolTypes ==
  /\ SymbolTypeOK
  /\ app.pc = "idle" => app = Idle
  /\ app \in Tasks
  /\ app.pc # "idle" => app.slot \in AllSlots /\ app.name \in Names
  /\ given \in Seq([name : Names, index : Indexes])
  /\ look \in [pc : {"idle", "symKey", "has", "check", "calls"}, want : Names \cup {NoName},
               owner : Names \cup {NoName},
               index : [slot : AllSlots \cup {0}, key : 0 .. MaxKey], addr : Addresses]
  /\ look.pc # "idle" => look.index.slot \in AllSlots

\* A slot at rest has a name and a key, or neither; and the one that is being
\* added or removed, one thing after another.
AtRest(e) ==
  \/ e.name = NoName /\ e.key = 0
  \/ e.name # NoName /\ e.key # 0 /\ e.addr = e.name

SlotsInv ==
  /\ \A s \in AllSlots : s # app.slot => AtRest(slot[s])
  /\ app.pc # "idle" =>
       LET e == slot[app.slot] IN
       CASE app.pc = "addName" -> e.addr = app.name /\ e.name = NoName /\ e.key = 0
         [] app.pc = "addKey" -> e.addr = app.name /\ e.name = app.name /\ e.key = 0
         [] app.pc = "removeName" -> e.addr = NoName
         [] app.pc = "removeKey" -> e.addr = NoName /\ e.name = NoName
         [] OTHER -> FALSE

\* The keys of the indices that are remembered are the last ones given out, in
\* the order of getNextKey_P: no two are the same, and none is the next.
KeysInv ==
  \A i \in DOMAIN given :
    given[i].index.key = LET k == key + Len(given) - i
                         IN  IF k <= MaxKey THEN k ELSE k - MaxKey

\* What an index that fits its slot leads to, at any time ...
FitInv ==
  \A i \in DOMAIN given :
    LET g == given[i] IN
    slot[g.index.slot].key = g.index.key => slot[g.index.slot].addr \in {g.name, NoName}

\* ... and what the server thread has read leads to while it still fits: the index
\* of a client, or one that a lookup has put together itself.
LookInv ==
  /\ look.pc \in {"has", "check"} /\ look.index.key # 0
       /\ slot[look.index.slot].key = look.index.key =>
       /\ slot[look.index.slot].addr \in {look.owner, NoName}
       /\ look.pc = "check" => look.addr \in {look.owner, NoName}
  /\ IndexCallsItsOwner

SymbolInv == SymbolTypes /\ SlotsInv /\ KeysInv /\ FitInv /\ LookInv

LEMMA SlotsAreSlots == \A t \in 0 .. Len(TableEnds) : SlotsOf(t) \subseteq AllSlots
<1>1. /\ TableEnds \in Seq(Nat \ {0}) /\ Len(TableEnds) \in Nat
      /\ DOMAIN TableEnds = 1 .. Len(TableEnds)
      /\ \A t, u \in DOMAIN TableEnds : t < u => TableEnds[t] < TableEnds[u]
  BY RcmSymbolsAssumption DEF RcmSymbolsAssumption
<1> DEFINE last == Len(TableEnds)
<1>2. ASSUME NEW t \in 1 .. last
      PROVE  1 .. TableEnds[t] \subseteq 1 .. TableEnds[last]
  <2>1. t \in Nat /\ last \in Nat /\ t <= last /\ last \in 1 .. last
    BY <1>1
  <2>2. TableEnds[t] \in Nat /\ TableEnds[last] \in Nat
    BY <1>1, <2>1
  <2>3. t < last => TableEnds[t] < TableEnds[last]
    BY <1>1, <2>1
  <2>4. TableEnds[t] <= TableEnds[last]
    <3>1. CASE t = last
      BY <2>2, <3>1
    <3>2. CASE t < last
      BY <2>2, <2>3, <3>2
    <3>. QED BY <2>1, <3>1, <3>2
  <2> HIDE DEF last
  <2>. QED BY <2>2, <2>4
<1>3. ASSUME NEW t \in 0 .. last, t # 0 PROVE SlotsOf(t) \subseteq AllSlots
  <2>1. t \in 1 .. last /\ last # 0
    BY <1>1, <1>3
  <2>2. SlotsOf(t) = 1 .. TableEnds[t] /\ AllSlots = 1 .. TableEnds[last]
    BY <1>3, <2>1 DEF SlotsOf, AllSlots
  <2>. QED BY <1>2, <2>1, <2>2
<1>. QED BY <1>3 DEF SlotsOf

\* A new index is remembered, and the oldest may be forgotten for it.
LEMMA RememberIs ==
  ASSUME given \in Seq([name : Names, index : Indexes]), Len(given) <= MaxKey,
         NEW n \in Names, NEW index \in Indexes, Remember(n, index)
  PROVE  \E d \in {0, 1} :
           /\ look.index # index
           /\ given' \in Seq([name : Names, index : Indexes])
           /\ Len(given') = Len(given) + 1 - d /\ Len(given') <= MaxKey
           /\ d = 1 => Len(given) = MaxKey
           /\ \A i \in 1 .. Len(given') - 1 : given'[i] = given[i + d] /\ i + d \in 1 .. Len(given)
           /\ given'[Len(given')] = [name |-> n, index |-> index]
<1> DEFINE S == [name : Names, index : Indexes]
           e == [name |-> n, index |-> index]
           g == Append(given, e)
<1>1. MaxKey \in Nat \ {0} /\ e \in S /\ Len(given) \in Nat
  BY RcmSymbolsAssumption DEF RcmSymbolsAssumption
<1>2. /\ look.index # index
      /\ given' = IF Len(g) > MaxKey THEN Tail(g) ELSE g
  BY DEF Remember
<1> HIDE DEF S, e
<1>3. /\ g \in Seq(S) /\ Len(g) = Len(given) + 1 /\ g[Len(given) + 1] = e
      /\ \A i \in 1 .. Len(given) : g[i] = given[i]
  BY <1>1 DEF S
<1> HIDE DEF g
<1>4. CASE Len(g) > MaxKey
  <2>1. /\ Tail(g) \in Seq(S) /\ Len(Tail(g)) = Len(given) /\ Head(g) = g[1]
        /\ \A i \in 1 .. Len(given) : Tail(g)[i] = g[i + 1]
    BY <1>1, <1>3
  <2>2. Len(given) = MaxKey /\ g[1] = given[1]
    BY <1>1, <1>3, <1>4
  <2>3. given' = Tail(g)
    BY <1>2, <1>4
  <2>. QED BY <1>1, <1>2, <1>3, <2>1, <2>2, <2>3 DEF S, e
<1>5. CASE ~(Len(g) > MaxKey)
  BY <1>1, <1>2, <1>3, <1>5 DEF S, e
<1>. QED BY <1>4, <1>5

LEMMA SymbolStarts == SymbolInit => SymbolInv
<1> SUFFICES ASSUME SymbolInit PROVE SymbolInv
  OBVIOUS
<1> USE RcmSymbolsAssumption DEF RcmSymbolsAssumption, SymbolInit, Idle, Rest, Empty
<1>1. SymbolTypeOK /\ app \in Tasks
  BY DEF SymbolTypeOK, Tasks
<1>2. given \in Seq([name : Names, index : Indexes]) /\ DOMAIN given = {}
  OBVIOUS
<1>3. SymbolTypes
  BY <1>1, <1>2 DEF SymbolTypes, Addresses
<1>. QED BY <1>2, <1>3 DEF SymbolInv, SlotsInv, AtRest, KeysInv, FitInv, LookInv, IndexCallsItsOwner

LEMMA SymbolFacts ==
  ASSUME SymbolInv
  PROVE  /\ slot \in [AllSlots -> [addr : Names \cup {NoName}, name : Names \cup {NoName},
                                  key : 0 .. MaxKey]]
         /\ key \in 0 .. MaxKey /\ Len(given) \in Nat /\ Len(given) <= MaxKey
         /\ given \in Seq([name : Names, index : Indexes]) /\ DOMAIN given = 1 .. Len(given)
         /\ \A i \in DOMAIN given :
              /\ given[i].name \in Names /\ given[i].index \in Indexes
              /\ given[i].index.slot \in AllSlots /\ given[i].index.key \in 1 .. MaxKey
<1> DEFINE S == [name : Names, index : Indexes]
<1>1. given \in Seq(S) /\ Len(given) <= MaxKey
  BY DEF SymbolInv, SymbolTypes, SymbolTypeOK
<1>2. \A e \in S : e.name \in Names /\ e.index \in Indexes /\ e.index.slot \in AllSlots
                  /\ e.index.key \in 1 .. MaxKey
  BY DEF Indexes
<1>3. /\ Len(given) \in Nat /\ DOMAIN given = 1 .. Len(given)
      /\ \A i \in DOMAIN given : given[i] \in S
  <2> HIDE DEF S
  <2>. QED BY <1>1
<1>. QED BY <1>1, <1>2, <1>3 DEF SymbolInv, SymbolTypes, SymbolTypeOK

\* A step of the task that gives no slot a key, nor a slot with a key a function.
LEMMA GateKeeps ==
  ASSUME SymbolInv, SymbolTypes', SlotsInv', UNCHANGED <<key, look, given>>,
         \A u \in AllSlots : slot'[u].key # 0 =>
           slot'[u].key = slot[u].key /\ slot'[u].addr \in {slot[u].addr, NoName}
  PROVE  SymbolInv'
<1>1. \A u \in AllSlots : \A k \in 1 .. MaxKey :
        slot'[u].key = k => slot[u].key = k /\ slot'[u].addr \in {slot[u].addr, NoName}
  OBVIOUS
<1>2. KeysInv'
  BY DEF SymbolInv, KeysInv
<1>3. FitInv'
  <2>1. ASSUME NEW i \in DOMAIN given
        PROVE  slot'[given[i].index.slot].key = given[i].index.key
                 => slot'[given[i].index.slot].addr \in {given[i].name, NoName}
    <3>1. given[i].index.slot \in AllSlots /\ given[i].index.key \in 1 .. MaxKey
      BY SymbolFacts
    <3>2. slot[given[i].index.slot].key = given[i].index.key
            => slot[given[i].index.slot].addr \in {given[i].name, NoName}
      BY DEF SymbolInv, FitInv
    <3>. QED BY <1>1, <3>1, <3>2
  <2>. QED BY <2>1 DEF FitInv
<1>4. LookInv'
  <2>1. LookInv /\ look' = look
    BY DEF SymbolInv
  <2>2. ASSUME look.pc \in {"has", "check"}, look.index.key # 0,
               slot'[look.index.slot].key = look.index.key
        PROVE  /\ slot[look.index.slot].key = look.index.key
               /\ slot'[look.index.slot].addr \in {slot[look.index.slot].addr, NoName}
    <3>1. look.index.slot \in AllSlots
      BY <2>2 DEF SymbolInv, SymbolTypes
    <3>. QED BY <2>2, <3>1
  <2>. QED BY <2>1, <2>2 DEF LookInv, IndexCallsItsOwner
<1>. QED BY <1>2, <1>3, <1>4 DEF SymbolInv

\* An empty slot, for a new name.
LEMMA AddAddrKeeps ==
  ASSUME SymbolInv, NEW n \in Names, AddAddr(n)
  PROVE  SymbolInv'
<1>1. PICK t \in {tables, tables + 1} :
        /\ t \in 0 .. Len(TableEnds) /\ Vacant(t) # {}
        /\ tables' = t
        /\ slot' = [slot EXCEPT ![Min(Vacant(t))].addr = n]
        /\ app' = [pc |-> "addName", name |-> n, slot |-> Min(Vacant(t))]
  BY DEF AddAddr
<1> DEFINE s == Min(Vacant(t))
<1>2. s \in AllSlots /\ slot[s].addr = NoName
  <2>1. SlotsOf(t) \subseteq AllSlots
    BY <1>1, SlotsAreSlots
  <2>2. SlotsOf(t) \subseteq Nat
    BY DEF SlotsOf
  <2>3. Vacant(t) \subseteq Nat
    BY <2>2 DEF Vacant
  <2>4. s \in Vacant(t)
    BY <1>1, <2>3, NatMin
  <2>. QED BY <2>1, <2>4 DEF Vacant
<1> HIDE DEF s
<1>3. app.pc = "idle" /\ app.slot = 0 /\ UNCHANGED <<key, look, given>>
  BY DEF AddAddr, SymbolInv, SymbolTypes, Idle
<1>4. slot[s].name = NoName /\ slot[s].key = 0
  <2>1. s # app.slot
    BY <1>2, <1>3 DEF AllSlots, SlotsOf
  <2>. QED BY <1>2, <2>1 DEF SymbolInv, SlotsInv, AtRest
<1>5. /\ slot' \in [AllSlots -> [addr : Names \cup {NoName}, name : Names \cup {NoName},
                                 key : 0 .. MaxKey]]
      /\ slot'[s].addr = n /\ slot'[s].name = NoName /\ slot'[s].key = 0
      /\ \A u \in AllSlots \ {s} : slot'[u] = slot[u]
      /\ app' = [pc |-> "addName", name |-> n, slot |-> s]
  BY <1>1, <1>2, <1>4 DEF SymbolInv, SymbolTypes, SymbolTypeOK, s
<1>5a. app' \in Tasks
  BY <1>2, <1>5 DEF Tasks
<1>6. SymbolTypes'
  BY <1>1, <1>2, <1>3, <1>5, <1>5a DEF SymbolInv, SymbolTypes, SymbolTypeOK, Idle
<1>7. SlotsInv'
  <2>1. ASSUME NEW u \in AllSlots, u # s PROVE AtRest(slot[u])
    BY <1>3, <2>1 DEF SymbolInv, SlotsInv, AllSlots, SlotsOf
  <2>. QED BY <1>2, <1>5, <2>1 DEF SlotsInv, AtRest
<1>8. \A u \in AllSlots : slot'[u].key # 0 =>
        slot'[u].key = slot[u].key /\ slot'[u].addr \in {slot[u].addr, NoName}
  BY <1>5
<1>. QED BY <1>3, <1>6, <1>7, <1>8, GateKeeps

\* The rest of adding a name: it has no key yet, or is left without a name.
LEMMA AddNameKeeps ==
  ASSUME SymbolInv, AddName \/ AddNoMemory
  PROVE  SymbolInv'
<1> DEFINE s == app.slot
<1>1. /\ app.pc = "addName" /\ s \in AllSlots /\ app.name \in Names
      /\ UNCHANGED <<tables, key, look, given>>
  BY DEF AddName, AddNoMemory, SymbolInv, SymbolTypes
<1>2. slot[s].addr = app.name /\ slot[s].name = NoName /\ slot[s].key = 0
  BY <1>1 DEF SymbolInv, SlotsInv
<1>3. /\ slot' \in [AllSlots -> [addr : Names \cup {NoName}, name : Names \cup {NoName},
                                 key : 0 .. MaxKey]]
      /\ slot'[s].addr = app.name /\ slot'[s].key = 0
      /\ \A u \in AllSlots \ {s} : slot'[u] = slot[u]
      /\ \/ AddName /\ slot'[s].name = app.name
         \/ AddNoMemory /\ slot'[s].name = NoName
  <2>1. CASE AddName
    BY <1>1, <1>2, <2>1, SymbolFacts DEF AddName
  <2>2. CASE AddNoMemory
    BY <1>1, <1>2, <2>2, SymbolFacts DEF AddNoMemory
  <2>. QED BY <2>1, <2>2
<1>4. \/ AddName /\ app'.pc = "addKey" /\ app'.name = app.name /\ app'.slot = s
      \/ AddNoMemory /\ app' = Idle
  <2>1. app \in Tasks
    BY DEF SymbolInv, SymbolTypes
  <2>2. AddName => app' = [app EXCEPT !.pc = "addKey"]
    BY DEF AddName
  <2>. QED BY <1>1, <2>1, <2>2 DEF AddName, AddNoMemory, Tasks
<1>4a. app' \in Tasks
  <2>1. app \in Tasks
    BY DEF SymbolInv, SymbolTypes
  <2>2. AddName => app' = [app EXCEPT !.pc = "addKey"]
    BY DEF AddName
  <2>. QED BY <1>4, <2>1, <2>2 DEF Tasks, Idle
<1>5. SymbolTypes'
  BY <1>1, <1>3, <1>4, <1>4a DEF SymbolInv, SymbolTypes, SymbolTypeOK, Idle
<1>6. SlotsInv'
  <2>1. ASSUME NEW u \in AllSlots, u # s PROVE AtRest(slot[u])
    BY <2>1 DEF SymbolInv, SlotsInv
  <2>. QED BY <1>1, <1>3, <1>4, <2>1 DEF SlotsInv, AtRest, AddName, AddNoMemory, Idle
<1>. QED BY <1>1, <1>3, <1>5, <1>6, GateKeeps

\* A symbol is removed: its function first.
LEMMA RemoveAddrKeeps ==
  ASSUME SymbolInv, NEW n \in Names, RemoveAddr(n)
  PROVE  SymbolInv'
<1>1. PICK s \in AllSlots :
        /\ slot[s].name = n
        /\ slot' = [slot EXCEPT ![s].addr = NoName]
        /\ app' = [pc |-> "removeName", name |-> n, slot |-> s]
  BY DEF RemoveAddr
<1>2. app.pc = "idle" /\ app.slot = 0 /\ UNCHANGED <<tables, key, look, given>>
  BY DEF RemoveAddr, SymbolInv, SymbolTypes, Idle
<1>3. /\ slot' \in [AllSlots -> [addr : Names \cup {NoName}, name : Names \cup {NoName},
                                 key : 0 .. MaxKey]]
      /\ slot'[s].addr = NoName /\ slot'[s].name = n /\ slot'[s].key = slot[s].key
      /\ \A u \in AllSlots \ {s} : slot'[u] = slot[u]
  BY <1>1, SymbolFacts
<1>4a. app' \in Tasks
  BY <1>1 DEF Tasks
<1>4. SymbolTypes'
  BY <1>1, <1>2, <1>3, <1>4a DEF SymbolInv, SymbolTypes, SymbolTypeOK, Idle
<1>5. SlotsInv'
  <2>1. ASSUME NEW u \in AllSlots, u # s PROVE AtRest(slot[u])
    BY <1>2, <2>1 DEF SymbolInv, SlotsInv, AllSlots, SlotsOf
  <2>. QED BY <1>1, <1>3, <2>1 DEF SlotsInv, AtRest
<1>6. \A u \in AllSlots : slot'[u].key # 0 =>
        slot'[u].key = slot[u].key /\ slot'[u].addr \in {slot[u].addr, NoName}
  BY <1>3
<1>. QED BY <1>2, <1>4, <1>5, <1>6, GateKeeps

\* Then its name, then its key.
LEMMA RemoveNameKeeps ==
  ASSUME SymbolInv, RemoveName \/ RemoveKey
  PROVE  SymbolInv'
<1> DEFINE s == app.slot
<1>1. /\ app.pc \in {"removeName", "removeKey"} /\ s \in AllSlots /\ app.name \in Names
      /\ UNCHANGED <<tables, key, look, given>>
  BY DEF RemoveName, RemoveKey, SymbolInv, SymbolTypes
<1>2. slot[s].addr = NoName /\ (app.pc = "removeKey" => slot[s].name = NoName)
  BY <1>1 DEF SymbolInv, SlotsInv
<1>3. /\ slot' \in [AllSlots -> [addr : Names \cup {NoName}, name : Names \cup {NoName},
                                 key : 0 .. MaxKey]]
      /\ slot'[s].addr = NoName /\ slot'[s].name = NoName
      /\ slot'[s].key # 0 => slot'[s].key = slot[s].key
      /\ \A u \in AllSlots \ {s} : slot'[u] = slot[u]
      /\ RemoveKey => slot'[s].key = 0
  <2>1. CASE RemoveName
    <3>1. ~RemoveKey
      BY <2>1 DEF RemoveName, RemoveKey
    <3>2. slot' = [slot EXCEPT ![s].name = NoName]
      BY <2>1 DEF RemoveName
    <3>3. slot'[s].key = slot[s].key /\ slot'[s].name = NoName /\ slot'[s].addr = slot[s].addr
      BY <1>1, <3>2, SymbolFacts
    <3>4. \A u \in AllSlots \ {s} : slot'[u] = slot[u]
      BY <1>1, <3>2, SymbolFacts
    <3>5. slot' \in [AllSlots -> [addr : Names \cup {NoName}, name : Names \cup {NoName},
                                key : 0 .. MaxKey]]
      BY <1>1, <3>2, SymbolFacts
    <3>. QED BY <1>2, <3>1, <3>3, <3>4, <3>5
  <2>2. CASE RemoveKey
    <3>1. slot' = [slot EXCEPT ![s].key = 0] /\ app.pc = "removeKey"
      BY <2>2 DEF RemoveKey
    <3>2. 0 \in 0 .. MaxKey /\ slot[s].name = NoName /\ slot[s].addr = NoName
      BY <1>2, <3>1, RcmSymbolsAssumption DEF RcmSymbolsAssumption
    <3>3. slot'[s].key = 0 /\ slot'[s].name = slot[s].name /\ slot'[s].addr = slot[s].addr
      BY <1>1, <3>1, SymbolFacts
    <3>4. \A u \in AllSlots \ {s} : slot'[u] = slot[u]
      BY <1>1, <3>1, SymbolFacts
    <3>5. slot' \in [AllSlots -> [addr : Names \cup {NoName}, name : Names \cup {NoName},
                                key : 0 .. MaxKey]]
      BY <1>1, <3>1, <3>2, SymbolFacts
    <3>. QED BY <3>2, <3>3, <3>4, <3>5
  <2>. QED BY <2>1, <2>2
<1>4. \/ RemoveName /\ app'.pc = "removeKey" /\ app'.name = app.name /\ app'.slot = s
      \/ RemoveKey /\ app' = Idle
  <2>1. app \in Tasks
    BY DEF SymbolInv, SymbolTypes
  <2>2. RemoveName => app' = [app EXCEPT !.pc = "removeKey"]
    BY DEF RemoveName
  <2>. QED BY <1>1, <2>1, <2>2 DEF RemoveName, RemoveKey, Tasks
<1>4a. app' \in Tasks
  <2>1. app \in Tasks
    BY DEF SymbolInv, SymbolTypes
  <2>2. RemoveName => app' = [app EXCEPT !.pc = "removeKey"]
    BY DEF RemoveName
  <2>. QED BY <1>4, <2>1, <2>2 DEF Tasks, Idle
<1>5. SymbolTypes'
  BY <1>1, <1>3, <1>4, <1>4a DEF SymbolInv, SymbolTypes, SymbolTypeOK, Idle
<1>6. SlotsInv'
  <2>1. ASSUME NEW u \in AllSlots, u # s PROVE AtRest(slot[u])
    BY <2>1 DEF SymbolInv, SlotsInv
  <2>. QED BY <1>1, <1>3, <1>4, <2>1 DEF SlotsInv, AtRest, Idle
<1>7. \A u \in AllSlots : slot'[u].key # 0 =>
        slot'[u].key = slot[u].key /\ slot'[u].addr \in {slot[u].addr, NoName}
  BY <1>1, <1>2, <1>3
<1>. QED BY <1>1, <1>5, <1>6, <1>7, GateKeeps

\* The new symbol gets a key that no remembered index has.
LEMMA AddKeyKeeps ==
  ASSUME SymbolInv, AddKey
  PROVE  SymbolInv'
<1> DEFINE s == app.slot
           n == app.name
           index == [slot |-> s, key |-> key']
<1>1. /\ app.pc = "addKey" /\ s \in AllSlots /\ n \in Names
      /\ key' = GetNextKey /\ slot' = [slot EXCEPT ![s].key = key']
      /\ Remember(n, index) /\ app' = Idle /\ UNCHANGED <<tables, look>>
  BY DEF AddKey, SymbolInv, SymbolTypes
<1>2. MaxKey \in Nat \ {0} /\ key \in 0 .. MaxKey /\ key' \in 1 .. MaxKey
  BY <1>1, SymbolFacts, RcmSymbolsAssumption DEF RcmSymbolsAssumption, GetNextKey
<1>3. slot[s].addr = n /\ slot[s].name = n /\ slot[s].key = 0
  BY <1>1 DEF SymbolInv, SlotsInv
<1>4. /\ slot' \in [AllSlots -> [addr : Names \cup {NoName}, name : Names \cup {NoName},
                                 key : 0 .. MaxKey]]
      /\ slot'[s].addr = n /\ slot'[s].name = n /\ slot'[s].key = key'
      /\ \A u \in AllSlots \ {s} : slot'[u] = slot[u]
  BY <1>1, <1>2, <1>3, SymbolFacts
<1>5. index \in Indexes
  BY <1>1, <1>2 DEF Indexes
<1>6. PICK d \in {0, 1} :
        /\ look.index # index
        /\ given' \in Seq([name : Names, index : Indexes])
        /\ Len(given') = Len(given) + 1 - d /\ Len(given') <= MaxKey
        /\ d = 1 => Len(given) = MaxKey
        /\ \A i \in 1 .. Len(given') - 1 : given'[i] = given[i + d] /\ i + d \in 1 .. Len(given)
        /\ given'[Len(given')] = [name |-> n, index |-> index]
  BY <1>1, <1>5, SymbolFacts, RememberIs
<1>7a. Len(given) \in Nat /\ Len(given') \in Nat
  BY <1>6, SymbolFacts
<1>7b. \A i \in 1 .. Len(given') : i # Len(given') => i \in 1 .. Len(given') - 1
  BY <1>7a
<1>7. Len(given) \in Nat /\ Len(given') \in Nat /\ DOMAIN given' = 1 .. Len(given')
  BY <1>6, SymbolFacts
<1>8. SymbolTypes'
  <2>1. app' = Idle /\ app' \in Tasks
    BY <1>1 DEF Idle, Tasks
  <2>2. SymbolTypeOK'
    <3>1. tables \in 0 .. Len(TableEnds) /\ UNCHANGED tables
      BY <1>1 DEF SymbolInv, SymbolTypes, SymbolTypeOK
    <3>2. look.pc \in {"idle", "symKey", "has", "check", "calls"} /\ UNCHANGED look
      BY <1>1 DEF SymbolInv, SymbolTypes, SymbolTypeOK
    <3>3. key' \in 0 .. MaxKey
      BY <1>2
    <3>4. Len(given') <= MaxKey
      BY <1>6
    <3>. QED BY <1>4, <2>1, <3>1, <3>2, <3>3, <3>4 DEF SymbolTypeOK, Idle
  <2>3. UNCHANGED look /\ given' \in Seq([name : Names, index : Indexes])
    BY <1>1, <1>6
  <2>. QED BY <2>1, <2>2, <2>3 DEF SymbolInv, SymbolTypes, Idle
<1>9. SlotsInv'
  <2>1. ASSUME NEW u \in AllSlots, u # s PROVE AtRest(slot[u])
    BY <2>1 DEF SymbolInv, SlotsInv
  <2>2. n # NoName /\ key' # 0
    BY <1>1, <1>2, RcmSymbolsAssumption DEF RcmSymbolsAssumption
  <2>. QED BY <1>1, <1>3, <1>4, <2>1, <2>2 DEF SlotsInv, AtRest, Idle
<1>10. ASSUME NEW i \in 1 .. Len(given')
       PROVE  given'[i].index.key = LET k == key' + Len(given') - i
                                    IN  IF k <= MaxKey THEN k ELSE k - MaxKey
  <2>1. CASE i = Len(given')
    BY <1>2, <1>6, <1>7, <2>1
  <2>2. CASE i # Len(given')
    <3>1. i \in 1 .. Len(given') - 1
      BY <1>7b, <2>2
    <3>2. given'[i] = given[i + d] /\ i + d \in 1 .. Len(given)
      BY <1>6, <3>1
    <3>3. given[i + d].index.key = LET k == key + Len(given) - (i + d)
                                   IN  IF k <= MaxKey THEN k ELSE k - MaxKey
      BY <3>2, SymbolFacts DEF SymbolInv, KeysInv
    <3>4. given[i + d].index.key \in 1 .. MaxKey /\ Len(given) <= MaxKey
          /\ given[Len(given)].index.key \in 1 .. MaxKey
      BY <1>7, <3>2, SymbolFacts, SMTT(60)
    <3>5. key # 0
      <4>1. given[Len(given)].index.key = LET k == key + Len(given) - Len(given)
                                          IN  IF k <= MaxKey THEN k ELSE k - MaxKey
        BY <1>7, <3>2, SymbolFacts DEF SymbolInv, KeysInv
      <4>. QED BY <1>2, <1>7, <3>4, <4>1
    <3>6. key' = IF key <= 1 THEN MaxKey ELSE key - 1
      BY <1>1 DEF GetNextKey
    <3>7. key + Len(given) - (i + d) = key + Len(given') - 1 - i
      BY <1>2, <1>6, <1>7, <3>1
    <3>8. Len(given') - 1 - i \in 0 .. MaxKey - 2
      BY <1>2, <1>6, <1>7, <3>1
    <3>. QED BY <1>2, <1>7, <3>2, <3>3, <3>5, <3>6, <3>7, <3>8, SMTT(60)
  <2>. QED BY <2>1, <2>2
<1>11. ASSUME NEW i \in 1 .. Len(given') - 1
       PROVE  given'[i].index.key # key'
  <2>1. Len(given') - i \in 1 .. MaxKey - 1 /\ i \in 1 .. Len(given')
    BY <1>2, <1>6, <1>7
  <2>. QED BY <1>2, <1>7, <1>10, <2>1, SMTT(60)
<1>12. ASSUME NEW i \in 1 .. Len(given') - 1
       PROVE  /\ given'[i] = given[i + d] /\ i + d \in DOMAIN given
              /\ given'[i].index.slot \in AllSlots
              /\ slot'[given'[i].index.slot].key = given'[i].index.key
                   => slot'[given'[i].index.slot] = slot[given'[i].index.slot]
  <2>1. given'[i] = given[i + d] /\ i + d \in DOMAIN given
    BY <1>6, SymbolFacts
  <2>2. given'[i].index.slot \in AllSlots
    BY <2>1, SymbolFacts
  <2>. QED BY <1>4, <1>11, <2>1, <2>2
<1>13. FitInv'
  <2>1. ASSUME NEW i \in 1 .. Len(given')
        PROVE  slot'[given'[i].index.slot].key = given'[i].index.key
                 => slot'[given'[i].index.slot].addr \in {given'[i].name, NoName}
    <3>1. CASE i = Len(given')
      BY <1>4, <1>6, <3>1
    <3>2. CASE i # Len(given')
      <4>1. i \in 1 .. Len(given') - 1
        BY <1>7b, <3>2
      <4>2. i + d \in DOMAIN given /\ given'[i] = given[i + d]
        BY <1>12, <4>1
      <4>3. slot[given[i + d].index.slot].key = given[i + d].index.key
              => slot[given[i + d].index.slot].addr \in {given[i + d].name, NoName}
        BY <4>2 DEF SymbolInv, FitInv
      <4>. QED BY <1>12, <4>1, <4>2, <4>3
    <3>. QED BY <3>1, <3>2
  <2>. QED BY <1>7, <2>1 DEF FitInv
<1>14. LookInv'
  <2>1. LookInv /\ look' = look
    BY <1>1 DEF SymbolInv
  <2>2. ASSUME look.pc \in {"has", "check"}, slot'[look.index.slot].key = look.index.key
        PROVE  slot'[look.index.slot] = slot[look.index.slot]
    <3>1. look.index.slot \in AllSlots
          /\ look.index \in [slot : AllSlots \cup {0}, key : 0 .. MaxKey]
      BY <2>2 DEF SymbolInv, SymbolTypes
    <3>2. look.index.slot # s
      <4>1. look.index = [slot |-> look.index.slot, key |-> look.index.key]
        BY <3>1
      <4>. QED BY <1>4, <1>6, <2>2, <4>1
    <3>. QED BY <1>4, <3>1, <3>2
  <2>. QED BY <2>1, <2>2 DEF LookInv, IndexCallsItsOwner
<1>15. KeysInv'
  BY <1>7, <1>10 DEF KeysInv
<1>. QED BY <1>8, <1>9, <1>13, <1>14, <1>15 DEF SymbolInv

\* A key in a slot belongs to its owner's function, or to none any more.
LEMMA OwnersHaveKeys ==
  ASSUME SymbolInv, NEW s \in AllSlots
  PROVE  /\ KeyOwner(s) \in Names \cup {NoName}
         /\ slot[s].key # 0 => slot[s].addr \in {KeyOwner(s), NoName}
<1>1. KeyOwner(s) \in Names \cup {NoName}
  <2>1. app \in Tasks
    BY DEF SymbolInv, SymbolTypes
  <2>. QED BY <2>1, SymbolFacts DEF KeyOwner, Tasks
<1>2. CASE s # app.slot
  BY <1>1, <1>2 DEF SymbolInv, SlotsInv, AtRest, KeyOwner
<1>3. CASE s = app.slot
  <2>1. app.pc # "idle" /\ app \in Tasks
    <3>1. s # 0
      BY DEF AllSlots, SlotsOf
    <3>. QED BY <1>3, <3>1 DEF SymbolInv, SymbolTypes, Idle
  <2>2. app.pc \in {"addName", "addKey", "removeName", "removeKey"}
    BY <2>1 DEF Tasks
  <2>. QED BY <1>1, <1>3, <2>1, <2>2 DEF SymbolInv, SlotsInv
<1>. QED BY <1>1, <1>2, <1>3

\* The server thread, without the gate.
LEMMA LookKeeps ==
  ASSUME SymbolInv,
         (\E n \in Names : SymIdxName(n)) \/ SymIdxKey \/ FxnAddr \/ FxnChecked \/ Called
  PROVE  SymbolInv'
<1> DEFINE Looks == [pc : {"idle", "symKey", "has", "check", "calls"}, want : Names \cup {NoName},
                     owner : Names \cup {NoName},
                     index : [slot : AllSlots \cup {0}, key : 0 .. MaxKey], addr : Addresses]
<1>1. UNCHANGED <<tables, slot, key, app, given>>
  BY DEF SymIdxName, SymIdxKey, FxnAddr, FxnChecked, Called
<1>2. look \in Looks /\ (look.pc # "idle" => look.index.slot \in AllSlots) /\ LookInv
  BY DEF SymbolInv, SymbolTypes
<1>3. MaxKey \in Nat /\ 0 \in 0 .. MaxKey
  BY RcmSymbolsAssumption DEF RcmSymbolsAssumption
<1>4. Rest \in Looks /\ Rest.pc = "idle"
  <2>1. NoName \in Addresses /\ NoName \in Names \cup {NoName}
    BY DEF Addresses
  <2>2. [slot |-> 0, key |-> 0] \in [slot : AllSlots \cup {0}, key : 0 .. MaxKey]
    BY <1>3
  <2>. QED BY <2>1, <2>2 DEF Rest
<1>5. /\ look' \in Looks /\ (look'.pc # "idle" => look'.index.slot \in AllSlots)
      /\ LookInv'
  <2>1. ASSUME NEW n \in Names, SymIdxName(n)
        PROVE  /\ look' \in Looks /\ look'.index.slot \in AllSlots /\ look'.pc = "symKey"
    <3>1. PICK s \in AllSlots :
            look' = [Rest EXCEPT !.pc = "symKey", !.want = n, !.index.slot = s]
      BY <2>1 DEF SymIdxName
    <3>2. look' = [pc |-> "symKey", want |-> n, owner |-> NoName,
                   index |-> [slot |-> s, key |-> 0], addr |-> NoName]
      BY <3>1 DEF Rest
    <3>3. [slot |-> s, key |-> 0] \in [slot : AllSlots \cup {0}, key : 0 .. MaxKey]
      BY <1>3
    <3>4. NoName \in Addresses
      BY DEF Addresses
    <3>. QED BY <3>2, <3>3, <3>4
  <2>2. ASSUME SymIdxKey
        PROVE  /\ look' \in Looks /\ look'.index.slot \in AllSlots /\ LookInv'
    <3> DEFINE s == look.index.slot
    <3>1. look.pc = "symKey" /\ s \in AllSlots
          /\ look' = [look EXCEPT !.pc = "has", !.index.key = slot[s].key, !.owner = KeyOwner(s)]
      BY <1>2, <2>2 DEF SymIdxKey
    <3>2. slot[s].key \in 0 .. MaxKey /\ KeyOwner(s) \in Names \cup {NoName}
      BY <3>1, SymbolFacts, OwnersHaveKeys
    <3>3. /\ look' \in Looks /\ look'.pc = "has" /\ look'.owner = KeyOwner(s)
          /\ look'.index.slot = s /\ look'.index.key = slot[s].key
      BY <1>2, <3>1, <3>2
    <3>4. slot[s].key # 0 => slot[s].addr \in {KeyOwner(s), NoName}
      BY <3>1, OwnersHaveKeys
    <3>. QED BY <1>1, <3>1, <3>3, <3>4 DEF LookInv, IndexCallsItsOwner
  <2>3. ASSUME NEW g \in DOMAIN given, look.pc = "idle",
               look' = [Rest EXCEPT !.pc = "check", !.owner = given[g].name,
                         !.index = given[g].index, !.addr = slot[given[g].index.slot].addr]
        PROVE  /\ look' \in Looks /\ look'.index.slot \in AllSlots /\ LookInv'
    <3>1. given[g].name \in Names /\ given[g].index \in Indexes
          /\ given[g].index.slot \in AllSlots /\ given[g].index.key \in 1 .. MaxKey
      BY SymbolFacts
    <3>2. slot[given[g].index.slot].addr \in Names \cup {NoName}
      BY <3>1, SymbolFacts
    <3>3. /\ look'.pc = "check" /\ look'.owner = given[g].name
          /\ look'.index = given[g].index /\ look'.addr = slot[given[g].index.slot].addr
      BY <2>3 DEF Rest
    <3>4. look' \in Looks
      <4>1. given[g].index \in [slot : AllSlots \cup {0}, key : 0 .. MaxKey]
        BY <1>3, <3>1 DEF Indexes
      <4>2. look' = [pc |-> "check", want |-> NoName, owner |-> given[g].name,
                     index |-> given[g].index, addr |-> slot[given[g].index.slot].addr]
        BY <2>3 DEF Rest
      <4>. QED BY <3>1, <3>2, <4>1, <4>2 DEF Addresses
    <3>5. slot[given[g].index.slot].key = given[g].index.key
            => slot[given[g].index.slot].addr \in {given[g].name, NoName}
      BY DEF SymbolInv, FitInv
    <3>. QED BY <1>1, <3>1, <3>3, <3>4, <3>5 DEF LookInv, IndexCallsItsOwner
  <2>4. ASSUME look.pc = "has",
               look' = [look EXCEPT !.pc = "check", !.addr = slot[look.index.slot].addr]
        PROVE  /\ look' \in Looks /\ look'.index.slot \in AllSlots /\ LookInv'
    <3>1. look.index.slot \in AllSlots
      BY <1>2, <2>4
    <3>2. slot[look.index.slot].addr \in Addresses
      BY <3>1, SymbolFacts DEF Addresses
    <3>3. /\ look' \in Looks /\ look'.pc = "check" /\ look'.owner = look.owner
          /\ look'.index = look.index /\ look'.addr = slot[look.index.slot].addr
      BY <1>2, <2>4, <3>2
    <3>. QED BY <1>1, <1>2, <2>4, <3>1, <3>3 DEF LookInv, IndexCallsItsOwner
  <2>5. ASSUME FxnChecked, KeyFits
        PROVE  /\ look' \in Looks /\ look'.index.slot \in AllSlots /\ LookInv'
    <3>1. /\ look.pc = "check" /\ look.index.slot \in AllSlots
          /\ look' = [look EXCEPT !.pc = "calls",
                                  !.addr = IF OffsetZero(look.index.slot) THEN Garbage ELSE @]
      BY <1>2, <2>5 DEF FxnChecked
    <3>2. /\ look'.pc = "calls" /\ look'.owner = look.owner /\ look'.index = look.index
          /\ look'.addr = IF OffsetZero(look.index.slot) THEN Garbage ELSE look.addr
      BY <1>2, <3>1
    <3>3. look' \in Looks
      BY <1>2, <3>1 DEF Addresses
    <3>. QED BY <1>2, <2>5, <3>1, <3>2, <3>3 DEF LookInv, IndexCallsItsOwner, KeyFits
  <2>6. ASSUME look' = Rest
        PROVE  /\ look' \in Looks /\ look'.pc = "idle" /\ LookInv'
    <3>1. look'.pc = "idle"
      BY <1>4, <2>6
    <3>. QED BY <1>4, <2>6, <3>1 DEF LookInv, IndexCallsItsOwner
  <2>7. look'.pc = "symKey" => LookInv'
    BY DEF LookInv, IndexCallsItsOwner
  <2>8. CASE FxnAddr
    BY <2>3, <2>4, <2>8 DEF FxnAddr
  <2>9. CASE FxnChecked \/ Called
    <3>1. Called => look' = Rest
      BY DEF Called
    <3>2. FxnChecked /\ ~KeyFits => look' = Rest
      BY DEF FxnChecked
    <3>. QED BY <2>5, <2>6, <2>9, <3>1, <3>2
  <2>. QED BY <2>1, <2>2, <2>7, <2>8, <2>9
<1>6. SymbolTypes'
  BY <1>1, <1>5 DEF SymbolInv, SymbolTypes, SymbolTypeOK
<1>7. SlotsInv' /\ KeysInv' /\ FitInv'
  BY <1>1 DEF SymbolInv, SlotsInv, KeysInv, FitInv
<1>. QED BY <1>5, <1>6, <1>7 DEF SymbolInv

\* For any tables, any names and any number of keys: whatever addSymbol and
\* removeSymbol do between two reads of the server thread, which takes no gate, the
\* function that is called for an index is that of the symbol its key was given to,
\* or none.  It holds of an index of addSymbol as long as fewer symbols than there
\* are keys have been added since, and of one that a lookup has put together, whose
\* owner need not be whom the client asked for.  No index of addSymbol leads to a
\* slot that a failed add has left behind.
THEOREM SymbolsTheorem == SymbolSpec => []SymbolsAreSafe
<1>1. SymbolInit => SymbolInv
  BY SymbolStarts
<1>2. SymbolInv /\ [SymbolNext]_symbolVars => SymbolInv'
  <2>1. ASSUME SymbolInv, SymbolNext PROVE SymbolInv'
    BY <2>1, AddAddrKeeps, AddNameKeeps, RemoveAddrKeeps, RemoveNameKeeps, AddKeyKeeps, LookKeeps
    DEF SymbolNext
  <2>2. ASSUME SymbolInv, UNCHANGED symbolVars PROVE SymbolInv'
    BY <2>2 DEF symbolVars, SymbolInv, SymbolTypes, SymbolTypeOK, SlotsInv, KeysInv, FitInv, LookInv,
      IndexCallsItsOwner
  <2>. QED BY <2>1, <2>2
<1>3. SymbolInv => SymbolsAreSafe
  <2>1. ASSUME SymbolInv PROVE LeakIsUnreachable
    <3>1. ASSUME NEW s \in AllSlots, slot[s].name = NoName, app.slot # s
          PROVE  slot[s].key = 0
      BY <2>1, <3>1 DEF SymbolInv, SlotsInv, AtRest
    <3>2. \A g \in DOMAIN given : given[g].index.key # 0
      BY <2>1, SymbolFacts
    <3>. QED BY <3>1, <3>2 DEF LeakIsUnreachable
  <2>2. ASSUME SymbolInv PROVE IndexCallsItsOwner
    BY <2>2 DEF SymbolInv, LookInv
  <2>. QED BY <2>1, <2>2 DEF SymbolsAreSafe, SymbolInv, SymbolTypes
<1>. QED BY <1>1, <1>2, <1>3, PTL DEF SymbolSpec

-----------------------------------------------------------------------------

-----------------------------------------------------------------------------
(***************************************************************************)
(* The services, for any channels and endpoints and any number of names    *)
(* and servers.                                                            *)
(***************************************************************************)

Requests ==
  [op : {"conn"}, name : Channels, addr : {0}]
    \cup [op : {"disc"}, name : {NoService}, addr : Endpoints \cup {0}]
    \cup [op : {"other", "query"}, name : {NoService}, addr : {0}]
Serving == {"serve", "store", "delete"}
Living == {"announce", "loop", "serve", "store", "delete", "signal"}

ServiceTypes ==
  /\ serviceDefs \in Seq(Channels) /\ Len(serviceDefs) <= NumDefs
  /\ Tuples \in [1 .. MaxTuples -> [key : Endpoints \cup {0}, value : Nat]]
  /\ servers \subseteq [handle : 1 .. lastHandle, endpt : Endpoints, started : BOOLEAN]
  /\ lastHandle \in Nat
  /\ connPc \in [ConnTasks -> {"none"} \cup Living]
  /\ request \in [ConnTasks -> Requests \cup {NoRequest}]
  /\ newAddr \in [ConnTasks -> Endpoints \cup {0}]
  /\ inbox \in [ConnTasks -> {<<>>} \cup {<<r>> : r \in Requests}]
  /\ known \in [ConnTasks -> SUBSET Endpoints]
  /\ hostNames \subseteq ConnTasks /\ ports \subseteq Channels
  /\ chanPc \in [Channels -> {"none", "deaf", "msgq", "sem", "task", "open", "unblock", "wait", "hung"}]
  /\ exitSem \in [Channels -> 0 .. 1]

\* A server at each endpoint, and a tuple for each that runs and is not being taken down.
ServersInv ==
  /\ \A r, s \in servers : r.endpt = s.endpt => r = s
  /\ \A i \in 1 .. MaxTuples :
       /\ Tuples[i].key = 0 => Tuples[i] = FreeTuple
       /\ Tuples[i].key # 0 =>
            \E s \in servers : s.started /\ s.endpt = Tuples[i].key /\ s.handle = Tuples[i].value
  /\ \A i, j \in 1 .. MaxTuples : Tuples[i].key = Tuples[j].key /\ Tuples[i].key # 0 => i = j

\* What a client knows, or has asked its task to take down: no other client does,
\* and it has a tuple.
Asked(t) ==
  {a \in Endpoints :
     \/ inbox[t] # <<>> /\ Head(inbox[t]).op = "disc" /\ Head(inbox[t]).addr = a
     \/ connPc[t] = "serve" /\ request[t].op = "disc" /\ request[t].addr = a}
Claims(t) == known[t] \cup Asked(t)

ClaimsInv ==
  /\ \A t \in ConnTasks : known[t] \cap Asked(t) = {}
  /\ \A t, u \in ConnTasks : t # u => Claims(t) \cap Claims(u) = {}
  /\ \A t \in ConnTasks : \A a \in Claims(t) : Found(a) # {}

\* What a task is doing.
TaskInv(t) ==
  /\ connPc[t] \notin Serving => request[t] = NoRequest
  /\ request[t] # NoRequest => inbox[t] = <<>>
  /\ connPc[t] = "serve" => request[t] # NoRequest
  /\ connPc[t] = "store" =>
       /\ request[t].op = "conn"
       /\ \E s \in servers : ~s.started /\ s.endpt = newAddr[t]
       /\ \A u \in ConnTasks \ {t} : connPc[u] = "store" => newAddr[u] # newAddr[t]
  /\ connPc[t] = "delete" =>
       /\ request[t].op = "disc" /\ Found(request[t].addr) = {}
       /\ \A u \in ConnTasks \ {t} : connPc[u] = "delete" => request[u].addr # request[t].addr
       /\ \E s \in servers : s.started /\ s.endpt = request[t].addr
TasksInv == \A t \in ConnTasks : TaskInv(t)

\* A channel's task lives while the channel is open, and its name while it listens.
ChannelsInv ==
  \A c \in Channels :
    /\ connPc[c] # "none" => chanPc[c] \in {"open", "unblock", "wait"} /\ exitSem[c] = 0
    /\ chanPc[c] = "task" => exitSem[c] = 0
    /\ chanPc[c] \in {"sem", "task", "open", "unblock", "wait"} => c \in ports
    /\ c \in hostNames => connPc[c] \in {"loop"} \cup Serving

ServiceInv == ServiceTypes /\ ServersInv /\ ClaimsInv /\ TasksInv /\ ChannelsInv

LEMMA RequestFacts ==
  /\ NoRequest \notin Requests /\ NoRequest.op = "none"
  /\ \A r \in Requests :
       /\ r.op \in {"conn", "disc", "other", "query"} /\ r.addr \in Endpoints \cup {0}
       /\ r.op = "conn" => r.name \in Channels
  BY DEF Requests, NoRequest

LEMMA InboxFacts ==
  ASSUME ServiceTypes, NEW t \in ConnTasks, inbox[t] # <<>>
  PROVE  Head(inbox[t]) \in Requests /\ Tail(inbox[t]) = <<>> /\ inbox[t] = <<Head(inbox[t])>>
<1>1. PICK r \in Requests : inbox[t] = <<r>>
  BY DEF ServiceTypes
<1>2. Head(<<r>>) = r /\ Tail(<<r>>) = <<>>
  OBVIOUS
<1>. QED BY <1>1, <1>2

LEMMA ServiceStarts == SrvInit => ServiceInv
<1> SUFFICES ASSUME SrvInit PROVE ServiceInv
  OBVIOUS
<1>1. MaxTuples \in Nat /\ NumDefs \in Nat
  BY ServicesAssumption DEF ServicesAssumption
<1>2. ServiceTypes
  BY <1>1 DEF SrvInit, ServiceTypes, FreeTuple
<1>3. ServersInv
  BY DEF SrvInit, ServersInv, FreeTuple
<1>4. ClaimsInv
  <2>1. \A t \in ConnTasks : Claims(t) = {} /\ known[t] = {}
    BY DEF SrvInit, Claims, Asked
  <2>. QED BY <2>1 DEF ClaimsInv
<1>5. TasksInv
  BY DEF SrvInit, TasksInv, TaskInv, Serving
<1>6. ChannelsInv
  BY DEF SrvInit, ChannelsInv, ConnTasks
<1>. QED BY <1>2, <1>3, <1>4, <1>5, <1>6 DEF ServiceInv

\* A step in which no task serves, before or after, and no mail comes.
LEMMA RestKeeps ==
  ASSUME ServiceInv, ServiceTypes', ChannelsInv',
         UNCHANGED <<Tuples, servers, request, newAddr, known>>,
         \A t \in ConnTasks :
           \/ connPc'[t] = connPc[t]
           \/ connPc[t] \notin Serving /\ connPc'[t] \notin Serving,
         \A t \in ConnTasks : inbox'[t] \in {inbox[t], <<>>}
  PROVE  ServiceInv'
<1>1. ServersInv'
  BY DEF ServiceInv, ServersInv
<1>2. \A t \in ConnTasks : Asked(t)' \subseteq Asked(t)
  BY DEF Asked, Serving
<1>3. \A a : Found(a)' = Found(a)
  BY DEF Found
<1>4. ClaimsInv'
  BY <1>2, <1>3 DEF ServiceInv, ClaimsInv, Claims
<1>5. TasksInv'
  BY <1>3 DEF ServiceInv, TasksInv, TaskInv, Serving
<1>. QED BY <1>1, <1>4, <1>5 DEF ServiceInv

\* A step of a task that listens or serves, as far as the channels go.
LEMMA ServingKeeps ==
  ASSUME ServiceInv, NEW t \in ConnTasks, NEW pc \in {"loop"} \cup Serving,
         connPc[t] \in {"loop"} \cup Serving, ConnGoto(t, pc),
         UNCHANGED <<hostNames, chanPc, ports, exitSem>>
  PROVE  /\ ChannelsInv' /\ connPc' \in [ConnTasks -> {"none"} \cup Living]
         /\ connPc'[t] = pc /\ \A u \in ConnTasks \ {t} : connPc'[u] = connPc[u]
<1>1. connPc' = [connPc EXCEPT ![t] = pc] /\ connPc \in [ConnTasks -> {"none"} \cup Living]
  BY DEF ConnGoto, ServiceInv, ServiceTypes
<1>2. pc \in Living /\ pc # "none"
  BY DEF Living, Serving
<1>3. /\ connPc' \in [ConnTasks -> {"none"} \cup Living]
      /\ connPc'[t] = pc /\ \A u \in ConnTasks \ {t} : connPc'[u] = connPc[u]
  BY <1>1, <1>2
<1>4. Channels \subseteq ConnTasks /\ ChannelsInv
  BY DEF ConnTasks, ServiceInv
<1>5. connPc[t] # "none"
  BY DEF Serving
<1>6. ChannelsInv'
  BY <1>2, <1>3, <1>4, <1>5 DEF ChannelsInv
<1>. QED BY <1>3, <1>6

\* Claims that a step does not add to, on services that it leaves.
LEMMA ClaimsKeep ==
  ASSUME ServiceInv,
         \A t \in ConnTasks : Claims(t)' \subseteq Claims(t) /\ known'[t] \cap Asked(t)' = {},
         \A t \in ConnTasks : \A a \in Claims(t)' : Found(a)' # {}
  PROVE  ClaimsInv'
  BY DEF ServiceInv, ClaimsInv

\* The tasks announce themselves and leave, the channels come and go.
LEMMA TaskRestKeeps ==
  ASSUME ServiceInv, NEW t \in ConnTasks,
         \/ t = "omx" /\ SrvStart
         \/ Announce(t)
         \/ t \in Channels /\ (Leave(t) \/ SignalExit(t))
  PROVE  ServiceInv'
<1> DEFINE pc == IF connPc[t] = "none" THEN "announce"
                 ELSE IF connPc[t] = "announce" THEN "loop"
                 ELSE IF connPc[t] = "loop" THEN "signal" ELSE "none"
<1>1. /\ ConnGoto(t, pc) /\ UNCHANGED <<tableVars, request, newAddr, inbox, known, chanPc, ports>>
      /\ \/ connPc[t] = "none" /\ t = "omx" /\ UNCHANGED <<hostNames, exitSem>>
         \/ connPc[t] = "announce" /\ hostNames' = hostNames \cup {t} /\ UNCHANGED exitSem
         \/ connPc[t] = "loop" /\ t \in Channels /\ hostNames' = hostNames \ {t} /\ UNCHANGED exitSem
         \/ /\ connPc[t] = "signal" /\ t \in Channels /\ UNCHANGED hostNames
            /\ exitSem' = [exitSem EXCEPT ![t] = @ + 1]
  BY DEF SrvStart, Announce, Leave, SignalExit, clientVars, chanVars
<1>2. connPc \in [ConnTasks -> {"none"} \cup Living] /\ exitSem \in [Channels -> 0 .. 1]
      /\ Channels \subseteq ConnTasks /\ "omx" \notin Channels
  BY ServicesAssumption DEF ServiceInv, ServiceTypes, ConnTasks, ServicesAssumption
<1>3. /\ connPc' \in [ConnTasks -> {"none"} \cup Living]
      /\ connPc'[t] = pc /\ \A u \in ConnTasks \ {t} : connPc'[u] = connPc[u]
      /\ pc \in {"none"} \cup Living
  BY <1>1, <1>2 DEF ConnGoto, Living
<1>4. exitSem' \in [Channels -> 0 .. 1] /\ (\A c \in Channels \ {t} : exitSem'[c] = exitSem[c])
      /\ (connPc[t] # "signal" => UNCHANGED exitSem)
  <2>1. connPc[t] = "signal" /\ t \in Channels => exitSem[t] = 0
    BY DEF ServiceInv, ChannelsInv
  <2>. QED BY <1>1, <1>2, <2>1
<1>5. ServiceTypes'
  <2>1. hostNames' \subseteq ConnTasks
    BY <1>1 DEF ServiceInv, ServiceTypes
  <2>. QED BY <1>1, <1>3, <1>4, <2>1 DEF ServiceInv, ServiceTypes, tableVars
<1>6. ChannelsInv'
  <2>1. ASSUME NEW c \in Channels, c # t
        PROVE  connPc'[c] = connPc[c] /\ exitSem'[c] = exitSem[c] /\ chanPc'[c] = chanPc[c]
               /\ (c \in hostNames' => c \in hostNames) /\ ports' = ports
    BY <1>1, <1>2, <1>3, <1>4, <2>1
  <2>2. CASE t \in Channels
    <3>1. /\ connPc'[t] # "none" => chanPc'[t] \in {"open", "unblock", "wait"} /\ exitSem'[t] = 0
          /\ chanPc'[t] = "task" => exitSem'[t] = 0
          /\ chanPc'[t] \in {"sem", "task", "open", "unblock", "wait"} => t \in ports'
          /\ t \in hostNames' => connPc'[t] \in {"loop"} \cup Serving
      BY <1>1, <1>2, <1>3, <1>4, <2>2 DEF ServiceInv, ChannelsInv, Serving
    <3>. QED BY <2>1, <3>1 DEF ServiceInv, ChannelsInv
  <2>3. CASE t \notin Channels
    BY <2>1, <2>3 DEF ServiceInv, ChannelsInv
  <2>. QED BY <2>2, <2>3
<1>7. UNCHANGED <<Tuples, servers, request, newAddr, known, inbox>>
  BY <1>1 DEF tableVars
<1>8. connPc[t] \notin Serving /\ connPc'[t] \notin Serving
  BY <1>1, <1>3 DEF Serving
<1>. QED BY <1>3, <1>5, <1>6, <1>7, <1>8, RestKeeps

LEMMA ChannelKeeps ==
  ASSUME ServiceInv, NEW c \in Channels,
         \/ CreateChannel(c) \/ ChanMsgQ(c) \/ ChanSem(c) \/ ChanTask(c)
         \/ DeleteChannel(c) \/ Deleting(c) \/ DeleteDeaf(c)
  PROVE  ServiceInv'
<1> DEFINE chanPcs == {"none", "deaf", "msgq", "sem", "task", "open", "unblock", "wait", "hung"}
<1>1. /\ connPc \in [ConnTasks -> {"none"} \cup Living] /\ exitSem \in [Channels -> 0 .. 1]
      /\ chanPc \in [Channels -> chanPcs] /\ ports \subseteq Channels
      /\ Channels \subseteq ConnTasks /\ c \in ConnTasks
      /\ inbox \in [ConnTasks -> {<<>>} \cup {<<r>> : r \in Requests}]
  BY DEF ServiceInv, ServiceTypes, ConnTasks
<1>2. UNCHANGED <<Tuples, servers, lastHandle, request, newAddr, known, hostNames>>
  BY DEF CreateChannel, ChanMsgQ, ChanSem, ChanTask, DeleteChannel, Deleting, DeleteUnblock,
         DeleteFree, DeleteDeaf, tableVars, clientVars
<1>4. PICK pc \in chanPcs :
        /\ ChanGoto(c, pc)
        /\ \/ /\ pc \in {"none", "deaf", "msgq", "sem", "hung"} /\ chanPc[c] \notin {"open", "unblock", "wait"}
              /\ UNCHANGED <<connPc, inbox>>
              /\ pc = "sem" => c \in ports'
              /\ ports' \in {ports, ports \cup {c}}
              /\ exitSem' \in {exitSem, [exitSem EXCEPT ![c] = 0]}
           \/ /\ pc = "task" /\ chanPc[c] = "sem" /\ UNCHANGED <<connPc, inbox, ports>>
              /\ exitSem' = [exitSem EXCEPT ![c] = 0]
           \/ /\ pc = "open" /\ chanPc[c] = "task" /\ connPc' = [connPc EXCEPT ![c] = "announce"]
              /\ UNCHANGED <<inbox, ports, exitSem>>
           \/ /\ pc \in {"unblock", "wait"} /\ chanPc[c] \in {"open", "unblock"}
              /\ UNCHANGED <<connPc, inbox, ports, exitSem>>
           \/ /\ pc = "none" /\ chanPc[c] = "wait" /\ exitSem[c] > 0
              /\ exitSem' = [exitSem EXCEPT ![c] = 0] /\ ports' = ports \ {c}
              /\ inbox' = [inbox EXCEPT ![c] = <<>>] /\ connPc' = [connPc EXCEPT ![c] = "none"]
  <2>1. CASE CreateChannel(c)
    BY <2>1 DEF CreateChannel, ChanGoto, clientVars
  <2>2. CASE ChanMsgQ(c)
    BY <2>2 DEF ChanMsgQ, ChanGoto, clientVars
  <2>3. CASE ChanSem(c)
    BY <2>3 DEF ChanSem, ChanGoto, clientVars
  <2>4. CASE ChanTask(c)
    BY <2>4 DEF ChanTask, ChanGoto, ConnGoto, clientVars
  <2>5. CASE DeleteChannel(c) \/ DeleteUnblock(c) \/ DeleteDeaf(c)
    BY <2>5 DEF DeleteChannel, DeleteUnblock, DeleteDeaf, ChanGoto, clientVars
  <2>6. CASE DeleteFree(c)
    BY <2>6 DEF DeleteFree, ChanGoto
  <2>. QED BY <2>1, <2>2, <2>3, <2>4, <2>5, <2>6 DEF Deleting
<1>5. /\ chanPc' \in [Channels -> chanPcs] /\ chanPc'[c] = pc
      /\ \A d \in Channels \ {c} : chanPc'[d] = chanPc[d]
  BY <1>1, <1>4 DEF ChanGoto
<1>6. c \in hostNames => connPc[c] # "none"
  BY DEF ServiceInv, ChannelsInv, Serving
<1>7. /\ connPc[c] # "none" => chanPc[c] \in {"open", "unblock", "wait"} /\ exitSem[c] = 0
      /\ chanPc[c] = "task" => exitSem[c] = 0
      /\ chanPc[c] \in {"sem", "task", "open", "unblock", "wait"} => c \in ports
      /\ c \in hostNames => connPc[c] \in {"loop"} \cup Serving
  BY DEF ServiceInv, ChannelsInv
<1>8. /\ connPc' \in [ConnTasks -> {"none"} \cup Living]
      /\ \A t \in ConnTasks \ {c} : connPc'[t] = connPc[t]
      /\ \/ connPc'[c] = connPc[c]
         \/ connPc[c] = "none" /\ connPc'[c] = "announce" /\ pc = "open" /\ exitSem[c] = 0
            /\ UNCHANGED exitSem
  <2>1. "announce" \in Living
    BY DEF Living
  <2>. QED BY <1>1, <1>4, <1>7, <2>1
<1>9. /\ exitSem' \in [Channels -> 0 .. 1] /\ ports' \subseteq Channels
      /\ \A d \in Channels \ {c} : exitSem'[d] = exitSem[d] /\ (d \in ports => d \in ports')
      /\ exitSem'[c] \in {exitSem[c], 0}
  BY <1>1, <1>4
<1>10. inbox' \in [ConnTasks -> {<<>>} \cup {<<r>> : r \in Requests}]
       /\ \A t \in ConnTasks : inbox'[t] \in {inbox[t], <<>>}
  BY <1>1, <1>4
<1>11. serviceDefs' \in Seq(Channels) /\ Len(serviceDefs') <= NumDefs
  <2>1. serviceDefs \in Seq(Channels) /\ Len(serviceDefs) <= NumDefs /\ NumDefs \in Nat
    BY ServicesAssumption DEF ServiceInv, ServiceTypes, ServicesAssumption
  <2>2. UNCHANGED serviceDefs \/ ServiceRegister(c)
    BY DEF CreateChannel, ChanMsgQ, ChanSem, ChanTask, DeleteChannel, Deleting, DeleteUnblock,
           DeleteFree, DeleteDeaf, tableVars
  <2>. QED BY <2>1, <2>2 DEF ServiceRegister
<1>12. ServiceTypes'
  BY <1>2, <1>5, <1>8, <1>9, <1>10, <1>11 DEF ServiceInv, ServiceTypes
<1>13. ChannelsInv'
  <2>1. ASSUME NEW d \in Channels, d # c
        PROVE  connPc'[d] = connPc[d] /\ exitSem'[d] = exitSem[d] /\ chanPc'[d] = chanPc[d]
               /\ hostNames' = hostNames /\ (d \in ports => d \in ports')
    BY <1>1, <1>2, <1>5, <1>8, <1>9, <2>1
  <2>2. /\ connPc'[c] # "none" => pc \in {"open", "unblock", "wait"} /\ exitSem'[c] = 0
        /\ pc = "task" => exitSem'[c] = 0
        /\ pc \in {"sem", "task", "open", "unblock", "wait"} => c \in ports'
        /\ c \in hostNames => connPc'[c] \in {"loop"} \cup Serving
    <3>1. connPc'[c] # "none" => pc \in {"open", "unblock", "wait"} /\ exitSem'[c] = 0
      BY <1>1, <1>4, <1>7, <1>8, <1>9
    <3>2. pc = "task" => exitSem'[c] = 0
      BY <1>1, <1>4
    <3>3. pc \in {"sem", "task", "open", "unblock", "wait"} => c \in ports'
      BY <1>4, <1>7
    <3>4. c \in hostNames => connPc'[c] \in {"loop"} \cup Serving
      BY <1>6, <1>7, <1>8
    <3>. QED BY <3>1, <3>2, <3>3, <3>4
  <2>. QED BY <1>2, <1>5, <2>1, <2>2 DEF ServiceInv, ChannelsInv
<1>14. \A t \in ConnTasks :
         connPc'[t] = connPc[t] \/ (connPc[t] \notin Serving /\ connPc'[t] \notin Serving)
  BY <1>8 DEF Serving
<1>. QED BY <1>2, <1>10, <1>12, <1>13, <1>14, RestKeeps

\* A message is taken: what it asks for is claimed as before.
LEMMA ReceiveKeeps ==
  ASSUME ServiceInv, NEW t \in ConnTasks, Receive(t)
  PROVE  ServiceInv'
<1> DEFINE r == Head(inbox[t])
<1>1. /\ connPc[t] = "loop" /\ inbox[t] # <<>>
      /\ request' = [request EXCEPT ![t] = r] /\ inbox' = [inbox EXCEPT ![t] = Tail(@)]
      /\ newAddr' = [newAddr EXCEPT ![t] = IF t = "omx" THEN @ ELSE 0]
      /\ ConnGoto(t, "serve") /\ UNCHANGED <<tableVars, known, hostNames, chanVars>>
  BY DEF Receive
<1>2. r \in Requests /\ Tail(inbox[t]) = <<>> /\ r # NoRequest
  BY <1>1, InboxFacts, RequestFacts DEF ServiceInv
<1>3. /\ ChannelsInv' /\ connPc' \in [ConnTasks -> {"none"} \cup Living]
      /\ connPc'[t] = "serve" /\ \A u \in ConnTasks \ {t} : connPc'[u] = connPc[u]
  <2>1. UNCHANGED <<hostNames, chanPc, ports, exitSem>>
    BY <1>1 DEF chanVars
  <2>2. "serve" \in {"loop"} \cup Serving
    BY DEF Serving
  <2>. QED BY <1>1, <2>1, <2>2, ServingKeeps
<1>4. /\ request' \in [ConnTasks -> Requests \cup {NoRequest}]
      /\ request'[t] = r /\ \A u \in ConnTasks \ {t} : request'[u] = request[u]
      /\ inbox' \in [ConnTasks -> {<<>>} \cup {<<q>> : q \in Requests}]
      /\ inbox'[t] = <<>> /\ \A u \in ConnTasks \ {t} : inbox'[u] = inbox[u]
      /\ newAddr' \in [ConnTasks -> Endpoints \cup {0}]
      /\ \A u \in ConnTasks \ {t} : newAddr'[u] = newAddr[u]
  BY <1>1, <1>2 DEF ServiceInv, ServiceTypes
<1>5. UNCHANGED <<serviceDefs, Tuples, servers, lastHandle, known, hostNames, chanPc, ports, exitSem>>
  BY <1>1 DEF tableVars, chanVars
<1>6. ServiceTypes'
  BY <1>3, <1>4, <1>5 DEF ServiceInv, ServiceTypes
<1>7. ServersInv'
  BY <1>5 DEF ServiceInv, ServersInv
<1>8. \A u \in ConnTasks : Asked(u)' \subseteq Asked(u)
  <2>1. Asked(t)' \subseteq Asked(t)
    BY <1>1, <1>3, <1>4 DEF Asked
  <2>2. \A u \in ConnTasks \ {t} : Asked(u)' = Asked(u)
    BY <1>3, <1>4 DEF Asked
  <2>. QED BY <2>1, <2>2
<1>9. ClaimsInv'
  <2>1. \A a : Found(a)' = Found(a)
    BY <1>5 DEF Found
  <2>. QED BY <1>5, <1>8, <2>1 DEF ServiceInv, ClaimsInv, Claims
<1>10. TasksInv'
  <2>1. \A a : Found(a)' = Found(a)
    BY <1>5 DEF Found
  <2>2. TaskInv(t)'
    BY <1>2, <1>3, <1>4 DEF TaskInv, Serving
  <2>3. ASSUME NEW u \in ConnTasks \ {t} PROVE TaskInv(u)'
    <3>1. TaskInv(u) /\ connPc'[t] # "store"
      BY <1>3 DEF ServiceInv, TasksInv
    <3>. QED BY <1>3, <1>4, <1>5, <2>1, <3>1 DEF TaskInv
  <2>. QED BY <2>2, <2>3 DEF TasksInv
<1>. QED BY <1>3, <1>6, <1>7, <1>9, <1>10 DEF ServiceInv

\* An answer that tells the client of nothing new.
LEMMA RefuseKeeps ==
  ASSUME ServiceInv, NEW t \in ConnTasks,
         ServeOther(t) \/ CreateRefused(t) \/ DeleteNotFound(t)
  PROVE  ServiceInv'
<1>1. /\ connPc[t] = "serve" /\ ConnGoto(t, "loop")
      /\ request' = [request EXCEPT ![t] = NoRequest]
      /\ UNCHANGED <<tableVars, newAddr, inbox, hostNames, chanVars>>
  BY DEF ServeOther, CreateRefused, DeleteNotFound, Respond
<1>2. known' = known
  <2>1. known \in [ConnTasks -> SUBSET Endpoints]
    BY DEF ServiceInv, ServiceTypes
  <2>2. known' = [known EXCEPT ![t] = @]
    BY DEF ServeOther, CreateRefused, DeleteNotFound, Respond
  <2>. QED BY <2>1, <2>2
<1>3. /\ ChannelsInv' /\ connPc' \in [ConnTasks -> {"none"} \cup Living]
      /\ connPc'[t] = "loop" /\ \A u \in ConnTasks \ {t} : connPc'[u] = connPc[u]
  <2>1. UNCHANGED <<hostNames, chanPc, ports, exitSem>>
    BY <1>1 DEF chanVars
  <2>. QED BY <1>1, <2>1, ServingKeeps DEF Serving
<1>4. /\ request' \in [ConnTasks -> Requests \cup {NoRequest}]
      /\ request'[t] = NoRequest /\ \A u \in ConnTasks \ {t} : request'[u] = request[u]
  BY <1>1 DEF ServiceInv, ServiceTypes
<1>5. UNCHANGED <<serviceDefs, Tuples, servers, lastHandle, newAddr, inbox, hostNames, chanPc,
                  ports, exitSem>>
  BY <1>1 DEF tableVars, chanVars
<1>6. ServiceTypes'
  BY <1>2, <1>3, <1>4, <1>5 DEF ServiceInv, ServiceTypes
<1>7. ServersInv'
  BY <1>5 DEF ServiceInv, ServersInv
<1>8. \A a : Found(a)' = Found(a)
  BY <1>5 DEF Found
<1>9. ClaimsInv'
  <2>1. \A u \in ConnTasks : Asked(u)' \subseteq Asked(u)
    BY <1>3, <1>4, <1>5 DEF Asked
  <2>. QED BY <1>2, <1>8, <2>1 DEF ServiceInv, ClaimsInv, Claims
<1>10. TasksInv'
  <2>1. TaskInv(t)'
    BY <1>3, <1>4 DEF TaskInv, Serving
  <2>2. ASSUME NEW u \in ConnTasks \ {t} PROVE TaskInv(u)'
    <3>1. TaskInv(u) /\ connPc'[t] \notin {"store", "delete"}
      BY <1>3 DEF ServiceInv, TasksInv
    <3>. QED BY <1>3, <1>4, <1>5, <1>8, <3>1 DEF TaskInv
  <2>. QED BY <2>1, <2>2 DEF TasksInv
<1>. QED BY <1>3, <1>6, <1>7, <1>9, <1>10 DEF ServiceInv

\* A server at an endpoint that no other has.
LEMMA CreateServerKeeps ==
  ASSUME ServiceInv, NEW t \in ConnTasks, CreateServer(t)
  PROVE  ServiceInv'
<1>1. PICK e \in Open :
        /\ servers' = servers \cup {[handle |-> lastHandle + 1, endpt |-> e, started |-> FALSE]}
        /\ newAddr' = [newAddr EXCEPT ![t] = e]
  <2>1. Open \subseteq Nat /\ IsFiniteSet(Open) /\ Open # {}
    <3>1. Open \subseteq Endpoints /\ Open # {}
      BY DEF Open, CreateServer
    <3>. QED BY <3>1, ServicesAssumption, FS_Subset DEF ServicesAssumption
  <2>2. \E x \in Open : \A y \in Open : y <= x
    BY <2>1, GreatestExists
  <2>. QED BY <2>2 DEF CreateServer
<1>2. /\ connPc[t] = "serve" /\ request[t].op = "conn" /\ lastHandle' = lastHandle + 1
      /\ ConnGoto(t, "store")
      /\ UNCHANGED <<serviceDefs, Tuples, request, inbox, known, hostNames, chanVars>>
  BY DEF CreateServer, clientVars
<1>3. e \in Endpoints /\ \A s \in servers : s.endpt # e
  BY DEF Open
<1> DEFINE new == [handle |-> lastHandle + 1, endpt |-> e, started |-> FALSE]
<1>4. /\ ChannelsInv' /\ connPc' \in [ConnTasks -> {"none"} \cup Living]
      /\ connPc'[t] = "store" /\ \A u \in ConnTasks \ {t} : connPc'[u] = connPc[u]
  <2>1. UNCHANGED <<hostNames, chanPc, ports, exitSem>>
    BY <1>2 DEF chanVars
  <2>. QED BY <1>2, <2>1, ServingKeeps DEF Serving
<1>5. /\ newAddr' \in [ConnTasks -> Endpoints \cup {0}]
      /\ newAddr'[t] = e /\ \A u \in ConnTasks \ {t} : newAddr'[u] = newAddr[u]
  BY <1>1, <1>3 DEF ServiceInv, ServiceTypes
<1>6. servers' \subseteq [handle : 1 .. lastHandle', endpt : Endpoints, started : BOOLEAN]
      /\ lastHandle' \in Nat
  <2>1. lastHandle \in Nat
        /\ servers \subseteq [handle : 1 .. lastHandle, endpt : Endpoints, started : BOOLEAN]
    BY DEF ServiceInv, ServiceTypes
  <2>2. lastHandle' \in Nat /\ 1 .. lastHandle \subseteq 1 .. lastHandle' /\ lastHandle' \in 1 .. lastHandle'
    BY <1>2, <2>1
  <2>3. new \in [handle : 1 .. lastHandle', endpt : Endpoints, started : BOOLEAN]
    BY <1>2, <1>3, <2>2
  <2>4. servers' = servers \cup {new}
    BY <1>1
  <2> HIDE DEF new
  <2>. QED BY <2>1, <2>2, <2>3, <2>4
<1>7. ServiceTypes'
  BY <1>2, <1>4, <1>5, <1>6 DEF ServiceInv, ServiceTypes, chanVars
<1>8. new.endpt = e /\ ~new.started /\ servers' = servers \cup {new}
  BY <1>1
<1> HIDE DEF new
<1>9. ServersInv'
  BY <1>2, <1>3, <1>8 DEF ServiceInv, ServersInv
<1>10. \A a : Found(a)' = Found(a)
  BY <1>2 DEF Found
<1>11. ClaimsInv'
  <2>1. \A u \in ConnTasks : Asked(u)' \subseteq Asked(u)
    BY <1>2, <1>4 DEF Asked
  <2>. QED BY <1>2, <1>10, <2>1 DEF ServiceInv, ClaimsInv, Claims
<1>12. TasksInv'
  <2>1. request[t] # NoRequest
    BY <1>2, RequestFacts
  <2>2. \A u \in ConnTasks : connPc[u] = "store" => newAddr[u] # e
    BY <1>3 DEF ServiceInv, TasksInv, TaskInv
  <2>3. \A s \in servers : s \in servers'
    BY <1>8
  <2>4. TaskInv(t)'
    <3>1. TaskInv(t) /\ request'[t] = request[t] /\ inbox'[t] = inbox[t]
      BY <1>2 DEF ServiceInv, TasksInv
    <3>2. "store" \in Serving /\ new \in servers'
      BY <1>8 DEF Serving
    <3>. QED BY <1>2, <1>4, <1>5, <1>8, <2>1, <2>2, <3>1, <3>2 DEF TaskInv
  <2>5. ASSUME NEW u \in ConnTasks \ {t} PROVE TaskInv(u)'
    <3>1. TaskInv(u) /\ request' = request /\ inbox' = inbox
      BY <1>2 DEF ServiceInv, TasksInv
    <3>. QED BY <1>4, <1>5, <1>10, <2>2, <2>3, <3>1 DEF TaskInv
  <2>. QED BY <2>4, <2>5 DEF TasksInv
<1>. QED BY <1>4, <1>7, <1>9, <1>11, <1>12 DEF ServiceInv

\* There is room: the tuples that are taken are at endpoints of servers that run,
\* and this one does not yet.
LEMMA TupleIsFree ==
  ASSUME ServiceInv, NEW t \in ConnTasks, connPc[t] = "store"
  PROVE  FreeSlots # {}
<1> SUFFICES ASSUME FreeSlots = {} PROVE FALSE
  OBVIOUS
<1>1. PICK s \in servers : ~s.started /\ s.endpt = newAddr[t]
  BY DEF ServiceInv, TasksInv, TaskInv
<1> DEFINE S == 1 .. MaxTuples
           T == Endpoints \ {newAddr[t]}
           f == [i \in S |-> Tuples[i].key]
<1>2. newAddr[t] \in Endpoints
  BY <1>1 DEF ServiceInv, ServiceTypes
<1>3. ASSUME NEW i \in S PROVE Tuples[i].key \in T /\ Tuples[i].key # 0
  <2>1. Tuples[i].key # 0
    BY DEF FreeSlots, ServiceInv, ServersInv
  <2>2. PICK r \in servers : r.started /\ r.endpt = Tuples[i].key
    BY <2>1 DEF ServiceInv, ServersInv
  <2>3. r.endpt # s.endpt
    BY <1>1, <2>2 DEF ServiceInv, ServersInv
  <2>. QED BY <1>1, <2>1, <2>2, <2>3 DEF ServiceInv, ServiceTypes
<1>4. IsFiniteSet(Endpoints) /\ Cardinality(Endpoints) <= MaxTuples /\ MaxTuples \in Nat
  BY ServicesAssumption DEF ServicesAssumption
<1>5. IsFiniteSet(S) /\ Cardinality(S) = MaxTuples
  BY <1>4, FS_Interval
<1>6. IsFiniteSet(T) /\ Cardinality(T) = Cardinality(Endpoints) - 1 /\ Cardinality(Endpoints) \in Nat
  BY <1>2, <1>4, FS_RemoveElement, FS_CardinalityType
<1>7. f \in [S -> T]
  BY <1>3
<1>8. \E i, j \in S : i # j /\ f[i] = f[j]
  <2> HIDE DEF S, T, f
  <2>1. Cardinality(T) < Cardinality(S)
    BY <1>4, <1>5, <1>6
  <2>. QED BY <1>5, <1>6, <1>7, <2>1, FS_PigeonHole
<1>. QED BY <1>3, <1>8 DEF ServiceInv, ServersInv

\* The server is stored and started, and its client told of it.
LEMMA CreateStoreKeeps ==
  ASSUME ServiceInv, NEW t \in ConnTasks, CreateStore(t)
  PROVE  ServiceInv'
<1>0. PICK a : a = newAddr[t]
  OBVIOUS
<1> USE <1>0
<1> DEFINE s == CHOOSE x \in servers : x.endpt = newAddr[t]
           k == CHOOSE i \in FreeSlots : \A j \in FreeSlots : i <= j
           run == [s EXCEPT !.started = TRUE]
<1>1. connPc[t] = "store" /\ FreeSlots # {}
  BY TupleIsFree DEF CreateStore
<1>2. /\ Tuples' = [Tuples EXCEPT ![k] = [key |-> a, value |-> s.handle]]
      /\ servers' = (servers \ {s}) \cup {run}
      /\ Respond(t, "success", a)
      /\ UNCHANGED <<serviceDefs, lastHandle, newAddr, inbox, hostNames, chanVars>>
  BY <1>1 DEF CreateStore, StoreTuple
<1>3. /\ request[t].op = "conn" /\ request[t] # NoRequest /\ inbox[t] = <<>>
      /\ \E r \in servers : ~r.started /\ r.endpt = a
      /\ \A u \in ConnTasks \ {t} : connPc[u] = "store" => newAddr[u] # a
  BY <1>1, RequestFacts DEF ServiceInv, TasksInv, TaskInv
<1>4. s \in servers /\ ~s.started /\ s.endpt = a /\ \A r \in servers : r.endpt = a => r = s
  <2>1. s \in servers /\ s.endpt = a
    BY <1>3
  <2>. QED BY <1>3, <2>1 DEF ServiceInv, ServersInv
<1> HIDE DEF s
<1>5. s \in [handle : 1 .. lastHandle, endpt : Endpoints, started : BOOLEAN]
      /\ lastHandle \in Nat
  BY <1>4 DEF ServiceInv, ServiceTypes
<1>6. /\ run \in [handle : 1 .. lastHandle, endpt : Endpoints, started : BOOLEAN]
      /\ run.started /\ run.endpt = a /\ run.handle = s.handle
      /\ a \in Endpoints /\ a # 0 /\ s.handle \in Nat
  <2>1. 0 \notin Endpoints
    BY ServicesAssumption DEF ServicesAssumption
  <2>2. s.handle \in Nat /\ s.endpt \in Endpoints
    BY <1>5
  <2>3. run \in [handle : 1 .. lastHandle, endpt : Endpoints, started : BOOLEAN]
        /\ run.started /\ run.endpt = s.endpt /\ run.handle = s.handle
    BY <1>5
  <2>. QED BY <1>4, <2>1, <2>2, <2>3
<1>7. k \in 1 .. MaxTuples /\ Tuples[k] = FreeTuple
  <2>1. FreeSlots \subseteq Nat
    BY ServicesAssumption DEF FreeSlots, ServicesAssumption
  <2>2. Min(FreeSlots) \in FreeSlots /\ \A j \in FreeSlots : Min(FreeSlots) <= j
    BY <1>1, <2>1, NatMin
  <2>3. k \in FreeSlots
    BY <2>2
  <2>. QED BY <2>3 DEF FreeSlots
<1> HIDE DEF k, run
<1>8. /\ Tuples' \in [1 .. MaxTuples -> [key : Endpoints \cup {0}, value : Nat]]
      /\ Tuples'[k].key = a /\ Tuples'[k].value = s.handle
      /\ \A i \in 1 .. MaxTuples \ {k} : Tuples'[i] = Tuples[i]
  BY <1>2, <1>6, <1>7 DEF ServiceInv, ServiceTypes
<1>9. /\ known' = [known EXCEPT ![t] = @ \cup {a}] /\ ConnGoto(t, "loop")
      /\ request' = [request EXCEPT ![t] = NoRequest]
  BY <1>2, <1>3 DEF Respond
<1>10. /\ ChannelsInv' /\ connPc' \in [ConnTasks -> {"none"} \cup Living]
       /\ connPc'[t] = "loop" /\ \A u \in ConnTasks \ {t} : connPc'[u] = connPc[u]
  <2>1. UNCHANGED <<hostNames, chanPc, ports, exitSem>>
    BY <1>2 DEF chanVars
  <2>. QED BY <1>1, <1>9, <2>1, ServingKeeps DEF Serving
<1>11. /\ request' \in [ConnTasks -> Requests \cup {NoRequest}]
       /\ request'[t] = NoRequest /\ \A u \in ConnTasks \ {t} : request'[u] = request[u]
       /\ known' \in [ConnTasks -> SUBSET Endpoints]
       /\ known'[t] = known[t] \cup {a} /\ \A u \in ConnTasks \ {t} : known'[u] = known[u]
  BY <1>6, <1>9 DEF ServiceInv, ServiceTypes
<1>12. servers' \subseteq [handle : 1 .. lastHandle, endpt : Endpoints, started : BOOLEAN]
  BY <1>2, <1>6 DEF ServiceInv, ServiceTypes
<1>13. ServiceTypes'
  BY <1>2, <1>8, <1>10, <1>11, <1>12 DEF ServiceInv, ServiceTypes, chanVars
<1>14. \A i \in 1 .. MaxTuples : Tuples[i].key # a
  <2>1. ASSUME NEW i \in 1 .. MaxTuples, Tuples[i].key = a PROVE FALSE
    <3>1. PICK r \in servers : r.started /\ r.endpt = a
      BY <1>6, <2>1 DEF ServiceInv, ServersInv
    <3>. QED BY <1>4, <3>1
  <2>. QED BY <2>1
<1>15. ServersInv'
  <2>1. \A r, q \in servers' : r.endpt = q.endpt => r = q
    BY <1>2, <1>4, <1>6 DEF ServiceInv, ServersInv
  <2>2. ASSUME NEW i \in 1 .. MaxTuples
        PROVE  /\ Tuples'[i].key = 0 => Tuples'[i] = FreeTuple
               /\ Tuples'[i].key # 0 => \E r \in servers' :
                    r.started /\ r.endpt = Tuples'[i].key /\ r.handle = Tuples'[i].value
    <3>1. CASE i = k
      BY <1>2, <1>6, <1>8, <3>1
    <3>2. CASE i # k
      <4>1. Tuples'[i] = Tuples[i]
        BY <1>8, <3>2
      <4>2. \A r \in servers : r.started => r \in servers'
        BY <1>2, <1>4
      <4>. QED BY <4>1, <4>2 DEF ServiceInv, ServersInv
    <3>. QED BY <3>1, <3>2
  <2>3. \A i, j \in 1 .. MaxTuples : Tuples'[i].key = Tuples'[j].key /\ Tuples'[i].key # 0 => i = j
    <3>1. \A i, j \in 1 .. MaxTuples : Tuples[i].key = Tuples[j].key /\ Tuples[i].key # 0 => i = j
      BY DEF ServiceInv, ServersInv
    <3>. QED BY <1>8, <1>14, <3>1
  <2>. QED BY <2>1, <2>2, <2>3 DEF ServersInv
<1>16. \A b : Found(b) # {} => Found(b)' # {}
  <2>1. ASSUME NEW b, NEW i \in Found(b) PROVE i \in Found(b)'
    <3>1. i \in 1 .. MaxTuples /\ Tuples[i].key = b /\ b # 0 /\ i # k
      BY <1>7 DEF Found, FreeTuple
    <3>. QED BY <1>8, <3>1 DEF Found
  <2>. QED BY <2>1
<1>17. Found(a) = {} /\ Found(a)' # {} /\ \A b : b # a => Found(b)' = Found(b)
  <2>1. Found(a) = {}
    BY <1>14 DEF Found
  <2>2. k \in Found(a)'
    BY <1>6, <1>7, <1>8 DEF Found
  <2>3. ASSUME NEW b, b # a PROVE Found(b)' = Found(b)
    BY <1>7, <1>8, <2>3 DEF Found, FreeTuple
  <2>. QED BY <2>1, <2>2, <2>3
<1>18. ClaimsInv'
  <2>1. \A u \in ConnTasks : Asked(u)' \subseteq Asked(u)
    BY <1>2, <1>10, <1>11 DEF Asked
  <2>2. \A u \in ConnTasks : a \notin Claims(u)
    BY <1>17 DEF ServiceInv, ClaimsInv
  <2>. QED BY <1>11, <1>16, <1>17, <2>1, <2>2 DEF ServiceInv, ClaimsInv, Claims
<1>19. TasksInv'
  <2>1. TaskInv(t)'
    BY <1>10, <1>11 DEF TaskInv, Serving
  <2>2. ASSUME NEW u \in ConnTasks \ {t} PROVE TaskInv(u)'
    <3>1. TaskInv(u) /\ connPc'[t] # "store"
      BY <1>10 DEF ServiceInv, TasksInv
    <3>2. connPc[u] = "store" => \E r \in servers' : ~r.started /\ r.endpt = newAddr[u]
      BY <1>2, <1>3, <1>4, <3>1 DEF TaskInv
    <3>3. connPc[u] = "delete" =>
            /\ request[u].addr # a
            /\ \E r \in servers' : r.started /\ r.endpt = request[u].addr
      BY <1>2, <1>4, <3>1 DEF TaskInv
    <3>. QED BY <1>2, <1>10, <1>11, <1>17, <3>1, <3>2, <3>3 DEF TaskInv
  <2>. QED BY <2>1, <2>2 DEF TasksInv
<1>. QED BY <1>10, <1>13, <1>15, <1>18, <1>19 DEF ServiceInv

\* A tuple is freed for the client whose it was.
LEMMA DeleteRemoveKeeps ==
  ASSUME ServiceInv, NEW t \in ConnTasks, DeleteRemove(t)
  PROVE  ServiceInv'
<1>0. PICK a : a = request[t].addr
  OBVIOUS
<1> USE <1>0
<1>1. PICK k \in Found(a) : Tuples' = [Tuples EXCEPT ![k] = FreeTuple]
  BY DEF DeleteRemove, RemoveTuple
<1>2. /\ connPc[t] = "serve" /\ request[t].op = "disc" /\ ConnGoto(t, "delete")
      /\ UNCHANGED <<serviceDefs, servers, lastHandle, request, newAddr, inbox, known, hostNames,
                     chanVars>>
  BY DEF DeleteRemove, clientVars
<1>3. k \in 1 .. MaxTuples /\ Tuples[k].key = a /\ a # 0
  BY DEF Found
<1>4. Tuples \in [1 .. MaxTuples -> [key : Endpoints \cup {0}, value : Nat]]
  BY DEF ServiceInv, ServiceTypes
<1>5. a \in Endpoints
  BY <1>3, <1>4
<1>6. /\ Tuples' \in [1 .. MaxTuples -> [key : Endpoints \cup {0}, value : Nat]]
      /\ Tuples'[k] = FreeTuple /\ FreeTuple.key = 0
      /\ \A i \in 1 .. MaxTuples \ {k} : Tuples'[i] = Tuples[i]
  BY <1>1, <1>3, <1>4 DEF FreeTuple
<1>7. /\ ChannelsInv' /\ connPc' \in [ConnTasks -> {"none"} \cup Living]
      /\ connPc'[t] = "delete" /\ \A u \in ConnTasks \ {t} : connPc'[u] = connPc[u]
  <2>1. UNCHANGED <<hostNames, chanPc, ports, exitSem>>
    BY <1>2 DEF chanVars
  <2>. QED BY <1>2, <2>1, ServingKeeps DEF Serving
<1>8. ServiceTypes'
  BY <1>2, <1>6, <1>7 DEF ServiceInv, ServiceTypes, chanVars
<1>9. \A i, j \in 1 .. MaxTuples : Tuples[i].key = Tuples[j].key /\ Tuples[i].key # 0 => i = j
  BY DEF ServiceInv, ServersInv
<1>10. ServersInv'
  <2>1. \A i, j \in 1 .. MaxTuples : Tuples'[i].key = Tuples'[j].key /\ Tuples'[i].key # 0 => i = j
    BY <1>6, <1>9
  <2>. QED BY <1>2, <1>6, <2>1 DEF ServiceInv, ServersInv
<1>11. Found(a)' = {} /\ \A b : b # a => Found(b)' = Found(b)
  <2>1. \A i \in 1 .. MaxTuples \ {k} : Tuples'[i].key # a
    BY <1>3, <1>6, <1>9
  <2>2. Found(a)' = {}
    BY <1>3, <1>6, <2>1 DEF Found
  <2>3. ASSUME NEW b, b # a PROVE Found(b)' = Found(b)
    BY <1>3, <1>6, <2>3 DEF Found
  <2>. QED BY <2>2, <2>3
<1>12. a \in Asked(t) /\ Asked(t)' = {} /\ \A u \in ConnTasks \ {t} : Asked(u)' = Asked(u)
  <2>1. inbox[t] = <<>>
    BY <1>2, RequestFacts DEF ServiceInv, TasksInv, TaskInv
  <2>. QED BY <1>2, <1>5, <1>7, <2>1 DEF Asked
<1>13. ClaimsInv'
  <2>1. a \notin known[t] /\ \A u \in ConnTasks \ {t} : a \notin Claims(u)
    BY <1>12 DEF ServiceInv, ClaimsInv, Claims
  <2>2. \A u \in ConnTasks : Claims(u)' \subseteq Claims(u) /\ a \notin Claims(u)'
    BY <1>2, <1>12, <2>1 DEF Claims
  <2>3. \A u \in ConnTasks : known'[u] \cap Asked(u)' = {}
    BY <1>2, <1>12 DEF ServiceInv, ClaimsInv
  <2>4. \A u \in ConnTasks : \A b \in Claims(u)' : Found(b)' # {}
    BY <1>11, <2>2 DEF ServiceInv, ClaimsInv
  <2>. QED BY <2>2, <2>3, <2>4, ClaimsKeep
<1>14. TasksInv'
  <2>1. \E s \in servers : s.started /\ s.endpt = a
    BY <1>3 DEF ServiceInv, ServersInv
  <2>2. TaskInv(t)'
    <3>1. TaskInv(t) /\ \A u \in ConnTasks : TaskInv(u)
      BY DEF ServiceInv, TasksInv
    <3>2. \A u \in ConnTasks : connPc[u] = "delete" => request[u].addr # a
      BY <1>1, <3>1 DEF TaskInv
    <3>. QED BY <1>2, <1>7, <1>11, <2>1, <3>1, <3>2 DEF TaskInv, Serving
  <2>3. ASSUME NEW u \in ConnTasks \ {t} PROVE TaskInv(u)'
    <3>1. TaskInv(u) /\ connPc'[t] # "store"
      BY <1>7 DEF ServiceInv, TasksInv
    <3>2. connPc[u] = "delete" => request[u].addr # a
      BY <1>1, <3>1 DEF TaskInv
    <3>. QED BY <1>2, <1>7, <1>11, <3>1, <3>2 DEF TaskInv
  <2>. QED BY <2>2, <2>3 DEF TasksInv
<1>. QED BY <1>7, <1>8, <1>10, <1>13, <1>14 DEF ServiceInv

\* The server of a freed tuple goes, and with it nothing that anyone knows.
LEMMA DeleteServerKeeps ==
  ASSUME ServiceInv, NEW t \in ConnTasks, DeleteServer(t)
  PROVE  ServiceInv'
<1>0. PICK a : a = request[t].addr
  OBVIOUS
<1> USE <1>0
<1>1. /\ connPc[t] = "delete" /\ servers' = {s \in servers : s.endpt # a}
      /\ Respond(t, "success", a)
      /\ UNCHANGED <<serviceDefs, Tuples, lastHandle, newAddr, inbox, hostNames, chanVars>>
  BY DEF DeleteServer
<1>2. /\ request[t].op = "disc" /\ Found(a) = {}
      /\ \E s \in servers : s.started /\ s.endpt = a
  BY <1>1 DEF ServiceInv, TasksInv, TaskInv
<1>3. /\ known' = known /\ ConnGoto(t, "loop") /\ request' = [request EXCEPT ![t] = NoRequest]
  <2>1. known \in [ConnTasks -> SUBSET Endpoints]
    BY DEF ServiceInv, ServiceTypes
  <2>2. known' = [known EXCEPT ![t] = @]
    BY <1>1, <1>2 DEF Respond
  <2>. QED BY <1>1, <2>1, <2>2 DEF Respond
<1>4. /\ ChannelsInv' /\ connPc' \in [ConnTasks -> {"none"} \cup Living]
      /\ connPc'[t] = "loop" /\ \A u \in ConnTasks \ {t} : connPc'[u] = connPc[u]
  <2>1. UNCHANGED <<hostNames, chanPc, ports, exitSem>>
    BY <1>1 DEF chanVars
  <2>. QED BY <1>1, <1>3, <2>1, ServingKeeps DEF Serving
<1>5. /\ request' \in [ConnTasks -> Requests \cup {NoRequest}]
      /\ request'[t] = NoRequest /\ \A u \in ConnTasks \ {t} : request'[u] = request[u]
  BY <1>3 DEF ServiceInv, ServiceTypes
<1>6. ServiceTypes'
  BY <1>1, <1>3, <1>4, <1>5 DEF ServiceInv, ServiceTypes, chanVars
<1>7. \A b : Found(b)' = Found(b)
  BY <1>1 DEF Found
<1>8. ServersInv'
  <2>1. \A i \in 1 .. MaxTuples : Tuples[i].key # 0 => Tuples[i].key # a
    BY <1>2 DEF Found
  <2>. QED BY <1>1, <2>1 DEF ServiceInv, ServersInv
<1>9. ClaimsInv'
  <2>1. \A u \in ConnTasks : Asked(u)' \subseteq Asked(u)
    BY <1>1, <1>4, <1>5 DEF Asked
  <2>. QED BY <1>3, <1>7, <2>1 DEF ServiceInv, ClaimsInv, Claims
<1>10. TasksInv'
  <2>1. TaskInv(t)'
    BY <1>4, <1>5 DEF TaskInv, Serving
  <2>2. ASSUME NEW u \in ConnTasks \ {t} PROVE TaskInv(u)'
    <3>1. TaskInv(u) /\ connPc'[t] # "store"
      BY <1>4 DEF ServiceInv, TasksInv
    <3>2. connPc[u] = "store" => newAddr[u] # a
      BY <1>2, <3>1 DEF TaskInv, ServiceInv, ServersInv
    <3>3. connPc[u] = "delete" => request[u].addr # a
      BY <1>1, <3>1 DEF TaskInv
    <3>. QED BY <1>1, <1>4, <1>5, <1>7, <3>1, <3>2, <3>3 DEF TaskInv
  <2>. QED BY <2>1, <2>2 DEF TasksInv
<1>. QED BY <1>4, <1>6, <1>8, <1>9, <1>10 DEF ServiceInv

\* A client asks; it gives up what it asks to be taken down.
LEMMA HostAskKeeps ==
  ASSUME ServiceInv, NEW t \in ConnTasks, NEW r \in Asks(t), HostAsk(t, r)
  PROVE  ServiceInv'
<1>1. /\ inbox[t] = <<>> /\ request[t] = NoRequest
      /\ inbox' = [inbox EXCEPT ![t] = <<r>>] /\ known' = [known EXCEPT ![t] = @ \ {r.addr}]
      /\ UNCHANGED <<serviceDefs, Tuples, servers, lastHandle, connPc, request, newAddr, hostNames,
                     chanVars>>
  BY DEF HostAsk, tableVars
<1>2. known[t] \subseteq Endpoints /\ 0 \notin Endpoints
  BY ServicesAssumption DEF ServiceInv, ServiceTypes, ServicesAssumption
<1>3. r \in Requests /\ (r.op = "disc" => r.addr \in known[t] \cup {0}) /\ (r.op # "disc" => r.addr = 0)
  BY <1>2 DEF Asks, Requests
<1>4. /\ inbox' \in [ConnTasks -> {<<>>} \cup {<<q>> : q \in Requests}]
      /\ inbox'[t] = <<r>> /\ \A u \in ConnTasks \ {t} : inbox'[u] = inbox[u]
      /\ known' \in [ConnTasks -> SUBSET Endpoints]
      /\ known'[t] = known[t] \ {r.addr} /\ \A u \in ConnTasks \ {t} : known'[u] = known[u]
  BY <1>1, <1>3 DEF ServiceInv, ServiceTypes
<1>5. ServiceTypes'
  BY <1>1, <1>4 DEF ServiceInv, ServiceTypes, chanVars
<1>6. ServersInv' /\ ChannelsInv' /\ \A a : Found(a)' = Found(a)
  BY <1>1 DEF ServiceInv, ServersInv, ChannelsInv, Found, chanVars
<1>7. Asked(t)' \subseteq known[t] \cap {r.addr} /\ \A u \in ConnTasks \ {t} : Asked(u)' = Asked(u)
  <2>1. Head(<<r>>) = r
    OBVIOUS
  <2>2. connPc[t] # "serve"
    BY <1>1 DEF ServiceInv, TasksInv, TaskInv
  <2>3. ASSUME NEW a \in Asked(t)' PROVE a \in known[t] \cap {r.addr}
    BY <1>1, <1>2, <1>3, <1>4, <2>1, <2>2 DEF Asked
  <2>4. \A u \in ConnTasks \ {t} : Asked(u)' = Asked(u)
    BY <1>1, <1>4 DEF Asked
  <2>. QED BY <2>3, <2>4
<1>8. ClaimsInv'
  <2>1. \A u \in ConnTasks : Claims(u)' \subseteq Claims(u) /\ known'[u] \cap Asked(u)' = {}
    BY <1>4, <1>7 DEF ServiceInv, ClaimsInv, Claims
  <2>2. \A u \in ConnTasks : \A a \in Claims(u)' : Found(a)' # {}
    BY <1>6, <2>1 DEF ServiceInv, ClaimsInv
  <2>. QED BY <2>1, <2>2, ClaimsKeep
<1>9. TasksInv'
  BY <1>1, <1>4, <1>6, SMTT(60) DEF ServiceInv, TasksInv, TaskInv
<1>. QED BY <1>5, <1>6, <1>8, <1>9 DEF ServiceInv

\* A service that a client was told of is there and is no other client's, every tuple
\* names a server that runs, and the host knows of no channel that is not open: for any
\* channels, endpoints and tuples, as long as there is a tuple for every endpoint.
THEOREM ServicesTheorem == SrvSpec => []ServicesAreKnown
<1>1. SrvInit => ServiceInv
  BY ServiceStarts
<1>2. ServiceInv /\ [SrvNext]_srvVars => ServiceInv'
  <2>1. ASSUME ServiceInv, SrvNext PROVE ServiceInv'
    <3>1. "omx" \in ConnTasks
      BY DEF ConnTasks
    <3>. QED BY <2>1, <3>1, TaskRestKeeps, ChannelKeeps, ReceiveKeeps, RefuseKeeps, CreateServerKeeps,
                CreateStoreKeeps, DeleteRemoveKeeps, DeleteServerKeeps, HostAskKeeps
             DEF SrvNext, ConnStep
  <2>2. ASSUME ServiceInv, UNCHANGED srvVars PROVE ServiceInv'
    <3>1. \A a : Found(a)' = Found(a)
      BY <2>2 DEF srvVars, tableVars, Found
    <3>2. \A t \in ConnTasks : Asked(t)' = Asked(t)
      BY <2>2 DEF srvVars, clientVars, Asked
    <3>3. ServiceTypes' /\ ServersInv' /\ ChannelsInv'
      BY <2>2 DEF srvVars, tableVars, clientVars, chanVars, ServiceInv, ServiceTypes, ServersInv,
                  ChannelsInv
    <3>4. ClaimsInv'
      BY <2>2, <3>1, <3>2 DEF srvVars, clientVars, ServiceInv, ClaimsInv, Claims
    <3>5. TasksInv'
      BY <2>2, <3>1 DEF srvVars, tableVars, clientVars, ServiceInv, TasksInv, TaskInv
    <3>. QED BY <3>3, <3>4, <3>5 DEF ServiceInv
  <2>. QED BY <2>1, <2>2
<1>3. ServiceInv => ServicesAreKnown
  <2> SUFFICES ASSUME ServiceInv PROVE ServicesAreKnown
    OBVIOUS
  <2>1. SrvTypeOK
    <3>1. Range(serviceDefs) \subseteq Channels
      BY DEF ServiceInv, ServiceTypes, Range
    <3>. QED BY <3>1 DEF SrvTypeOK, ServiceInv, ServiceTypes, Living
  <2>2. ASSUME NEW t \in ConnTasks, NEW a \in known[t]
        PROVE  Cardinality(Found(a)) = 1 /\ \A u \in ConnTasks \ {t} : a \notin known[u]
    <3>1. a \in Claims(t)
      BY DEF Claims
    <3>2. PICK i \in Found(a) : TRUE
      BY <3>1 DEF ServiceInv, ClaimsInv
    <3>3. Found(a) = {i}
      BY <3>2 DEF Found, ServiceInv, ServersInv
    <3>4. Cardinality({i}) = 1
      BY FS_Singleton
    <3>5. \A u \in ConnTasks \ {t} : a \notin known[u]
      BY <3>1 DEF ServiceInv, ClaimsInv, Claims
    <3>. QED BY <3>3, <3>4, <3>5
  <2>3. ASSUME NEW i \in 1 .. MaxTuples \ FreeSlots
        PROVE  \E s \in servers : s.started /\ s.endpt = Tuples[i].key /\ s.handle = Tuples[i].value
    BY DEF FreeSlots, ServiceInv, ServersInv
  <2>4. NamesAreOpen
    BY DEF NamesAreOpen, ServiceInv, ChannelsInv, Serving
  <2>. QED BY <2>1, <2>2, <2>3, <2>4 DEF ServicesAreKnown, TuplesNameServers
<1>. QED BY <1>1, <1>2, <1>3, PTL DEF SrvSpec

-----------------------------------------------------------------------------
(***************************************************************************)
(* The messages of a client, for any messages.                             *)
(***************************************************************************)

Ops == DOMAIN TypeOf
Calls == [op : Waiting \cup {"waitUntilDone"}, packet : Packets]

\* What a message is worth where it is.
PacketInv(p) ==
  /\ place[p] = "heap" => desc[p] = 0
  /\ place[p] = "server" =>
       sentAs[p] \in Ops /\ desc[p] = TypeOf[sentAs[p]] /\ replyTo[p] = ReplyQueue(sentAs[p])
  /\ place[p] = "msgQue" => sentAs[p] # "execCmd"
  /\ place[p] = "errorMsgQue" => sentAs[p] = "execCmd"

CallInv ==
  call # NoCall =>
    place[call.packet] \in {"server", "msgQue"} /\ sentAs[call.packet] # "execCmd"

CheckedInv ==
  checked.packet # NoPacket =>
    /\ call = NoCall /\ checked.packet \in Packets /\ place[checked.packet] = "client"
    /\ checked.ok => desc[checked.packet] \in {JobNotFound, PoolNotFound}

CmdInv ==
  /\ CmdTypeOK /\ call \in Calls \cup {NoCall}
  /\ checked \in [ok : BOOLEAN, packet : Packets \cup {NoPacket}]
  /\ \A p \in Packets : PacketInv(p)
  /\ CallInv /\ CheckedInv /\ wildFrees \subseteq {"acquireJobId", "releaseJobId"}

LEMMA TypeFacts ==
  /\ Ops = {"exec", "execNoWait", "execDpc", "getSymbolIndex", "execCmd", "acquireJobId",
            "releaseJobId"}
  /\ \A op \in Ops : TypeOf[op] \in 1 .. 7 /\ StatusesOf(TypeOf[op]) # {}
                     /\ ReplyQueue(op) \in {"msgQue", "errorMsgQue"}
                     /\ (ReplyQueue(op) = "errorMsgQue" <=> op = "execCmd")
                     /\ (TypeOf[op] = TypeOf.execCmd => op = "execCmd")
                     /\ Ored(0, TypeOf[op]) = TypeOf[op]
  /\ \A type \in 1 .. 7 : StatusesOf(type) \subseteq 0 .. 15
  /\ Waiting \subseteq Ops /\ Internal \subseteq Waiting /\ "execCmd" \notin Waiting
<1>1. Ops = {"exec", "execNoWait", "execDpc", "getSymbolIndex", "execCmd", "acquireJobId",
             "releaseJobId"}
  BY DEF Ops, TypeOf
<1>2. \A op \in Ops : TypeOf[op] \in {1, 2, 4, 5, 6, 7}
                      /\ (TypeOf[op] = TypeOf.execCmd => op = "execCmd")
  BY <1>1 DEF TypeOf
<1>3. \A type \in {1, 2, 4, 5, 6, 7} :
        StatusesOf(type) # {} /\ Ored(0, type) = type
  <2>1. \A type \in {1, 2, 4, 5, 6, 7} : StatusesOf(type) # {}
    BY DEF StatusesOf
  <2>2. \A x \in Nat, y \in 0 .. 1 : x * 0 * y = 0
    OBVIOUS
  <2>3. \A bit \in {1, 2, 4, 8} : (0 \div bit) % 2 = 0
    OBVIOUS
  <2>4. \A type \in {1, 2, 4, 5, 6, 7} : \A bit \in {1, 2, 4, 8} : (type \div bit) % 2 \in 0 .. 1
    OBVIOUS
  <2>5. \A type \in {1, 2, 4, 5, 6, 7} : Ored(0, type) = 0 + type - 0 - 0 - 0 - 0
    BY <2>2, <2>3, <2>4 DEF Ored
  <2>. QED BY <2>1, <2>5
<1>4. \A type \in 1 .. 7 : StatusesOf(type) \subseteq 0 .. 15
  BY DEF StatusesOf
<1>5. \A op \in Ops : ReplyQueue(op) \in {"msgQue", "errorMsgQue"}
                      /\ (ReplyQueue(op) = "errorMsgQue" <=> op = "execCmd")
  BY DEF ReplyQueue
<1>6. Waiting \subseteq Ops /\ Internal \subseteq Waiting /\ "execCmd" \notin Waiting
  BY <1>1 DEF Waiting, Internal
<1>. QED BY <1>1, <1>2, <1>3, <1>4, <1>5, <1>6

LEMMA CommandsStart == CmdInit => CmdInv
<1> SUFFICES ASSUME CmdInit PROVE CmdInv
  OBVIOUS
<1>1. CmdTypeOK
  BY DEF CmdInit, CmdTypeOK
<1>. QED BY <1>1 DEF CmdInit, CmdInv, PacketInv, CallInv, CheckedInv, NoError, NoCall

\* A step about one message, which nobody waits for and which no error is told of.
LEMMA PacketKeeps ==
  ASSUME CmdInv, NEW p \in Packets, CmdTypeOK', PacketInv(p)',
         call' \in Calls \cup {NoCall}, checked' \in [ok : BOOLEAN, packet : Packets \cup {NoPacket}],
         \A q \in Packets \ {p} : /\ place'[q] = place[q] /\ desc'[q] = desc[q]
                                  /\ replyTo'[q] = replyTo[q] /\ sentAs'[q] = sentAs[q],
         CallInv', CheckedInv', wildFrees' \subseteq {"acquireJobId", "releaseJobId"}
  PROVE  CmdInv'
<1>1. \A q \in Packets \ {p} : PacketInv(q)'
  BY DEF CmdInv, PacketInv
<1>. QED BY <1>1 DEF CmdInv

\* MessageQ_put, of a message that has no type yet.
LEMMA CmdPutIs ==
  ASSUME CmdInv, NEW op \in Ops, NEW p \in Packets, desc[p] = 0, Put(op, p)
  PROVE  /\ place' \in [Packets -> {"heap", "client", "server", "msgQue", "errorMsgQue", "dropped"}]
         /\ desc' \in [Packets -> 0 .. 15]
         /\ replyTo' \in [Packets -> {"none", "msgQue", "errorMsgQue"}]
         /\ sentAs' \in [Packets -> DOMAIN TypeOf \cup {"none"}]
         /\ PacketInv(p)' /\ place'[p] = "server" /\ sentAs'[p] = op
         /\ \A q \in Packets \ {p} : /\ place'[q] = place[q] /\ desc'[q] = desc[q]
                                     /\ replyTo'[q] = replyTo[q] /\ sentAs'[q] = sentAs[q]
<1>1. desc' = [desc EXCEPT ![p] = TypeOf[op]] /\ TypeOf[op] \in 1 .. 7
  BY TypeFacts DEF Put
<1>2. replyTo' = [replyTo EXCEPT ![p] = ReplyQueue(op)] /\ ReplyQueue(op) \in {"msgQue", "errorMsgQue"}
  BY TypeFacts DEF Put
<1>3. sentAs' = [sentAs EXCEPT ![p] = op] /\ place' = [place EXCEPT ![p] = "server"]
  BY DEF Put
<1>4. /\ place' \in [Packets -> {"heap", "client", "server", "msgQue", "errorMsgQue", "dropped"}]
      /\ desc' \in [Packets -> 0 .. 15]
      /\ replyTo' \in [Packets -> {"none", "msgQue", "errorMsgQue"}]
      /\ sentAs' \in [Packets -> DOMAIN TypeOf \cup {"none"}]
      /\ place'[p] = "server" /\ desc'[p] = TypeOf[op] /\ replyTo'[p] = ReplyQueue(op)
      /\ sentAs'[p] = op
      /\ \A q \in Packets \ {p} : /\ place'[q] = place[q] /\ desc'[q] = desc[q]
                                  /\ replyTo'[q] = replyTo[q] /\ sentAs'[q] = sentAs[q]
  BY <1>1, <1>2, <1>3 DEF CmdInv, CmdTypeOK, Ops
<1>. QED BY <1>4 DEF PacketInv

LEMMA ToHeapIs ==
  ASSUME CmdInv, NEW p \in Packets, ToHeap(p)
  PROVE  /\ place' \in [Packets -> {"heap", "client", "server", "msgQue", "errorMsgQue", "dropped"}]
         /\ desc' \in [Packets -> 0 .. 15]
         /\ replyTo' \in [Packets -> {"none", "msgQue", "errorMsgQue"}]
         /\ sentAs' \in [Packets -> DOMAIN TypeOf \cup {"none"}]
         /\ PacketInv(p)' /\ place'[p] = "heap"
         /\ \A q \in Packets \ {p} : /\ place'[q] = place[q] /\ desc'[q] = desc[q]
                                     /\ replyTo'[q] = replyTo[q] /\ sentAs'[q] = sentAs[q]
<1>1. /\ place' \in [Packets -> {"heap", "client", "server", "msgQue", "errorMsgQue", "dropped"}]
      /\ desc' \in [Packets -> 0 .. 15]
      /\ replyTo' \in [Packets -> {"none", "msgQue", "errorMsgQue"}]
      /\ sentAs' \in [Packets -> DOMAIN TypeOf \cup {"none"}]
      /\ place'[p] = "heap" /\ desc'[p] = 0
      /\ \A q \in Packets \ {p} : /\ place'[q] = place[q] /\ desc'[q] = desc[q]
                                  /\ replyTo'[q] = replyTo[q] /\ sentAs'[q] = sentAs[q]
  BY DEF ToHeap, CmdInv, CmdTypeOK
<1>. QED BY <1>1 DEF PacketInv

\* The calls: a message that may be sent has no status in it.
LEMMA SendKeeps ==
  ASSUME CmdInv, ~ReusesFailed, NEW p \in Packets, NEW op \in Ops,
         Send(op, p) \/ (op \in Internal /\ SendOwn(op, p))
  PROVE  CmdInv'
<1>1. call = NoCall /\ checked' = NoError /\ UNCHANGED wildFrees /\ desc[p] = 0
      /\ place[p] \in {"client", "heap"}
  <2>1. CASE Send(op, p)
    BY <2>1 DEF Send, MayBeSent
  <2>2. CASE op \in Internal /\ SendOwn(op, p)
    BY <2>2 DEF SendOwn, InHeap, CmdInv, PacketInv
  <2>. QED BY <2>1, <2>2
<1>2. CheckedInv' /\ checked' \in [ok : BOOLEAN, packet : Packets \cup {NoPacket}]
  BY <1>1 DEF CheckedInv, NoError
<1>3. NoPacket \notin Packets
  BY RcmCommandsAssumption DEF RcmCommandsAssumption
<1>4. CASE Put(op, p) /\ call' \in {NoCall, [op |-> op, packet |-> p]}
              /\ (call' # NoCall => op \in Waiting)
  <2>1. CmdTypeOK'
    BY <1>1, <1>4, CmdPutIs DEF CmdTypeOK, CmdInv
  <2>2. call' \in Calls \cup {NoCall}
    BY <1>4 DEF Calls
  <2>3. PacketInv(p)' /\ place'[p] = "server" /\ sentAs'[p] = op
    BY <1>1, <1>4, CmdPutIs
  <2>4. CallInv'
    BY <1>4, <2>3, TypeFacts DEF CallInv
  <2>. QED BY <1>1, <1>2, <1>4, <2>1, <2>2, <2>3, <2>4, CmdPutIs, PacketKeeps DEF CmdInv
<1>5. CASE /\ desc' = [desc EXCEPT ![p] = Ored(@, TypeOf[op])] /\ place[p] = "client"
           /\ UNCHANGED <<place, replyTo, sentAs, call>>
  <2>1. desc' = [desc EXCEPT ![p] = TypeOf[op]] /\ TypeOf[op] \in 1 .. 7
    BY <1>1, <1>5, TypeFacts
  <2>2. desc' \in [Packets -> 0 .. 15] /\ \A q \in Packets \ {p} : desc'[q] = desc[q]
    BY <2>1 DEF CmdInv, CmdTypeOK
  <2>3. CmdTypeOK'
    BY <1>1, <1>5, <2>2 DEF CmdInv, CmdTypeOK
  <2>4. PacketInv(p)' /\ CallInv'
    BY <1>1, <1>5 DEF PacketInv, CallInv
  <2>. QED BY <1>1, <1>2, <1>5, <2>2, <2>3, <2>4, PacketKeeps DEF CmdInv
<1>6. CASE Send(op, p)
  BY <1>4, <1>5, <1>6 DEF Send
<1>7. CASE op \in Internal /\ SendOwn(op, p)
  <2>1. Put(op, p) /\ call' = [op |-> op, packet |-> p] /\ op \in Waiting
    BY <1>7, TypeFacts DEF SendOwn
  <2>. QED BY <1>4, <2>1
<1>. QED BY <1>6, <1>7

LEMMA ClientKeeps ==
  ASSUME CmdInv, NEW p \in Packets, AllocPacket(p) \/ FreePacket(p) \/ WaitFor(p)
  PROVE  CmdInv'
<1>1. /\ checked' = NoError /\ call = NoCall /\ UNCHANGED wildFrees
      /\ CheckedInv' /\ checked' \in [ok : BOOLEAN, packet : Packets \cup {NoPacket}]
  <2>1. checked' = NoError /\ call = NoCall /\ UNCHANGED wildFrees
    BY DEF AllocPacket, FreePacket, WaitFor
  <2>. QED BY <2>1 DEF CheckedInv, NoError
<1>2. CASE AllocPacket(p)
  <2>1. place' = [place EXCEPT ![p] = "client"] /\ UNCHANGED <<desc, replyTo, sentAs, call>>
    BY <1>2 DEF AllocPacket
  <2>2. CmdTypeOK' /\ place'[p] = "client" /\ \A q \in Packets \ {p} : place'[q] = place[q]
    BY <1>1, <2>1 DEF CmdInv, CmdTypeOK
  <2>3. PacketInv(p)' /\ CallInv'
    BY <1>1, <2>1, <2>2 DEF PacketInv, CallInv
  <2>. QED BY <1>1, <2>1, <2>2, <2>3, PacketKeeps DEF CmdInv
<1>3. CASE FreePacket(p)
  <2>1. ToHeap(p) /\ UNCHANGED call
    BY <1>3 DEF FreePacket
  <2>2. CmdTypeOK'
    BY <1>1, <2>1, ToHeapIs DEF CmdInv, CmdTypeOK
  <2>3. CallInv'
    BY <1>1, <2>1 DEF CallInv
  <2>. QED BY <1>1, <2>1, <2>2, <2>3, ToHeapIs, PacketKeeps DEF CmdInv
<1>4. CASE WaitFor(p)
  <2>1. call' = [op |-> "waitUntilDone", packet |-> p] /\ UNCHANGED <<place, desc, replyTo, sentAs>>
        /\ sentAs[p] = "execNoWait" /\ place[p] \in {"server", "msgQue"}
    BY <1>4 DEF WaitFor
  <2>2. call' \in Calls /\ CallInv'
    BY <2>1 DEF Calls, CallInv
  <2>3. CmdTypeOK' /\ PacketInv(p)'
    BY <1>1, <2>1 DEF CmdInv, CmdTypeOK, PacketInv
  <2>. QED BY <1>1, <2>1, <2>2, <2>3, PacketKeeps DEF CmdInv
<1>. QED BY <1>2, <1>3, <1>4

\* No message for a call of its own; nothing is sent.
LEMMA SendFailsKeeps ==
  ASSUME CmdInv, NEW op \in Internal, SendFails(op)
  PROVE  CmdInv'
<1>1. /\ checked' = NoError /\ UNCHANGED <<place, desc, replyTo, sentAs, call>>
      /\ wildFrees' \subseteq wildFrees \cup (Internal \ Initialised)
  BY DEF SendFails
<1>2. Internal \ Initialised = {"acquireJobId", "releaseJobId"}
  BY DEF Internal, Initialised
<1>3. CmdTypeOK' /\ wildFrees' \subseteq {"acquireJobId", "releaseJobId"}
  BY <1>1, <1>2 DEF CmdInv, CmdTypeOK, Internal
<1>4. CheckedInv' /\ checked' \in [ok : BOOLEAN, packet : Packets \cup {NoPacket}]
  BY <1>1 DEF CheckedInv, NoError
<1>. QED BY <1>1, <1>3, <1>4 DEF CmdInv, PacketInv, CallInv

\* A reply is taken, or an error.
LEMMA TakeKeeps ==
  ASSUME CmdInv, GetReply \/ CheckForError
  PROVE  CmdInv'
<1>1. CASE GetReply
  <2>1. /\ call # NoCall /\ call' = NoCall /\ UNCHANGED <<checked, wildFrees>>
    BY <1>1 DEF GetReply
  <2>0. PICK p \in Packets : p = call.packet
    BY <2>1 DEF CmdInv, Calls
  <2>2. CallInv' /\ checked.packet = NoPacket /\ CheckedInv'
    BY <2>1 DEF CallInv, CmdInv, CheckedInv
  <2>3. CASE ToHeap(p)
    <3>1. CmdTypeOK'
      BY <2>1, <2>3, ToHeapIs DEF CmdInv, CmdTypeOK
    <3>. QED BY <2>1, <2>2, <2>3, <3>1, ToHeapIs, PacketKeeps DEF CmdInv
  <2>4. CASE place' = [place EXCEPT ![p] = "client"] /\ UNCHANGED <<desc, replyTo, sentAs>>
    <3>1. CmdTypeOK' /\ place'[p] = "client"
          /\ \A q \in Packets \ {p} : place'[q] = place[q]
      BY <2>1, <2>4 DEF CmdInv, CmdTypeOK
    <3>2. PacketInv(p)'
      BY <2>4, <3>1 DEF PacketInv
    <3>. QED BY <2>1, <2>2, <2>4, <3>1, <3>2, PacketKeeps DEF CmdInv
  <2>. QED BY <1>1, <2>0, <2>3, <2>4 DEF GetReply
<1>2. CASE CheckForError
  <2>1. call = NoCall /\ UNCHANGED <<desc, replyTo, sentAs, call, wildFrees>>
    BY <1>2 DEF CheckForError
  <2>2. ASSUME NEW p \in Packets, place[p] = "errorMsgQue",
               place' = [place EXCEPT ![p] = "client"],
               checked' = [ok |-> ToldAsSuccess(desc[p]), packet |-> p]
        PROVE  CmdInv'
    <3>1. CmdTypeOK' /\ place'[p] = "client" /\ \A q \in Packets \ {p} : place'[q] = place[q]
      BY <2>1, <2>2 DEF CmdInv, CmdTypeOK
    <3>2. PacketInv(p)' /\ CallInv'
      BY <2>1, <3>1 DEF PacketInv, CallInv
    <3>3. ToldAsSuccess(desc[p]) \in BOOLEAN
          /\ (ToldAsSuccess(desc[p]) => desc[p] \in {JobNotFound, PoolNotFound})
      BY DEF ToldAsSuccess
    <3>4. CheckedInv' /\ checked' \in [ok : BOOLEAN, packet : Packets \cup {NoPacket}]
      BY <2>1, <2>2, <3>1, <3>3 DEF CheckedInv
    <3>. QED BY <2>1, <3>1, <3>2, <3>4, PacketKeeps DEF CmdInv
  <2>3. ASSUME checked' = NoError, UNCHANGED place PROVE CmdInv'
    <3>1. CheckedInv' /\ checked' \in [ok : BOOLEAN, packet : Packets \cup {NoPacket}]
      BY <2>3 DEF CheckedInv, NoError
    <3>. QED BY <2>1, <2>3, <3>1 DEF CmdInv, CmdTypeOK, PacketInv, CallInv
  <2>. QED BY <1>2, <2>2, <2>3 DEF CheckForError
<1>. QED BY <1>1, <1>2

\* The server knows every type it gets; the status takes the place of the type.
LEMMA ServeKeeps ==
  ASSUME CmdInv, NEW p \in Packets, Serve(p)
  PROVE  CmdInv'
<1>1. place[p] = "server" /\ UNCHANGED <<call, checked, wildFrees>>
  BY DEF Serve
<1>2. sentAs[p] \in Ops /\ desc[p] = TypeOf[sentAs[p]] /\ replyTo[p] = ReplyQueue(sentAs[p])
  BY <1>1 DEF CmdInv, PacketInv
<1>3. checked.packet # p
  BY <1>1, RcmCommandsAssumption DEF CmdInv, CheckedInv, RcmCommandsAssumption
<1>4. ASSUME NEW status \in 0 .. 15, Reply(p, status) PROVE CmdInv'
  <2>1. replyTo[p] \in {"msgQue", "errorMsgQue"} /\ (replyTo[p] = "errorMsgQue" <=> sentAs[p] = "execCmd")
    BY <1>2, TypeFacts
  <2>2. /\ desc' = [desc EXCEPT ![p] = status] /\ place' = [place EXCEPT ![p] = replyTo[p]]
        /\ UNCHANGED <<replyTo, sentAs>>
    BY <1>4 DEF Reply
  <2>3. /\ CmdTypeOK' /\ place'[p] = replyTo[p] /\ sentAs'[p] = sentAs[p]
        /\ \A q \in Packets \ {p} : place'[q] = place[q] /\ desc'[q] = desc[q]
    BY <1>1, <2>1, <2>2 DEF CmdInv, CmdTypeOK
  <2>4. PacketInv(p)'
    BY <2>1, <2>3 DEF PacketInv
  <2>5. CallInv'
    <3>1. call # NoCall => call.packet \in Packets
      BY DEF CmdInv, Calls
    <3>. QED BY <1>1, <2>1, <2>2, <2>3, <3>1 DEF CmdInv, CallInv
  <2>6. CheckedInv'
    BY <1>1, <1>3, <2>3 DEF CmdInv, CheckedInv
  <2>. QED BY <1>1, <2>2, <2>3, <2>4, <2>5, <2>6, PacketKeeps DEF CmdInv
<1>5. ASSUME ProcessPacket(p) PROVE CmdInv'
  <2>1. StatusesOf(desc[p]) # {} /\ StatusesOf(desc[p]) \subseteq 0 .. 15
    BY <1>2, TypeFacts
  <2>. QED BY <1>4, <1>5, <2>1 DEF ProcessPacket
<1>6. ASSUME desc[p] = TypeOf.execCmd, ToHeap(p) PROVE CmdInv'
  <2>1. sentAs[p] = "execCmd"
    BY <1>2, <1>6, TypeFacts
  <2>2. CmdTypeOK'
    BY <1>1, <1>6, ToHeapIs DEF CmdInv, CmdTypeOK
  <2>3. CallInv' /\ CheckedInv'
    <3>1. call # NoCall => call.packet \in Packets \ {p}
      BY <2>1 DEF CmdInv, Calls, CallInv
    <3>. QED BY <1>1, <1>3, <1>6, <3>1, ToHeapIs DEF CmdInv, CallInv, CheckedInv
  <2>. QED BY <1>1, <1>6, <2>2, <2>3, ToHeapIs, PacketKeeps DEF CmdInv
<1>7. ASSUME NEW status \in Rejections, Reply(p, status) PROVE CmdInv'
  <2>1. Rejections \subseteq 0 .. 15
    BY DEF Rejections, JobNotFound, PoolNotFound
  <2>. QED BY <1>4, <1>7, <2>1
<1>. QED BY <1>5, <1>6, <1>7 DEF Serve

\* A careful client, one that sends a message again only if it has come back with no
\* status: its messages are taken for what its calls say, replies and errors get to
\* where they are waited for, and no error is told as success but two.
THEOREM CommandsTheorem ==
  ASSUME ~ReusesFailed
  PROVE  CmdSpec => []CommandsAreSound
<1>1. CmdInit => CmdInv
  BY CommandsStart
<1>2. CmdInv /\ [CmdNext]_cmdVars => CmdInv'
  <2>1. ASSUME CmdInv, CmdNext PROVE CmdInv'
    <3>1. {"exec", "execDpc", "execNoWait", "execCmd"} \subseteq Ops /\ Internal \subseteq Ops
      BY TypeFacts
    <3>2. \A op \in {"getSymbolIndex", "acquireJobId", "releaseJobId"} : op \in Internal
      BY DEF Internal
    <3>3. ASSUME NEW op \in Internal, OwnCall(op) PROVE CmdInv'
      BY <2>1, <3>1, <3>3, SendKeeps, SendFailsKeeps DEF OwnCall
    <3>4. CASE GetSymbolIndex \/ AcquireJobId \/ ReleaseJobId
      BY <3>2, <3>3, <3>4 DEF GetSymbolIndex, AcquireJobId, ReleaseJobId
    <3>5. ASSUME NEW p \in Packets, Exec(p) \/ ExecDpc(p) \/ ExecNoWait(p) \/ ExecCmd(p)
          PROVE  CmdInv'
      BY <2>1, <3>1, <3>5, SendKeeps DEF Exec, ExecDpc, ExecNoWait, ExecCmd
    <3>. QED BY <2>1, <3>4, <3>5, ClientKeeps, TakeKeeps, ServeKeeps DEF CmdNext, ServeSome
  <2>2. ASSUME CmdInv, UNCHANGED cmdVars PROVE CmdInv'
    BY <2>2 DEF cmdVars, CmdInv, CmdTypeOK, PacketInv, CallInv, CheckedInv
  <2>. QED BY <2>1, <2>2
<1>3. CmdInv => CommandsAreSound
  BY DEF CmdInv, PacketInv, CallInv, CheckedInv, CommandsAreSound, ReceivedAsSent,
         RepliesAreExpected, ErrorsAreTold
<1>. QED BY <1>1, <1>2, <1>3, PTL DEF CmdSpec

=============================================================================
