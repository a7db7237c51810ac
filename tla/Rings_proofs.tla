---------------------------- MODULE Rings_proofs ----------------------------
(***************************************************************************)
(* Proofs about the two virtqueues of the transport: the rings, read       *)
(* through indices that wrap, are the two lists of Vring, and every buffer *)
(* has one owner; the senders to the host have a buffer each.              *)
(***************************************************************************)
EXTENDS MCRings, Integers, TLAPS, FiniteSetTheorems

-----------------------------------------------------------------------------
(* Remainders.  A quotient and a remainder determine one another.          *)

LEMMA ModDiv ==
  ASSUME NEW a \in Int, NEW n \in Nat \ {0}
  PROVE  /\ a \div n \in Int
         /\ a % n \in 0 .. n - 1
         /\ a = n * (a \div n) + (a % n)
OBVIOUS

LEMMA ModUnique ==
  ASSUME NEW a \in Int, NEW n \in Nat \ {0}, NEW q \in Int, NEW r \in 0 .. n - 1,
         a = n * q + r
  PROVE  a % n = r
OBVIOUS

LEMMA SmallMultiple ==
  ASSUME NEW n \in Nat \ {0}, NEW x \in Int, n * x < n, -n < n * x
  PROVE  x = 0
OBVIOUS

\* Two numbers less than n apart have different remainders.
LEMMA ModApart ==
  ASSUME NEW n \in Nat \ {0}, NEW a \in Int, NEW d \in 1 .. n - 1
  PROVE  (a + d) % n # a % n
<1>1. SUFFICES ASSUME (a + d) % n = a % n PROVE FALSE
  OBVIOUS
<1> DEFINE q == a \div n
           p == (a + d) \div n
<1>2. q \in Int /\ p \in Int /\ a % n \in 0 .. n - 1
  BY ModDiv, a + d \in Int
<1>3. a = n * q + (a % n) /\ a + d = n * p + (a % n)
  BY <1>1, ModDiv, a + d \in Int
<1> HIDE DEF q, p
<1>4. n * (p - q) = n * p - n * q
  BY <1>2
<1>5. n * p \in Int /\ n * q \in Int /\ n * (p - q) \in Int
  BY <1>2
<1>6. n * (p - q) = d
  BY <1>2, <1>3, <1>4, <1>5
<1>7. p - q = 0
  BY <1>2, <1>6, SmallMultiple
<1>8. n * (p - q) = 0
  BY <1>7
<1>. QED BY <1>6, <1>8

\* The ring size divides the range of the indices: a slot does not move when
\* the index comes round.
LEMMA SlotWraps ==
  ASSUME NEW a \in Int
  PROVE  (a + IdxMod) % Num = a % Num
<1> USE VirtQueueAssumption DEF VirtQueueAssumption
<1> DEFINE k == IdxMod \div Num
           q == a \div Num
           r == a % Num
<1>1. k \in Int /\ IdxMod = Num * k
  BY ModDiv, IdxMod \in Int
<1>2. q \in Int /\ r \in 0 .. Num - 1 /\ a = Num * q + r
  BY ModDiv
<1> HIDE DEF k, q, r
<1>3. Num * (q + k) = Num * q + Num * k
  BY <1>1, <1>2
<1>4. Num * q \in Int /\ Num * k \in Int /\ q + k \in Int
  BY <1>1, <1>2
<1>5. a + IdxMod = Num * (q + k) + r
  BY <1>1, <1>2, <1>3, <1>4
<1>6. (a + IdxMod) % Num = r
  BY <1>2, <1>4, <1>5, ModUnique, a + IdxMod \in Int
<1>. QED BY <1>6 DEF r

Indices == 0 .. IdxMod - 1

LEMMA Sizes ==
  /\ Num \in Nat \ {0}
  /\ IdxMod \in Nat /\ IdxMod > Num
  /\ FifoDepth \in Nat \ {0}
BY VirtQueueAssumption DEF VirtQueueAssumption

LEMMA SlotInRing ==
  ASSUME NEW a \in Int
  PROVE  a % Num \in Heads
BY ModDiv, VirtQueueAssumption DEF VirtQueueAssumption, Heads

\* The index after another, and the number of steps between two of them.
LEMMA IncIs ==
  ASSUME NEW i \in Indices
  PROVE  /\ Inc(i) = IF i = IdxMod - 1 THEN 0 ELSE i + 1
         /\ Inc(i) \in Indices
<1> USE VirtQueueAssumption DEF VirtQueueAssumption, Indices
<1>1. CASE i = IdxMod - 1
  <2>1. i + 1 = IdxMod * 1 + 0 /\ i + 1 \in Int /\ 0 \in 0 .. IdxMod - 1 /\ IdxMod \in Nat \ {0}
    BY <1>1
  <2>2. (i + 1) % IdxMod = 0
    BY <2>1, ModUnique
  <2>. QED BY <1>1, <2>2 DEF Inc
<1>2. CASE i # IdxMod - 1
  <2>1. i + 1 = IdxMod * 0 + (i + 1) /\ i + 1 \in 0 .. IdxMod - 1 /\ IdxMod \in Nat \ {0}
    BY <1>2
  <2>2. (i + 1) % IdxMod = i + 1
    BY <2>1, ModUnique
  <2>. QED BY <1>2, <2>1, <2>2 DEF Inc
<1>. QED BY <1>1, <1>2

LEMMA DistIs ==
  ASSUME NEW from \in Indices, NEW to \in Indices
  PROVE  /\ Dist(from, to) = IF from <= to THEN to - from ELSE to + IdxMod - from
         /\ Dist(from, to) \in Indices
<1> USE VirtQueueAssumption DEF VirtQueueAssumption, Indices
<1>0. to + IdxMod - from \in Int /\ IdxMod \in Nat \ {0}
  OBVIOUS
<1>1. CASE from <= to
  <2>1. to + IdxMod - from = IdxMod * 1 + (to - from) /\ to - from \in 0 .. IdxMod - 1
    BY <1>1
  <2>2. (to + IdxMod - from) % IdxMod = to - from
    BY <1>0, <2>1, ModUnique
  <2>. QED BY <1>1, <2>1, <2>2 DEF Dist
<1>2. CASE to < from
  <2>1. /\ to + IdxMod - from = IdxMod * 0 + (to + IdxMod - from)
        /\ to + IdxMod - from \in 0 .. IdxMod - 1
    BY <1>2
  <2>2. (to + IdxMod - from) % IdxMod = to + IdxMod - from
    BY <1>0, <2>1, ModUnique
  <2>. QED BY <1>2, <2>1, <2>2 DEF Dist
<1>. QED BY <1>1, <1>2

\* Publishing makes the list longer, taking makes it shorter.
LEMMA DistSteps ==
  ASSUME NEW from \in Indices, NEW to \in Indices
  PROVE  /\ Dist(from, to) = 0 <=> from = to
         /\ Dist(from, to) < Num => Dist(from, Inc(to)) = Dist(from, to) + 1
         /\ from # to => Dist(Inc(from), to) = Dist(from, to) - 1
<1>1. /\ Inc(to) = IF to = IdxMod - 1 THEN 0 ELSE to + 1
      /\ Inc(from) = IF from = IdxMod - 1 THEN 0 ELSE from + 1
      /\ Inc(from) \in Indices /\ Inc(to) \in Indices
  BY IncIs
<1>2. /\ Dist(from, to) = IF from <= to THEN to - from ELSE to + IdxMod - from
      /\ Dist(from, Inc(to)) = IF from <= Inc(to) THEN Inc(to) - from
                                                  ELSE Inc(to) + IdxMod - from
      /\ Dist(Inc(from), to) = IF Inc(from) <= to THEN to - Inc(from)
                                                  ELSE to + IdxMod - Inc(from)
  BY <1>1, DistIs
<1>. QED BY <1>1, <1>2, VirtQueueAssumption DEF VirtQueueAssumption, Indices

-----------------------------------------------------------------------------
(* The window of a ring between two indices. *)

LEMMA WindowIs ==
  ASSUME NEW ring \in [Heads -> Heads], NEW from \in Indices, NEW to \in Indices
  PROVE  /\ Window(ring, from, to) \in Seq(Heads)
         /\ Len(Window(ring, from, to)) = Dist(from, to)
         /\ DOMAIN Window(ring, from, to) = 1 .. Dist(from, to)
         /\ Dist(from, to) \in Nat
         /\ \A i \in 1 .. Dist(from, to) :
              /\ Window(ring, from, to)[i] = ring[(from + i - 1) % Num]
              /\ (from + i - 1) % Num \in Heads
<1> DEFINE n == Dist(from, to)
           w == Window(ring, from, to)
<1>1. n \in Nat
  BY DistIs DEF Indices
<1>2. \A i \in 1 .. n : (from + i - 1) % Num \in Heads
  BY <1>1, SlotInRing DEF Indices
<1>3. w = [i \in 1 .. n |-> ring[(from + i - 1) % Num]]
  BY DEF Window
<1> HIDE DEF n, w
<1>4. /\ w \in [1 .. n -> Heads]
      /\ \A i \in 1 .. n : w[i] = ring[(from + i - 1) % Num]
  BY <1>2, <1>3
<1>5. w \in Seq(Heads) /\ DOMAIN w = 1 .. n /\ Len(w) = n
  BY <1>1, <1>4
<1>. QED BY <1>1, <1>2, <1>4, <1>5 DEF n, w

\* A list that names no head twice, and lacks one, is shorter than the ring.
LEMMA WindowHasRoom ==
  ASSUME NEW ring \in [Heads -> Heads], NEW from \in Indices, NEW to \in Indices,
         NEW h \in Heads,
         Lists!Distinct(Window(ring, from, to)),
         h \notin Lists!Elements(Window(ring, from, to))
  PROVE  Dist(from, to) < Num
<1> DEFINE n == Dist(from, to)
           w == Window(ring, from, to)
<1>1. /\ n \in Nat /\ DOMAIN w = 1 .. n /\ Len(w) = n /\ w \in Seq(Heads)
  BY WindowIs
<1> HIDE DEF n, w
<1>2. \A i \in 1 .. n : w[i] \in Heads \ {h}
  <2>1. \A i \in 1 .. n : w[i] # h
    BY <1>1 DEF Lists!Elements, w
  <2>. QED BY <1>1, <2>1
<1>3. w \in [1 .. n -> Heads \ {h}]
  BY <1>1, <1>2
<1>4. IsFiniteSet(Heads) /\ Cardinality(Heads) = Num
  <2>1. 0 \in Int /\ Num - 1 \in Int /\ ~(0 > Num - 1) /\ Num - 1 - 0 + 1 = Num
    BY VirtQueueAssumption DEF VirtQueueAssumption
  <2>. QED BY <2>1, FS_Interval DEF Heads
<1>5. IsFiniteSet(Heads \ {h}) /\ Cardinality(Heads \ {h}) = Num - 1
  BY <1>4, FS_RemoveElement
<1>6. IsFiniteSet(1 .. n) /\ Cardinality(1 .. n) = n
  <2>1. 1 \in Int /\ n \in Int /\ (1 > n => n = 0) /\ n - 1 + 1 = n
    BY <1>1
  <2>. QED BY <2>1, FS_Interval
<1>7. \A i, j \in 1 .. n : w[i] = w[j] => i = j
  BY <1>1 DEF Lists!Distinct, w
<1>8. ASSUME ~(n < Num) PROVE FALSE
  <2>1. Cardinality(Heads \ {h}) < Cardinality(1 .. n)
    BY <1>1, <1>5, <1>6, <1>8, Sizes
  <2>2. \E i, j \in 1 .. n : i # j /\ w[i] = w[j]
    BY <1>3, <1>5, <1>6, <2>1, FS_PigeonHole
  <2>. QED BY <1>7, <2>2
<1>. QED BY <1>8 DEF n

\* An element written past the end of a list with room does not fall into it.
LEMMA WriteIsOutside ==
  ASSUME NEW ring \in [Heads -> Heads], NEW from \in Indices, NEW to \in Indices,
         NEW h \in Heads, Dist(from, to) < Num
  PROVE  /\ Window([ring EXCEPT ![to % Num] = h], from, to) = Window(ring, from, to)
         /\ to % Num = (from + Dist(from, to)) % Num
<1> DEFINE n == Dist(from, to)
           new == [ring EXCEPT ![to % Num] = h]
<1>1. n \in Nat /\ n < Num /\ from \in Int /\ to \in Int /\ from + n \in Int
  BY DistIs, Sizes DEF Indices
<1>2. to % Num = (from + n) % Num
  <2>1. from + n = to \/ from + n = to + IdxMod
    <3>1. n = IF from <= to THEN to - from ELSE to + IdxMod - from
      BY DistIs
    <3>. QED BY <3>1, <1>1, Sizes DEF Indices
  <2>. QED BY <2>1, <1>1, SlotWraps
<1> HIDE DEF n
<1>3. ASSUME NEW i \in 1 .. n
      PROVE  new[(from + i - 1) % Num] = ring[(from + i - 1) % Num]
  <2>1. /\ from + i - 1 \in Int /\ n - i + 1 \in 1 .. Num - 1
        /\ (from + i - 1) + (n - i + 1) = from + n
    BY <1>1, Sizes
  <2>2. (from + n) % Num # (from + i - 1) % Num
    BY <2>1, ModApart, VirtQueueAssumption DEF VirtQueueAssumption
  <2>3. (from + i - 1) % Num \in Heads /\ to % Num \in Heads
    BY <1>1, <2>1, SlotInRing
  <2>. QED BY <1>2, <2>2, <2>3
<1>4. Window(new, from, to) = Window(ring, from, to)
  BY <1>3 DEF Window, n
<1>. QED BY <1>2, <1>4 DEF n

\* Advancing the second index appends the element that lies there.
LEMMA PublishAppends ==
  ASSUME NEW ring \in [Heads -> Heads], NEW from \in Indices, NEW to \in Indices,
         Dist(from, to) < Num
  PROVE  Window(ring, from, Inc(to)) = Append(Window(ring, from, to), ring[to % Num])
<1> DEFINE n == Dist(from, to)
           w == Window(ring, from, to)
           v == Window(ring, from, Inc(to))
<1>1. Inc(to) \in Indices /\ Dist(from, Inc(to)) = n + 1
  BY IncIs, DistSteps
<1>2. /\ n \in Nat /\ w \in Seq(Heads) /\ Len(w) = n
      /\ \A i \in 1 .. n : w[i] = ring[(from + i - 1) % Num]
  BY WindowIs
<1>4. ring[to % Num] = ring[(from + n) % Num] /\ ring[to % Num] \in Heads
  <2>1. to \in Int
    BY DEF Indices
  <2>2. to % Num \in Heads
    BY <2>1, SlotInRing
  <2>. QED BY <2>2, WriteIsOutside
<1>3. /\ v \in Seq(Heads) /\ Len(v) = n + 1
      /\ \A i \in 1 .. n + 1 : v[i] = ring[(from + i - 1) % Num]
  <2>1. /\ v \in Seq(Heads) /\ Len(v) = Dist(from, Inc(to))
        /\ \A i \in 1 .. Dist(from, Inc(to)) : v[i] = ring[(from + i - 1) % Num]
    BY <1>1, WindowIs
  <2>. QED BY <1>1, <2>1
<1> HIDE DEF n, w, v
<1>5. from + (n + 1) - 1 = from + n /\ n + 1 \in 1 .. n + 1
  BY <1>2 DEF Indices
<1>6. v[n + 1] = ring[to % Num]
  BY <1>3, <1>4, <1>5
<1>7. \A i \in 1 .. n : v[i] = w[i]
  BY <1>2, <1>3
<1>8. v = Append(w, ring[to % Num])
  BY <1>2, <1>3, <1>4, <1>6, <1>7
<1>. QED BY <1>8 DEF w, v

\* Advancing the first index takes the element that lies there.
LEMMA TakeIsTail ==
  ASSUME NEW ring \in [Heads -> Heads], NEW from \in Indices, NEW to \in Indices,
         from # to
  PROVE  /\ Window(ring, from, to) # <<>>
         /\ Head(Window(ring, from, to)) = ring[from % Num]
         /\ Window(ring, Inc(from), to) = Tail(Window(ring, from, to))
<1> DEFINE n == Dist(from, to)
           w == Window(ring, from, to)
           v == Window(ring, Inc(from), to)
<1>1. Inc(from) \in Indices /\ Dist(Inc(from), to) = n - 1 /\ n # 0
  BY IncIs, DistSteps
<1>2. /\ n \in Nat /\ w \in Seq(Heads) /\ Len(w) = n
      /\ \A i \in 1 .. n : w[i] = ring[(from + i - 1) % Num]
  BY WindowIs
<1>3. /\ v \in Seq(Heads) /\ Len(v) = n - 1
      /\ \A i \in 1 .. n - 1 : v[i] = ring[(Inc(from) + i - 1) % Num]
  <2>1. /\ v \in Seq(Heads) /\ Len(v) = Dist(Inc(from), to)
        /\ \A i \in 1 .. Dist(Inc(from), to) : v[i] = ring[(Inc(from) + i - 1) % Num]
    BY <1>1, WindowIs
  <2>. QED BY <1>1, <2>1
<1> HIDE DEF n, w, v
<1>4. ASSUME NEW i \in 1 .. n - 1 PROVE v[i] = w[i + 1]
  <2>1. /\ Inc(from) + i - 1 \in Int /\ i + 1 \in 1 .. n
        /\ \/ from + (i + 1) - 1 = Inc(from) + i - 1
           \/ from + (i + 1) - 1 = (Inc(from) + i - 1) + IdxMod
    <3>1. Inc(from) = IF from = IdxMod - 1 THEN 0 ELSE from + 1
      BY IncIs
    <3>. QED BY <3>1, <1>2, Sizes DEF Indices
  <2>2. (from + (i + 1) - 1) % Num = (Inc(from) + i - 1) % Num
    BY <2>1, SlotWraps
  <2>. QED BY <1>2, <1>3, <2>1, <2>2
<1>5. w # <<>> /\ Head(w) = w[1] /\ Tail(w) \in Seq(Heads) /\ Len(Tail(w)) = n - 1
  BY <1>1, <1>2
<1>6. \A i \in 1 .. n - 1 : Tail(w)[i] = w[i + 1]
  BY <1>1, <1>2
<1>7. v = Tail(w)
  BY <1>1, <1>2, <1>3, <1>4, <1>5, <1>6
<1>8. w[1] = ring[from % Num]
  <2>1. from + 1 - 1 = from /\ 1 \in 1 .. n
    BY <1>1, <1>2 DEF Indices
  <2>. QED BY <1>2, <2>1
<1>. QED BY <1>5, <1>7, <1>8 DEF v, w

-----------------------------------------------------------------------------
(* One virtqueue: the core and the host, and the lists between them.       *)

\* What an element of the used ring that is being written names is no longer
\* held as a token: that is what makes its publication a step of Vring.
RingInv ==
  /\ TypeOK
  /\ OneOwner
  /\ InCall \cap held = {}

CoreOrHost ==
  \/ \E h \in Heads : GetAvailBuf(h) \/ AddUsedBufFill(h) \/ HostAddAvail(h)
  \/ GetAvailBufEmpty \/ ClearNoNotify \/ AddUsedBufPublish
  \/ Kick \/ IntSend \/ Isr
  \/ HostKick \/ HostPoll

\* The abstract state.
avail == Window(availRing, lastAvailIdx, availIdx)
used == Window(usedRing, lastUsedIdx, usedIdx)
out == held \cup InCall

LEMMA ListsNext ==
  /\ \A h \in Heads : /\ hostFree' = hostFree \ {h} /\ h \in hostFree
                      /\ avail' = Append(avail, h) /\ used' = used /\ out' = out
                      => Lists!Next
  /\ \A h \in Heads : /\ out' = out \ {h} /\ h \in out
                      /\ used' = Append(used, h)
                      /\ hostFree' = hostFree /\ avail' = avail
                      => Lists!Next
  /\ /\ avail # <<>> /\ out' = out \cup {Head(avail)} /\ avail' = Tail(avail)
     /\ hostFree' = hostFree /\ used' = used
     => Lists!Next
  /\ /\ used # <<>> /\ hostFree' = hostFree \cup {Head(used)} /\ used' = Tail(used)
     /\ avail' = avail /\ out' = out
     => Lists!Next
  /\ hostFree' = hostFree /\ avail' = avail /\ used' = used /\ out' = out
     => UNCHANGED Lists!vars
BY DEF Lists!Next, Lists!Offer, Lists!Return, Lists!Take, Lists!Collect, Lists!vars,
       avail, used, out

\* What the types say of the lists.
LEMMA ListsTyped ==
  ASSUME TypeOK
  PROVE  /\ availIdx \in Indices /\ lastAvailIdx \in Indices
         /\ usedIdx \in Indices /\ lastUsedIdx \in Indices
         /\ availIdx % Num \in Heads /\ usedIdx % Num \in Heads
         /\ lastAvailIdx % Num \in Heads /\ lastUsedIdx % Num \in Heads
         /\ availRing \in [Heads -> Heads] /\ usedRing \in [Heads -> Heads]
         /\ avail \in Seq(Heads) /\ used \in Seq(Heads)
         /\ out \subseteq Heads
         /\ Lists!TypeOK
<1>1. /\ availIdx \in Indices /\ lastAvailIdx \in Indices
      /\ usedIdx \in Indices /\ lastUsedIdx \in Indices
      /\ availRing \in [Heads -> Heads] /\ usedRing \in [Heads -> Heads]
      /\ held \subseteq Heads /\ hostFree \subseteq Heads
  BY DEF TypeOK, Indices
<1>2. /\ availIdx % Num \in Heads /\ usedIdx % Num \in Heads
      /\ lastAvailIdx % Num \in Heads /\ lastUsedIdx % Num \in Heads
  <2>1. \A i \in Indices : i \in Int
    BY DEF Indices
  <2>. QED BY <1>1, <2>1, SlotInRing
<1>3. avail \in Seq(Heads) /\ used \in Seq(Heads)
  BY <1>1, WindowIs DEF avail, used
<1>4. out \subseteq Heads
  BY <1>1, <1>2 DEF out, InCall
<1>5. Lists!TypeOK
  BY <1>1, <1>3, <1>4 DEF Lists!TypeOK, avail, used, out
<1>. QED BY <1>1, <1>2, <1>3, <1>4, <1>5

LEMMA TakeMaps ==
  ASSUME RingInv, which' = which, NEW h \in Heads, GetAvailBuf(h)
  PROVE  TypeOK' /\ (InCall \cap held = {})' /\ Lists!Next
<1> USE DEF GetAvailBuf, TakeHead, sharedVars, hostVars, RingInv
<1>1. /\ avail # <<>> /\ Head(avail) = h /\ avail' = Tail(avail)
  BY ListsTyped, TakeIsTail DEF avail
<1>2. InCall = {} /\ InCall' = {}
  BY DEF InCall
<1>3. used' = used
  BY DEF used
<1>4. out' = out \cup {h}
  BY <1>2 DEF out
<1>5. Lists!Next
  BY <1>1, <1>3, <1>4, ListsNext
<1>6. TypeOK'
  BY ListsTyped, IncIs DEF TypeOK, Indices
<1>. QED BY <1>2, <1>5, <1>6

LEMMA FillMaps ==
  ASSUME RingInv, which' = which, NEW h \in Heads, AddUsedBufFill(h)
  PROVE  TypeOK' /\ (InCall \cap held = {})' /\ UNCHANGED Lists!vars
<1> USE DEF AddUsedBufFill, FillUsedElem, hostVars, RingInv
<1>1. Lists!Distinct(used) /\ h \notin Lists!Elements(used)
  BY DEF OneOwner, Lists!OneOwner, used
<1>2. Dist(lastUsedIdx, usedIdx) < Num
  BY <1>1, ListsTyped, WindowHasRoom DEF used
<1>3. used' = used
  <2>1. Window([usedRing EXCEPT ![usedIdx % Num] = h], lastUsedIdx, usedIdx)
          = Window(usedRing, lastUsedIdx, usedIdx)
    <3>1. /\ usedRing \in [Heads -> Heads]
          /\ lastUsedIdx \in Indices /\ usedIdx \in Indices
      BY ListsTyped
    <3>. QED BY <1>2, <3>1, WriteIsOutside
  <2>. QED BY <2>1 DEF used
<1>4. avail' = avail /\ hostFree' = hostFree
  BY DEF avail
<1>5. InCall = {} /\ InCall' = {h}
  BY ListsTyped DEF InCall
<1>6. out' = out /\ h \notin held'
  BY <1>5 DEF out
<1>7. UNCHANGED Lists!vars
  BY <1>3, <1>4, <1>6, ListsNext
<1>8. TypeOK'
  BY ListsTyped DEF TypeOK
<1>. QED BY <1>5, <1>6, <1>7, <1>8

LEMMA PublishMaps ==
  ASSUME RingInv, which' = which, AddUsedBufPublish
  PROVE  TypeOK' /\ (InCall \cap held = {})' /\ Lists!Next
<1> USE DEF AddUsedBufPublish, hostVars, RingInv
<1> DEFINE h == usedRing[usedIdx % Num]
<1>1. InCall = {h} /\ InCall' = {} /\ h \in Heads
  BY ListsTyped DEF InCall
<1>2. Lists!Distinct(used) /\ h \notin Lists!Elements(used)
  BY <1>1 DEF OneOwner, Lists!OneOwner, used
<1>3. Dist(lastUsedIdx, usedIdx) < Num
  BY <1>1, <1>2, ListsTyped, WindowHasRoom DEF used
<1>4. used' = Append(used, h)
  BY <1>3, ListsTyped, PublishAppends DEF used
<1>5. avail' = avail /\ hostFree' = hostFree
  BY DEF avail
<1>6. h \in out /\ out' = out \ {h}
  BY <1>1 DEF out
<1>7. Lists!Next
  BY <1>1, <1>4, <1>5, <1>6, ListsNext
<1>8. TypeOK'
  BY ListsTyped, IncIs DEF TypeOK, Indices
<1>. QED BY <1>1, <1>7, <1>8

LEMMA OfferMaps ==
  ASSUME RingInv, which' = which, NEW h \in Heads, HostAddAvail(h)
  PROVE  TypeOK' /\ (InCall \cap held = {})' /\ Lists!Next
<1> USE DEF HostAddAvail, coreVars, RingInv
<1>1. Lists!Distinct(avail) /\ h \notin Lists!Elements(avail)
  BY DEF OneOwner, Lists!OneOwner, avail
<1>2. Dist(lastAvailIdx, availIdx) < Num
  BY <1>1, ListsTyped, WindowHasRoom DEF avail
<1>3. Window(availRing', lastAvailIdx, availIdx) = avail
  <2>1. Window([availRing EXCEPT ![availIdx % Num] = h], lastAvailIdx, availIdx)
          = Window(availRing, lastAvailIdx, availIdx)
    <3>1. /\ availRing \in [Heads -> Heads]
          /\ lastAvailIdx \in Indices /\ availIdx \in Indices
      BY ListsTyped
    <3>. QED BY <1>2, <3>1, WriteIsOutside
  <2>. QED BY <2>1 DEF avail
<1>4. availRing' \in [Heads -> Heads] /\ availRing'[availIdx % Num] = h
  BY ListsTyped
<1>5. avail' = Append(avail, h)
  <2>1. Window(availRing', lastAvailIdx, Inc(availIdx))
          = Append(Window(availRing', lastAvailIdx, availIdx), h)
    BY <1>2, <1>4, ListsTyped, PublishAppends
  <2>. QED BY <1>3, <2>1 DEF avail
<1>6. used' = used /\ InCall' = InCall /\ out' = out
  BY DEF used, InCall, out
<1>7. Lists!Next
  BY <1>5, <1>6, ListsNext
<1>8. TypeOK'
  <2>1. availIdx' \in 0 .. IdxMod - 1
    BY ListsTyped, IncIs DEF Indices
  <2>. QED BY <1>4, <2>1 DEF TypeOK
<1>. QED BY <1>6, <1>7, <1>8

LEMMA CollectMaps ==
  ASSUME RingInv, which' = which, HostGetUsed
  PROVE  TypeOK' /\ (InCall \cap held = {})' /\ Lists!Next
<1> USE DEF HostGetUsed, sharedVars, coreVars, RingInv
<1>1. /\ used # <<>> /\ Head(used) = usedRing[lastUsedIdx % Num]
      /\ used' = Tail(used)
  BY ListsTyped, TakeIsTail DEF used
<1>2. avail' = avail /\ InCall' = InCall /\ out' = out
  BY DEF avail, InCall, out
<1>3. Lists!Next
  BY <1>1, <1>2, ListsNext
<1>4. TypeOK'
  BY ListsTyped, IncIs DEF TypeOK, Indices
<1>. QED BY <1>2, <1>3, <1>4

\* The steps that read or write flags and mailboxes only.
LEMMA OthersMap ==
  ASSUME RingInv, which' = which,
         \/ GetAvailBufEmpty \/ ClearNoNotify \/ Kick \/ IntSend \/ Isr
         \/ HostKick \/ HostIsr \/ HostEnable \/ HostRecheck
         \/ UNCHANGED vars
  PROVE  TypeOK' /\ (InCall \cap held = {})' /\ UNCHANGED Lists!vars
<1> USE DEF GetAvailBufEmpty, ClearNoNotify, Kick, KickUnless, IntSend, Isr,
            HostKick, HostIsr, HostEnable, HostRecheck,
            vars, sharedVars, coreVars, hostVars, RingInv
<1>1. /\ availRing' = availRing /\ availIdx' = availIdx /\ lastAvailIdx' = lastAvailIdx
      /\ usedRing' = usedRing /\ usedIdx' = usedIdx /\ lastUsedIdx' = lastUsedIdx
      /\ held' = held /\ hostFree' = hostFree
      /\ corePc' = "written" <=> corePc = "written"
  OBVIOUS
<1>2. avail' = avail /\ used' = used /\ InCall' = InCall /\ out' = out
  BY <1>1 DEF avail, used, InCall, out
<1>3. UNCHANGED Lists!vars
  BY <1>1, <1>2, ListsNext
<1>4. {mboxHost', mboxCore'} \subseteq 0 .. FifoDepth
  BY Sizes DEF TypeOK
<1>5. TypeOK'
  BY <1>1, <1>4 DEF TypeOK
<1>. QED BY <1>1, <1>2, <1>3, <1>5

\* Every step of a ring is a step of Vring or changes nothing there, and the
\* buffers keep one owner.
LEMMA RingSteps ==
  ASSUME RingInv, which' = which, CoreOrHost \/ UNCHANGED vars
  PROVE  RingInv' /\ [Lists!Next]_Lists!vars
<1>1. TypeOK' /\ (InCall \cap held = {})' /\ [Lists!Next]_Lists!vars
  BY TakeMaps, FillMaps, PublishMaps, OfferMaps, CollectMaps, OthersMap
     DEF CoreOrHost, HostPoll
<1>2. Lists!OneOwner'
  BY <1>1, ListsTyped, Lists!StepKeepsOwners DEF RingInv, OneOwner
<1>. QED BY <1>1, <1>2 DEF RingInv, OneOwner

-----------------------------------------------------------------------------
(* The two virtqueues with the code that uses them.                        *)

LEMMA RingStarts ==
  ASSUME NEW ring, Starts(ring)
  PROVE  RingInv /\ RxTypeOK /\ Lists!Init
<1>1. TypeOK
  <2>1. Init
    BY DEF Starts
  <2>2. /\ {availIdx, usedIdx, lastAvailIdx, lastUsedIdx} \subseteq 0 .. IdxMod - 1
        /\ availRing \in [Heads -> Heads] /\ usedRing \in [Heads -> Heads]
        /\ {mboxHost, mboxCore} \subseteq 0 .. FifoDepth
    BY <2>1, Sizes DEF Init, Heads
  <2>3. {noInterrupt, noNotify, kickDue} \subseteq BOOLEAN
    BY <2>1 DEF Init
  <2>. QED BY <2>1, <2>2, <2>3 DEF Init, TypeOK
<1>2. Dist(0, 0) = 0 /\ 0 \in Indices
  BY DistIs, Sizes DEF Indices
<1>3. avail = <<>> /\ used = <<>> /\ InCall = {}
  BY <1>1, <1>2, ListsTyped, WindowIs DEF Starts, Init, avail, used, InCall
<1>4. Lists!Init
  BY <1>3 DEF Lists!Init, Starts, Init, avail, used
<1>5. OneOwner
  BY <1>4 DEF OneOwner, Lists!OneOwner, Lists!Init, Lists!Elements, Lists!Distinct
<1>6. RxTypeOK
  <2>1. swiPosted \in BOOLEAN /\ waiting \in BOOLEAN
    BY DEF Starts, RxInit
  <2>2. semCount \in 0 .. HeapBlocks
    BY RxPathAssumption DEF RxPathAssumption, Starts, RxInit
  <2>. QED BY <2>1, <2>2 DEF Starts, RxInit, RxTypeOK
<1>. QED BY <1>1, <1>3, <1>4, <1>5, <1>6 DEF RingInv

\* The users of the rings go through the calls of VirtQueue.
LEMMA UsersCallVirtQueue ==
  ASSUME TypeOK, [RingsNext]_ringVars
  PROVE  which' = which /\ (CoreOrHost \/ UNCHANGED vars)
<1>1. CASE RxNext /\ UNCHANGED <<which, txVars>>
  BY <1>1
     DEF RxNext, RecvCall, RecvPosting, RecvReturn, RecvTimeout, SwiStep, SwiBegin,
         SwiTake, SwiDeliver, Deliver, SwiPublish, SwiFindsNone, SwiClear, SwiKick,
         SwiNoKick, SwiIntSend, AvailBufReady, IsrThen, CoreOrHost
<1>2. CASE TxNext /\ UNCHANGED <<which, rxVars>>
  <2>1. ASSUME NEW s \in Senders, SendFill(s) PROVE CoreOrHost
    <3>1. token[s] \in Heads /\ AddUsedBufFill(token[s])
      BY <2>1 DEF SendFill, AddUsedBufFill, FillUsedElem, TypeOK
    <3>. QED BY <3>1 DEF CoreOrHost
  <2>. QED BY <1>2, <2>1
       DEF TxNext, SendStep, SendReset, SendGet, SendGetNone, SendClear, ClearThen,
           SendPend, SendPublish, SendKick, SendInt, HostBufReady, Released, CoreOrHost
<1>3. CASE Host /\ UNCHANGED <<which, rxVars, txVars>>
  BY <1>3 DEF Host, CoreOrHost
<1>4. CASE UNCHANGED ringVars
  BY <1>4 DEF ringVars
<1>. QED BY <1>1, <1>2, <1>3, <1>4 DEF RingsNext

LEMMA RxTyped ==
  ASSUME RxTypeOK, [RingsNext]_ringVars
  PROVE  RxTypeOK'
<1> USE DEF RxTypeOK, rxVars
<1>1. CASE RxNext
  <2>1. swiPosted' \in BOOLEAN /\ waiting' \in BOOLEAN
    BY <1>1
       DEF RxNext, RecvCall, RecvPosting, RecvReturn, RecvTimeout, SwiStep, SwiBegin,
           SwiTake, SwiDeliver, Deliver, SwiPublish, SwiFindsNone, SwiClear, SwiKick,
           SwiNoKick, SwiIntSend, AvailBufReady, IsrThen
  <2>2. swiPc' \in {"idle", "loop", "send", "publish", "clear", "kick", "int"}
    BY <1>1
       DEF RxNext, RecvCall, RecvPosting, RecvReturn, RecvTimeout, SwiStep, SwiBegin,
           SwiTake, SwiDeliver, Deliver, SwiPublish, SwiFindsNone, SwiClear, SwiKick,
           SwiNoKick, SwiIntSend, AvailBufReady, IsrThen
  <2>3. semCount' \in 0 .. HeapBlocks
    <3>1. ASSUME NEW h \in Heads, SwiDeliver(h) PROVE semCount' \in 0 .. HeapBlocks
      BY <3>1, RxPathAssumption DEF RxPathAssumption, SwiDeliver, Deliver
    <3>2. CASE RecvReturn
      BY <3>2, RxPathAssumption DEF RxPathAssumption, RecvReturn
    <3>3. CASE RxNext /\ ~RecvReturn /\ ~\E h \in Heads : SwiDeliver(h)
      BY <3>3 DEF RxNext, RecvCall, RecvPosting, RecvTimeout, SwiStep, SwiBegin,
                  SwiTake, SwiPublish, SwiFindsNone, SwiClear, SwiKick, SwiNoKick,
                  SwiIntSend, AvailBufReady, IsrThen
    <3>. QED BY <1>1, <3>1, <3>2, <3>3
  <2>. QED BY <2>1, <2>2, <2>3
<1>2. CASE UNCHANGED rxVars
  BY <1>2
<1>. QED BY <1>1, <1>2 DEF RingsNext, ringVars

\* Every buffer of either ring has one owner, across all wraps of the indices,
\* which stay in their ranges: whatever the size of the ring, as long as it
\* divides the range of the indices (VirtQueue_getAvailBuf, _addUsedBuf).
THEOREM BuffersTheorem ==
  /\ RxSpec => []BuffersAreOwned
  /\ TxSpec => []BuffersAreOwned
<1>1. ASSUME NEW ring, Starts(ring) PROVE RingInv /\ RxTypeOK
  BY <1>1, RingStarts
<1>2. RingInv /\ RxTypeOK /\ [RingsNext]_ringVars => (RingInv /\ RxTypeOK)'
  BY UsersCallVirtQueue, RingSteps, RxTyped DEF RingInv
<1>3. RingInv /\ RxTypeOK => BuffersAreOwned
  BY DEF RingInv, BuffersAreOwned
<1>4. Starts("fromHost") \/ Starts("toHost") => RingInv /\ RxTypeOK
  BY <1>1
<1>5. RxSpec => []BuffersAreOwned
  BY <1>2, <1>3, <1>4, PTL DEF RxSpec
<1>6. TxSpec => []BuffersAreOwned
  BY <1>2, <1>3, <1>4, PTL DEF TxSpec
<1>. QED BY <1>5, <1>6

\* Of the two rings and their two indices each, the processors see the two
\* FIFO lists of VirtQueue.h:49-76.
THEOREM RingsAreLists ==
  /\ RxSpec => ImplementsVring
  /\ TxSpec => ImplementsVring
<1>1. Starts("fromHost") \/ Starts("toHost") => RingInv /\ Lists!Init
  BY RingStarts
<1>2. RingInv /\ [RingsNext]_ringVars => RingInv' /\ [Lists!Next]_Lists!vars
  BY UsersCallVirtQueue, RingSteps DEF RingInv
<1>3. RxSpec => ImplementsVring
  BY <1>1, <1>2, PTL DEF RxSpec, ImplementsVring, Lists!Spec
<1>4. TxSpec => ImplementsVring
  BY <1>1, <1>2, PTL DEF TxSpec, ImplementsVring, Lists!Spec
<1>. QED BY <1>3, <1>4

-----------------------------------------------------------------------------
(* The senders.                                                            *)

\* A sender has a buffer while it copies and at no other time; no sender waits
\* twice; and the Swi, which serves the other ring, takes none of them.
SendersInv ==
  /\ which = "toHost"
  /\ swiPc = "idle" /\ ~swiPosted
  /\ SendersKeepApart
  /\ \A s \in Senders : token[s] # NoToken <=> spc[s] = "copy"
  /\ Lists!Distinct(waiters)

\* A head that is taken was not held.
LEMMA TakenIsNew ==
  ASSUME RingInv, NEW h \in Heads, GetAvailBuf(h)
  PROVE  h \notin held /\ held' = held \cup {h}
<1>1. lastAvailIdx # availIdx /\ h = availRing[lastAvailIdx % Num]
      /\ held' = held \cup {h}
  BY DEF GetAvailBuf, TakeHead
<1>2. avail # <<>> /\ Head(avail) = h /\ avail \in Seq(Heads)
  BY <1>1, ListsTyped, TakeIsTail DEF avail, RingInv
<1>3. h \in Lists!Elements(avail)
  BY <1>2 DEF Lists!Elements
<1>. QED BY <1>1, <1>3 DEF RingInv, OneOwner, Lists!OneOwner, avail

LEMMA OtherStepsKeepSenders ==
  ASSUME SendersInv,
         \/ RxNext /\ UNCHANGED <<which, txVars>>
         \/ Host /\ UNCHANGED <<which, rxVars, txVars>>
         \/ UNCHANGED ringVars
  PROVE  SendersInv'
<1> USE DEF SendersInv, rxVars
<1>1. UNCHANGED <<which, swiPc, swiPosted, held, txVars>>
  <2>1. CASE RxNext /\ UNCHANGED <<which, txVars>>
    BY <2>1 DEF RxNext, RecvCall, RecvPosting, RecvReturn, RecvTimeout, SwiStep,
                SwiBegin, SwiTake, SwiDeliver, Deliver, SwiPublish, SwiFindsNone,
                SwiClear, SwiKick, SwiNoKick, SwiIntSend, AvailBufReady, IsrThen,
                vars, coreVars
  <2>2. CASE Host /\ UNCHANGED <<which, rxVars, txVars>>
    BY <2>2 DEF Host, HostAddAvail, HostKick, HostPoll, HostIsr, HostGetUsed,
                HostEnable, HostRecheck, coreVars
  <2>3. CASE UNCHANGED ringVars
    BY <2>3 DEF ringVars, vars, coreVars
  <2>. QED BY <2>1, <2>2, <2>3
<1>. QED BY <1>1 DEF txVars, SendersKeepApart, TxTypeOK, BufferIsOwned

LEMMA SendersSteps ==
  ASSUME RingInv, SendersInv, TxNext, UNCHANGED <<which, rxVars>>
  PROVE  SendersInv'
<1> USE DEF SendersInv, SendersKeepApart, TxTypeOK, BufferIsOwned, rxVars, Goto
<1>1. ASSUME NEW s \in Senders, SendReset(s) PROVE SendersInv'
  BY <1>1 DEF SendReset, vars, coreVars
<1>2. ASSUME NEW s \in Senders, NEW h \in Heads, SendGet(s, h) PROVE SendersInv'
  <2>1. h \notin held /\ held' = held \cup {h}
    BY <1>2, TakenIsNew DEF SendGet
  <2>2. h # NoToken /\ token[s] = NoToken
    BY <1>2, TxPathAssumption DEF TxPathAssumption, SendGet
  <2>. QED BY <1>2, <2>1, <2>2 DEF SendGet
<1>3. ASSUME NEW s \in Senders, SendGetNone(s) PROVE SendersInv'
  BY <1>3 DEF SendGetNone, GetAvailBufEmpty
<1>4. ASSUME NEW s \in Senders, SendClear(s) PROVE SendersInv'
  BY <1>4 DEF SendClear, ClearThen, ClearNoNotify
<1>5. ASSUME NEW s \in Senders, SendPend(s) PROVE SendersInv'
  <2>1. CASE hostSem > 0
    BY <1>5, <2>1 DEF SendPend, vars, coreVars
  <2>2. CASE ~(hostSem > 0)
    <3>1. s \notin Lists!Elements(waiters)
      BY <1>5 DEF SendPend, Lists!Elements
    <3>2. LET q == Append(waiters, s)
          IN  /\ q \in Seq(Senders) /\ Lists!Distinct(q)
              /\ Lists!Elements(q) = Lists!Elements(waiters) \cup {s}
      <4>1. waiters \in Seq(Senders) /\ Lists!Distinct(waiters)
        OBVIOUS
      <4> HIDE DEF SendersInv
      <4>. QED BY <3>1, <4>1, Lists!AppendFacts
    <3>3. /\ waiters' \in Seq(Senders) /\ Lists!Distinct(waiters')
          /\ Lists!Elements(waiters') = Lists!Elements(waiters) \cup {s}
      BY <1>5, <2>2, <3>2 DEF SendPend
    <3>4. Lists!Elements(waiters') = {t \in Senders : spc'[t] = "blocked"}
      BY <1>5, <2>2, <3>3, ZenonT(60) DEF SendPend, Lists!Elements
    <3>. QED BY <1>5, <2>2, <3>3, <3>4 DEF SendPend, vars, coreVars, Lists!Elements
  <2>. QED BY <2>1, <2>2
<1>6. ASSUME NEW s \in Senders, SendFill(s) PROVE SendersInv'
  BY <1>6 DEF SendFill, AddUsedBufFill, FillUsedElem
<1>7. ASSUME NEW s \in Senders, SendPublish(s) PROVE SendersInv'
  BY <1>7 DEF SendPublish, AddUsedBufPublish
<1>8. ASSUME NEW s \in Senders, SendKick(s) PROVE SendersInv'
  BY <1>8 DEF SendKick, Kick, KickUnless
<1>9. ASSUME NEW s \in Senders, SendInt(s) PROVE SendersInv'
  BY <1>9 DEF SendInt, IntSend
<1>10. CASE HostBufReady
  <2>1. held' = held
    BY <1>10 DEF HostBufReady, Released, Isr, coreVars
  <2>2. CASE waiters = <<>>
    BY <1>10, <2>1, <2>2 DEF HostBufReady, Released
  <2>3. CASE waiters # <<>>
    <3>1. LET q == Tail(waiters)
              t == Head(waiters)
          IN  /\ q \in Seq(Senders) /\ Lists!Distinct(q)
              /\ Lists!Elements(q) = Lists!Elements(waiters) \ {t}
              /\ t \in Senders /\ t \in Lists!Elements(waiters)
      <4>1. waiters \in Seq(Senders) /\ Lists!Distinct(waiters)
        OBVIOUS
      <4> HIDE DEF SendersInv
      <4>. QED BY <2>3, <4>1, Lists!TailFacts
    <3> DEFINE t == Head(waiters)
    <3>2. /\ waiters' \in Seq(Senders) /\ Lists!Distinct(waiters')
          /\ Lists!Elements(waiters') = Lists!Elements(waiters) \ {t}
          /\ t \in Senders /\ spc[t] = "blocked"
          /\ spc' = [spc EXCEPT ![t] = "retry"]
          /\ UNCHANGED <<hostSem, token, gate, which>>
      <4>1. /\ waiters' = Tail(waiters) /\ spc' = [spc EXCEPT ![t] = "retry"]
            /\ UNCHANGED <<hostSem, token, gate, which>>
        BY <1>10, <2>3 DEF HostBufReady, Released
      <4>2. spc[t] = "blocked"
        BY <3>1 DEF Lists!Elements
      <4>. QED BY <3>1, <4>1, <4>2
    <3>3. Lists!Elements(waiters') = {u \in Senders : spc'[u] = "blocked"}
      BY <3>2 DEF Lists!Elements
    <3> HIDE DEF t
    <3>4. TxTypeOK'
      BY <3>2, <3>3 DEF Lists!Elements
    <3>5. BufferIsOwned' /\ Lists!Distinct(waiters)'
      BY <2>1, <3>2
    <3>6. swiPc' = swiPc /\ swiPosted' = swiPosted
      OBVIOUS
    <3>7. \A u \in Senders : token'[u] # NoToken <=> spc'[u] = "copy"
      BY <3>2
    <3>. QED BY <3>2, <3>4, <3>5, <3>6, <3>7
  <2>. QED BY <2>2, <2>3
<1>. QED BY <1>1, <1>2, <1>3, <1>4, <1>5, <1>6, <1>7, <1>8, <1>9, <1>10
     DEF TxNext, SendStep

\* Whatever the number of senders, of buffers and of interrupts between two
\* steps of theirs, no two of them write one buffer, nor does the host have it
\* (MessageQCopy_send).
THEOREM SendersTheorem == TxSpec => []SendersKeepApart
<1>1. Starts("toHost") => RingInv /\ SendersInv
  <2>1. SUFFICES ASSUME Starts("toHost") PROVE SendersInv
    BY RingStarts
  <2>2. waiters \in Seq(Senders) /\ Lists!Distinct(waiters)
        /\ {waiters[i] : i \in DOMAIN waiters} = {}
    BY <2>1 DEF Starts, TxInit, Lists!Distinct
  <2>. QED BY <2>1, <2>2
       DEF Starts, Init, RxInit, TxInit, SendersInv, SendersKeepApart, TxTypeOK,
           BufferIsOwned
<1>2. RingInv /\ SendersInv /\ [RingsNext]_ringVars => (RingInv /\ SendersInv)'
  <2>1. SUFFICES ASSUME RingInv, SendersInv, [RingsNext]_ringVars
                 PROVE  RingInv' /\ SendersInv'
    OBVIOUS
  <2>2. RingInv'
    BY <2>1, UsersCallVirtQueue, RingSteps DEF RingInv
  <2>3. SendersInv'
    BY <2>1, SendersSteps, OtherStepsKeepSenders DEF RingsNext
  <2>. QED BY <2>2, <2>3
<1>3. SendersInv => SendersKeepApart
  BY DEF SendersInv
<1>. QED BY <1>1, <1>2, <1>3, PTL DEF TxSpec
=============================================================================
