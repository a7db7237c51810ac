------------------------------- MODULE Vring -------------------------------
(***************************************************************************)
(* What a vring promises the two processors that share it, with no index,  *)
(* no wrap-around and no flag: every buffer head is at any moment in one   *)
(* of four places, it goes round them in one order only, and the two lists *)
(* in shared memory are FIFO (VirtQueue.h:49-76).                          *)
(*                                                                         *)
(*   hostFree --Offer--> avail --Take--> held --Return--> used --Collect-->*)
(***************************************************************************)
EXTENDS Sequences, FiniteSets, Naturals, TLAPS

CONSTANT Heads      \* the descriptor heads of the vring

VARIABLES
  hostFree,         \* heads the host owns
  avail,            \* heads the host offers, oldest first
  held,             \* heads the BIOS core has taken and not yet returned
  used              \* heads the core has returned, oldest first

vars == <<hostFree, avail, held, used>>

Elements(s) == {s[i] : i \in DOMAIN s}

Init ==
  /\ hostFree = Heads
  /\ avail = <<>>
  /\ held = {}
  /\ used = <<>>

\* "Only the Host adds new buffers to the avail list of a vring."
Offer(h) ==
  /\ h \in hostFree
  /\ hostFree' = hostFree \ {h}
  /\ avail' = Append(avail, h)
  /\ UNCHANGED <<held, used>>

Take ==
  /\ avail # <<>>
  /\ held' = held \cup {Head(avail)}
  /\ avail' = Tail(avail)
  /\ UNCHANGED <<hostFree, used>>

\* "Used buffer means processed (emptied or filled)."
Return(h) ==
  /\ h \in held
  /\ held' = held \ {h}
  /\ used' = Append(used, h)
  /\ UNCHANGED <<hostFree, avail>>

Collect ==
  /\ used # <<>>
  /\ hostFree' = hostFree \cup {Head(used)}
  /\ used' = Tail(used)
  /\ UNCHANGED <<avail, held>>

Next ==
  \/ \E h \in Heads : Offer(h) \/ Return(h)
  \/ Take
  \/ Collect

Spec == Init /\ [][Next]_vars

-----------------------------------------------------------------------------
\* A list that names no head twice.
Distinct(s) == \A i, j \in DOMAIN s : s[i] = s[j] => i = j

(* Every head is in exactly one of the four places, once.  A head in two   *)
(* places is a buffer both processors write.                               *)
OneOwner ==
  /\ hostFree \cup Elements(avail) \cup held \cup Elements(used) = Heads
  /\ hostFree \cap held = {}
  /\ hostFree \cap Elements(avail) = {}
  /\ hostFree \cap Elements(used) = {}
  /\ held \cap Elements(avail) = {}
  /\ held \cap Elements(used) = {}
  /\ Elements(avail) \cap Elements(used) = {}
  /\ Distinct(avail)
  /\ Distinct(used)

-----------------------------------------------------------------------------
(* Proofs. *)

TypeOK ==
  /\ hostFree \subseteq Heads
  /\ held \subseteq Heads
  /\ avail \in Seq(Heads)
  /\ used \in Seq(Heads)

\* What Append and Tail do to a list without repetitions.
LEMMA AppendFacts ==
  ASSUME NEW S, NEW s \in Seq(S), NEW h \in S,
         Distinct(s), h \notin Elements(s)
  PROVE  /\ Append(s, h) \in Seq(S)
         /\ Elements(Append(s, h)) = Elements(s) \cup {h}
         /\ Distinct(Append(s, h))
<1> DEFINE t == Append(s, h)
<1>1. /\ t \in Seq(S) /\ Len(t) = Len(s) + 1 /\ Len(s) \in Nat
      /\ \A i \in 1 .. Len(s) : t[i] = s[i]
      /\ t[Len(s) + 1] = h
      /\ DOMAIN s = 1 .. Len(s) /\ DOMAIN t = 1 .. Len(s) + 1
  OBVIOUS
<1> HIDE DEF t
<1>2. \A i \in 1 .. Len(s) : s[i] # h
  BY <1>1 DEF Elements
<1>3. Elements(t) = Elements(s) \cup {h}
  <2>1. ASSUME NEW x \in Elements(t) PROVE x \in Elements(s) \cup {h}
    BY <1>1, <2>1 DEF Elements
  <2>2. ASSUME NEW x \in Elements(s) PROVE x \in Elements(t)
    <3>1. PICK i \in 1 .. Len(s) : x = s[i]
      BY <1>1, <2>2 DEF Elements
    <3>. QED BY <1>1, <3>1 DEF Elements
  <2>3. h \in Elements(t)
    BY <1>1 DEF Elements
  <2>. QED BY <2>1, <2>2, <2>3
<1>4. Distinct(t)
  BY <1>1, <1>2 DEF Distinct
<1>. QED BY <1>1, <1>3, <1>4 DEF t

LEMMA TailFacts ==
  ASSUME NEW S, NEW s \in Seq(S), s # <<>>, Distinct(s)
  PROVE  /\ Tail(s) \in Seq(S)
         /\ Head(s) \in S
         /\ Elements(Tail(s)) = Elements(s) \ {Head(s)}
         /\ Head(s) \in Elements(s)
         /\ Distinct(Tail(s))
<1>1. /\ Len(s) \in Nat /\ Len(s) > 0 /\ Head(s) = s[1]
      /\ Tail(s) \in Seq(S) /\ Head(s) \in S
  OBVIOUS
<1>2. /\ DOMAIN Tail(s) = 1 .. Len(s) - 1
      /\ \A i \in 1 .. Len(s) - 1 : Tail(s)[i] = s[i + 1]
  BY <1>1
<1>3. Distinct(Tail(s))
  BY <1>1, <1>2 DEF Distinct
<1>4. Head(s) \in Elements(s)
  BY <1>1 DEF Elements
<1>5. ASSUME NEW x \in Elements(Tail(s)) PROVE x \in Elements(s) \ {Head(s)}
  <2>1. PICK i \in 1 .. Len(s) - 1 : x = s[i + 1]
    BY <1>2, <1>5 DEF Elements
  <2>. QED BY <2>1, <1>1 DEF Elements, Distinct
<1>6. ASSUME NEW x \in Elements(s) \ {Head(s)} PROVE x \in Elements(Tail(s))
  <2>1. PICK i \in 1 .. Len(s) : x = s[i]
    BY <1>1, <1>6 DEF Elements
  <2>2. i # 1 /\ i - 1 \in 1 .. Len(s) - 1
    BY <2>1, <1>1, <1>6
  <2>3. Tail(s)[i - 1] = x
    BY <2>1, <2>2, <1>2
  <2>. QED BY <2>2, <2>3, <1>2 DEF Elements
<1>. QED BY <1>1, <1>3, <1>4, <1>5, <1>6

\* No step loses a head, or gives it a second owner.
LEMMA StepKeepsOwners ==
  TypeOK /\ OneOwner /\ [Next]_vars => TypeOK' /\ OneOwner'
<1> SUFFICES ASSUME TypeOK, OneOwner, [Next]_vars
             PROVE  TypeOK' /\ OneOwner'
  OBVIOUS
<1> USE DEF TypeOK, OneOwner
<1>1. ASSUME NEW h \in Heads, Offer(h) PROVE TypeOK' /\ OneOwner'
  <2>1. h \notin Elements(avail)
    BY <1>1 DEF Offer
  <2>2. /\ avail' \in Seq(Heads) /\ Distinct(avail')
        /\ Elements(avail') = Elements(avail) \cup {h}
    BY <1>1, <2>1, AppendFacts DEF Offer
  <2>. QED BY <1>1, <2>2 DEF Offer
<1>2. ASSUME NEW h \in Heads, Return(h) PROVE TypeOK' /\ OneOwner'
  <2>1. h \notin Elements(used)
    BY <1>2 DEF Return
  <2>2. /\ used' \in Seq(Heads) /\ Distinct(used')
        /\ Elements(used') = Elements(used) \cup {h}
    BY <1>2, <2>1, AppendFacts DEF Return
  <2>. QED BY <1>2, <2>2 DEF Return
<1>3. CASE Take
  <2>1. /\ avail' \in Seq(Heads) /\ Distinct(avail')
        /\ Elements(avail') = Elements(avail) \ {Head(avail)}
        /\ Head(avail) \in Elements(avail) /\ Head(avail) \in Heads
    BY <1>3, TailFacts DEF Take
  <2>. QED BY <1>3, <2>1 DEF Take
<1>4. CASE Collect
  <2>1. /\ used' \in Seq(Heads) /\ Distinct(used')
        /\ Elements(used') = Elements(used) \ {Head(used)}
        /\ Head(used) \in Elements(used) /\ Head(used) \in Heads
    BY <1>4, TailFacts DEF Collect
  <2>. QED BY <1>4, <2>1 DEF Collect
<1>5. CASE UNCHANGED vars
  <2>1. hostFree' = hostFree /\ avail' = avail /\ held' = held /\ used' = used
    BY <1>5 DEF vars
  <2>. QED BY <2>1
<1>. QED BY <1>1, <1>2, <1>3, <1>4, <1>5 DEF Next

\* Whatever the set of heads, every head has exactly one owner.
THEOREM VringOneOwner == Spec => [](TypeOK /\ OneOwner)
<1>1. Init => TypeOK /\ OneOwner
  BY DEF Init, TypeOK, OneOwner, Elements, Distinct
<1>. QED BY <1>1, StepKeepsOwners, PTL DEF Spec
=============================================================================
