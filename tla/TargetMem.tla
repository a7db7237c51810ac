----------------------------- MODULE TargetMem -----------------------------
(***************************************************************************)
(* The target's memory as dlw_trgmem.c deals it out: a doubly linked list  *)
(* of packets in the order of their addresses, used or free.  Packets are  *)
(* numbered; a number is used again when its packet is freed.              *)
(***************************************************************************)
EXTENDS Naturals, FiniteSets, FiniteSetsExt, TLC

CONSTANTS
  MemoryStart, MemorySize,      \* what DLTMM_init is given
  RequestSizes, Alignments,     \* of the requests
  MaxPackets                    \* bound: packets at one time

ASSUME TargetMemAssumption ==
  /\ MemoryStart \in Nat \ {0} /\ MemorySize \in Nat \ {0} /\ MaxPackets \in Nat \ {0}
  /\ RequestSizes \subseteq Nat \ {0} /\ Alignments \subseteq Nat \ {0}

NoPacket == 0

VARIABLES
  packets,          \* TRG_PACKETs, by number
  packetHead,       \* trg_mem_head
  granted,          \* what the loader has and has not given back: addresses and sizes
  packetsMisled     \* a link or a request did not mean what the code takes it for

targetMemVars == <<packets, packetHead, granted, packetsMisled>>

TargetMemInit ==
  /\ packets = (1 :> [addr |-> MemoryStart, size |-> MemorySize, used |-> FALSE,
                      prev |-> NoPacket, next |-> NoPacket])
  /\ packetHead = 1 /\ granted = {} /\ packetsMisled = FALSE

End(p) == packets[p].addr + packets[p].size

\* The list from its head on.
ListOf(ps, head) ==
  LET after[i \in 0 .. MaxPackets] ==
        IF i = 0 THEN {head}
        ELSE after[i - 1] \cup {ps[p].next : p \in after[i - 1] \ {NoPacket}}
  IN after[MaxPackets] \ {NoPacket}

Packets == ListOf(packets, packetHead)

\* trg_align
Aligned(addr, alignment) == ((addr + alignment - 1) \div alignment) * alignment
Padding(p, alignment) == Aligned(packets[p].addr, alignment) - packets[p].addr

NewPacket(ps) == CHOOSE n \in 1 .. MaxPackets : n \notin DOMAIN ps /\ \A m \in 1 .. n - 1 : m \in DOMAIN ps
HasRoom(ps, n) == Cardinality(DOMAIN ps) + n <= MaxPackets

-----------------------------------------------------------------------------
(* trg_alloc_pkt *)

\* The part before the one that is used becomes a free packet; its predecessor and
\* the head are left pointing to the used one.
PadBefore(ps, p, pad, used) ==
  LET free == NewPacket(ps)
  IN [ps EXCEPT ![p].prev = free]
       @@ (free :> [addr |-> ps[p].addr, size |-> pad, used |-> used,
                    prev |-> ps[p].prev, next |-> p])

\* The part behind it as well; its successor is left pointing back to the used one.
SplitAfter(ps, p, size) ==
  IF ps[p].size = size THEN [ps EXCEPT ![p].used = TRUE]
  ELSE LET free == NewPacket(ps)
       IN [ps EXCEPT ![p].used = TRUE, ![p].size = size, ![p].next = free]
            @@ (free :> [addr |-> ps[p].addr + size, size |-> ps[p].size - size, used |-> FALSE,
                         prev |-> p, next |-> ps[p].next])

\* A relocatable request is for the packet's own address.  Whether padding for its
\* alignment is marked as used is left to what malloc finds in the memory.
AllocPacket(p, size, alignment, padUsed) ==
  LET pad == Padding(p, alignment)
      padded == IF pad = 0 THEN packets
                ELSE [PadBefore(packets, p, pad, padUsed) EXCEPT ![p].size = @ - pad, ![p].addr = @ + pad]
  IN SplitAfter(padded, p, size)

\* One for an address inside the packet: its size is not reduced by what is before.
AllocPacketAt(p, size, addr) ==
  LET offset == addr - packets[p].addr
      padded == IF offset = 0 THEN packets
                ELSE [PadBefore(packets, p, offset, FALSE) EXCEPT ![p].addr = addr]
  IN SplitAfter(padded, p, size)

-----------------------------------------------------------------------------
(* DLTMM_malloc *)

PacketFits(p, size, alignment) ==
  /\ ~packets[p].used
  /\ packets[p].size > Padding(p, alignment)
  /\ packets[p].size - Padding(p, alignment) >= size

\* The smallest free packet that is large enough, the first of them.
IsBestFit(p, size, alignment) ==
  /\ p \in Packets /\ PacketFits(p, size, alignment)
  /\ \A q \in Packets \ {p} : PacketFits(q, size, alignment) =>
       \/ packets[q].size > packets[p].size
       \/ packets[q].size = packets[p].size /\ packets[q].addr > packets[p].addr

MallocRelocatable(size, alignment) ==
  /\ ~packetsMisled /\ HasRoom(packets, 2)
  /\ \E p \in Packets, padUsed \in BOOLEAN :
       /\ IsBestFit(p, size, alignment)
       /\ packets' = AllocPacket(p, size, alignment, padUsed)
       /\ granted' = granted \cup {<<packets'[p].addr, size>>}
  /\ UNCHANGED <<packetHead, packetsMisled>>

\* The first packet that holds the address, whether it is used or not.  An address that
\* is not aligned is refused.
MallocAt(addr, size, alignment) ==
  /\ ~packetsMisled /\ HasRoom(packets, 2)
  /\ Aligned(addr, alignment) = addr
  /\ \E p \in Packets :
       /\ packets[p].addr <= addr /\ addr < End(p) /\ packets[p].size >= size
       /\ packets' = AllocPacketAt(p, size, addr)
       /\ granted' = granted \cup {<<addr, size>>}
       /\ packetsMisled' = (packets[p].used \/ packets[p].addr < addr)
  /\ UNCHANGED packetHead

-----------------------------------------------------------------------------
(* DLTMM_free *)

IsFreePacket(p) == p # NoPacket /\ ~packets[p].used

\* (mutant) the packets are merged whether the one behind is used or not.
FreePacketJoins(p) ==
  LET after == packets[p].next
      next == IF after = NoPacket THEN NoPacket ELSE packets[after].next
  IN /\ packets' = [q \in DOMAIN packets \ {after} |->
          IF q = p THEN [packets[p] EXCEPT !.used = FALSE, !.next = next,
                           !.size = @ + IF after = NoPacket THEN 0 ELSE packets[after].size]
          ELSE [packets[q] EXCEPT !.prev = IF q = next /\ after # NoPacket THEN p ELSE @]]
     /\ UNCHANGED packetHead

\* trg_free_pkt merges the packet with the free ones that its links point to.
FreePacket(p) ==
  LET before == packets[p].prev
      after == packets[p].next
      joinsBefore == IsFreePacket(before)
      joinsAfter == IsFreePacket(after)
      prev == IF joinsBefore THEN packets[before].prev ELSE before
      next == IF joinsAfter THEN packets[after].next ELSE after
      gone == (IF joinsBefore THEN {before} ELSE {}) \cup (IF joinsAfter THEN {after} ELSE {})
      merged == [addr |-> IF joinsBefore THEN packets[before].addr ELSE packets[p].addr,
                 size |-> packets[p].size + (IF joinsBefore THEN packets[before].size ELSE 0)
                            + (IF joinsAfter THEN packets[after].size ELSE 0),
                 used |-> FALSE, prev |-> prev, next |-> next]
  IN /\ packets' = [q \in DOMAIN packets \ gone |->
          IF q = p THEN merged
          ELSE [packets[q] EXCEPT !.next = IF joinsBefore /\ q = prev THEN p ELSE @,
                                  !.prev = IF joinsAfter /\ q = next THEN p ELSE @]]
     /\ packetHead' = IF prev = NoPacket THEN p ELSE packetHead

\* The links lead to the packets that are next to it in memory, and one that is
\* joined is where its own neighbours' links lead.  None of this is so when a
\* hole was split, or padded for an alignment, beside it.
NeighboursAreNext(p) ==
  LET before == packets[p].prev
      after == packets[p].next
  IN /\ before # NoPacket => before \in DOMAIN packets /\ End(before) = packets[p].addr
     /\ after # NoPacket => packets[after].addr = End(p)
     /\ IsFreePacket(before) =>
          /\ packetHead = before => packets[before].prev = NoPacket
          /\ \A q \in Packets : packets[q].next = before => packets[before].prev = q
     /\ IsFreePacket(after) /\ packets[after].next # NoPacket =>
          packets[packets[after].next].prev = after

\* It is the last used packet that begins at or before the address.  Where stale links
\* lead (a packet that is gone, one that is elsewhere) is not followed.
FreeMemory(p) ==
  /\ ~packetsMisled /\ p \in Packets /\ packets[p].used /\ NeighboursAreNext(p)
  /\ FreePacket(p)
  /\ granted' = {g \in granted : g[1] # packets[p].addr}
  /\ UNCHANGED packetsMisled

FreeIsMisled(p) ==
  /\ ~packetsMisled /\ p \in Packets /\ packets[p].used /\ ~NeighboursAreNext(p)
  /\ packetsMisled' = TRUE
  /\ UNCHANGED <<packets, packetHead, granted>>

TargetMemNext ==
  \/ \E size \in RequestSizes, alignment \in Alignments : MallocRelocatable(size, alignment)
  \/ \E size \in RequestSizes, alignment \in Alignments, addr \in MemoryStart .. MemoryStart + MemorySize - 1 :
       MallocAt(addr, size, alignment)
  \/ \E p \in DOMAIN packets : FreeMemory(p) \/ FreeIsMisled(p)

-----------------------------------------------------------------------------
\* No two packets share memory, all of it is in some packet, and what was granted stays a
\* packet of its own, whatever is freed beside it, that is found on the list from its
\* head; nothing else there is used.  Not said: that a free packet is on the list, since
\* one that is split off in front of another is not; and anything after a request for an
\* address inside a packet, whose size is not reduced (it then overlaps the next), or
\* after a packet was freed whose links the splits have left stale.
MemoryIsShared ==
  ~packetsMisled =>
    /\ \A p, q \in DOMAIN packets : p # q => End(p) <= packets[q].addr \/ End(q) <= packets[p].addr
    /\ MapThenSumSet(LAMBDA p : packets[p].size, DOMAIN packets) = MemorySize
    /\ granted = {<<packets[p].addr, packets[p].size>> : p \in {q \in Packets : packets[q].used}}
=============================================================================
