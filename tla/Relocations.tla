---------------------------- MODULE Relocations ----------------------------
(***************************************************************************)
(* Relocations of one type, for either processor: a table with an entry for *)
(* each of the symbols, every one for a cell with the same content, applied *)
(* as process_rel_table and process_rela_table do.                          *)
(***************************************************************************)
EXTENDS ArmReloc

CONSTANTS
  Bounds            \* bound: the bits at which the symbols' runs of ones start and end

VARIABLES
  reloc,            \* [machine, type, rela, pc, wrongEndian, be8]
  before,           \* the four bytes of a cell
  after,            \* by symbol: what they are then, and whether DLIF_error was called
  relocPc           \* "waiting", "done"

relocVars == <<reloc, before, after, relocPc>>

\* C6000 relocations (c60_reloc.c), without the prefix R_C6000_.  An addend is
\* never read from the field: a relocation that would need it ends the loader.
AbsTypes == {"ABS32", "ABS16", "ABS8", "ABS_S16", "ABS_L16", "ABS_H16"}
PcrTypes == {"PCR_S21", "PCR_S12", "PCR_S10", "PCR_S7"}
SbrTypes ==
  {"SBR_U15_B", "SBR_U15_H", "SBR_U15_W", "SBR_S16", "SBR_L16_B", "SBR_L16_H", "SBR_L16_W",
   "SBR_H16_B", "SBR_H16_H", "SBR_H16_W"}
C60Types == AbsTypes \cup PcrTypes \cup SbrTypes \cup {"PREL31", "DSBT_INDEX"}

\* A fetch packet starts at a multiple of 32; DSBT indices are words of a table.
C60Value(type, symval, addend, pc, base, index) ==
  LET sum == Plus(symval, addend) IN
  CASE type \in AbsTypes -> sum
    [] type \in PcrTypes -> Plus(sum, Neg(pc \ 0 .. 4))
    [] type = "PREL31" -> Plus(sum, Neg(pc))
    [] type \in SbrTypes -> Plus(sum, Neg(base))
    [] type = "DSBT_INDEX" -> Plus(Plus(sum, Neg(base)), Left(index, 2))

\* From 0xFFFF on, and from 0x1FFFD on.
FromFFFF(w) == ~Below(w, 16) \/ 0 .. 15 \subseteq w
From1FFFD(w) == ~Below(w, 17) \/ (2 .. 16 \subseteq w /\ {0, 1} \cap w # {})

C60Overflow(type, w) ==
  CASE type = "ABS16" -> ~(Below(w, 16) \/ Fits(w, 16))
    [] type = "ABS8" -> ~(Below(w, 8) \/ Fits(w, 8))
    [] type = "PCR_S21" -> ~Fits(w, 23)
    [] type = "PCR_S12" -> ~Fits(w, 14)
    [] type = "PCR_S10" -> ~Fits(w, 12)
    [] type = "PCR_S7" -> ~Fits(w, 9)
    [] type \in {"SBR_S16", "ABS_S16"} -> ~Fits(w, 16)
    [] type = "SBR_U15_B" -> ~Below(w, 15)
    [] type = "SBR_U15_H" -> FromFFFF(w)
    [] type \in {"DSBT_INDEX", "SBR_U15_W"} -> From1FFFD(w)
    [] OTHER -> FALSE

C60Shift(type) ==
  CASE type \in {"SBR_U15_H", "SBR_L16_H", "PREL31"} -> 1
    [] type \in PcrTypes \cup {"SBR_U15_W", "SBR_L16_W", "DSBT_INDEX"} -> 2
    [] type \in {"ABS_H16", "SBR_H16_B"} -> 16
    [] type = "SBR_H16_H" -> 17
    [] type = "SBR_H16_W" -> 18
    [] OTHER -> 0

U15Types == {"SBR_U15_B", "SBR_U15_H", "SBR_U15_W", "DSBT_INDEX"}

\* The bits that mask_result leaves.
C60Mask(type) ==
  CASE type = "ABS8" -> 8 [] type = "ABS32" -> 32 [] type = "PREL31" -> 31
    [] type = "PCR_S21" -> 21 [] type = "PCR_S12" -> 12 [] type = "PCR_S10" -> 10
    [] type = "PCR_S7" -> 7 [] type \in U15Types -> 15 [] OTHER -> 16

C60Packed(type, w) == Signed(w, C60Shift(type)) \cap 0 .. C60Mask(type) - 1

\* Where the field is, and the bits cleared for it: one too few for PREL31.
C60At(type) ==
  CASE type \in {"ABS32", "PREL31", "ABS16", "ABS8"} -> 0
    [] type \in {"PCR_S12", "PCR_S7"} -> 16 [] type = "PCR_S10" -> 13
    [] type \in U15Types -> 8 [] OTHER -> 7
C60Cleared(type) == IF type = "PREL31" THEN 30 ELSE C60Mask(type)

C60Write(type, cell, w) ==
  (cell \ C60At(type) .. C60At(type) + C60Cleared(type) - 1) \cup Left(w, C60At(type))

\* [cell, error]: reloc_do, which turns the bytes of the field around for a file
\* of the other endianness, all four of them.
C60RelocDo(type, cell, addend, symval, pc, base, index, wrongEndian) ==
  LET value == C60Value(type, symval, addend, pc, base, index)
      Order(w) == IF wrongEndian THEN Swap32(w) ELSE w
  IN [cell |-> Order(C60Write(type, Order(cell), C60Packed(type, value))),
      error |-> C60Overflow(type, value)]

-----------------------------------------------------------------------------
\* Numbers where a field, a limit or a carry begins or ends.
Symvals == {lo .. hi : lo \in 0 .. 2, hi \in Bounds} \cup {lo .. 31 : lo \in Bounds}

\* The kinds of table, places and orders of bytes that are combined.
Ways ==
  {[rela |-> FALSE, pc |-> {}, wrongEndian |-> FALSE, be8 |-> FALSE],
   [rela |-> FALSE, pc |-> {2}, wrongEndian |-> FALSE, be8 |-> TRUE],
   [rela |-> TRUE, pc |-> {2}, wrongEndian |-> TRUE, be8 |-> FALSE],
   [rela |-> FALSE, pc |-> {}, wrongEndian |-> TRUE, be8 |-> TRUE]}

\* The opcodes of BL, BLX and B for ARM, with an addend of nothing and of -8.
ArmCells(type) ==
  IF type \in ArmCalls \cup {"JUMP24"}
  THEN {{24, 25, 27, 29, 30, 31}, {25, 27, 29, 30, 31} \cup 1 .. 23, {25, 27, 28, 29, 30, 31}}
  ELSE {{}, Bits}

\* The order of the bytes in the image: instructions of a BE8 file are not turned.
ArmInOrder(r, w) ==
  IF r.wrongEndian # (r.be8 /\ ~IsDataRelocation(r.type))
  THEN IF r.type = "ABS16" THEN WithLow(w, Swap16(w)) ELSE RelChangeEndian(r.type, w)
  ELSE w

RelocInit ==
  /\ \E way \in Ways :
       \/ \E type \in ArmTypes :
            /\ reloc = way @@ [machine |-> "arm", type |-> type]
            /\ \E c \in ArmCells(type) : before = ArmInOrder(reloc, c)
       \/ \E type \in C60Types :
            /\ reloc = way @@ [machine |-> "c60", type |-> type]
            /\ before \in {{}, Bits}
  /\ after = <<>> /\ relocPc = "waiting"

-----------------------------------------------------------------------------

ArmHostOrder(r, w) ==
  IF RelSwapEndian(r.wrongEndian, r.be8, r.type) THEN RelChangeEndian(r.type, w) ELSE w

ArmAddendOf(r, w) == IF r.rela THEN {} ELSE ArmAddend(r.type, ArmHostOrder(r, w))

\* The field is in the order of the loader's processor while it is written.
ArmRelocate ==
  /\ reloc.machine = "arm" /\ relocPc = "waiting" /\ relocPc' = "done"
  /\ after' = [sym \in Symvals |->
       LET did == ArmRelocDo(reloc.type, ArmHostOrder(reloc, before), ArmAddendOf(reloc, before),
                             sym, reloc.pc)
       IN [cell |-> ArmHostOrder(reloc, did.cell), error |-> did.error]]
  /\ UNCHANGED <<reloc, before>>

\* The static base is taken to be where the cell is, the index of the module's
\* data segment to be 1.
C60Relocate ==
  /\ reloc.machine = "c60" /\ relocPc = "waiting" /\ relocPc' = "done"
  /\ after' = [sym \in Symvals |->
       C60RelocDo(reloc.type, before, {}, sym, reloc.pc, reloc.pc, {0}, reloc.wrongEndian)]
  /\ UNCHANGED <<reloc, before>>

RelocNext == ArmRelocate \/ C60Relocate

-----------------------------------------------------------------------------
(* What the program that is loaded makes of a cell: for data of 8 and 16     *)
(* bits a number with a sign or one without.                                 *)

ArmMeanings(r, c) ==
  LET a == ArmAddend(r.type, ArmInOrder(r, c)) IN
  CASE r.type = "ABS16" -> {a, a \cap 0 .. 15} [] r.type = "ABS8" -> {a, a \cap 0 .. 7}
    [] OTHER -> {a}

C60Meanings(r, c) ==
  LET raw == Extract(IF r.wrongEndian THEN Swap32(c) ELSE c, C60At(r.type), C60Mask(r.type)) IN
  {Left(w, C60Shift(r.type)) :
     w \in IF r.type \in U15Types THEN {raw}
           ELSE IF r.type \in {"ABS16", "ABS8"} THEN {raw, Extend(raw, C60Mask(r.type))}
           ELSE {Extend(raw, C60Mask(r.type))}}

\* What the field should mean: of a branch where it goes, not the T bit, and of
\* a BLX to ARM code the word that it goes to.
ArmIntended(r, sym, value) ==
  CASE r.type \in MovWs \cup ThmMovWs -> Extend(value \cap 0 .. 15, 16)
    [] r.type \in MovTs \cup ThmMovTs -> Signed(value, 16)
    [] r.type = "THM_CALL" /\ OPND_T(sym) = {} ->
         IF 1 \in value THEN Plus(value, {1}) \ {0} ELSE value \ {0}
    [] r.type \in ArmCalls \cup ThmCalls -> value \ {0}
    [] OTHER -> value

ArmValueOf(r, sym) == ArmValue(r.type, sym, ArmAddendOf(r, before), r.pc)
C60ValueOf(r, sym) == C60Value(r.type, sym, {}, r.pc, r.pc, {0})

\* What the types are not for: a place that the instruction cannot reach, an odd
\* one or, for the short branches and loads of Thumb, one that is too far, which
\* the code does not look for.
ArmUnfit(r, sym, value) ==
  \/ r.type \in ArmCalls \cup {"JUMP24"} /\ OPND_T(sym) = {}
       /\ (value \cap {0, 1} # {} \/ IsBlx(ArmInOrder(r, before)))
  \/ r.type = "JUMP24" /\ (0 \in sym \/ IsBlx(ArmInOrder(r, before)))
  \/ r.type \in {"THM_PC8", "THM_ABS5"} /\ value \cap {0, 1} # {}
  \/ r.type \in Thumb16s /\ 0 \in value
  \/ r.type = "THM_JUMP11" /\ ~Fits(value, 12)
  \/ r.type = "THM_JUMP8" /\ ~Fits(value, 9)
  \/ r.type = "THM_ABS5" /\ ~Below(value, 7)
  \/ r.type = "THM_PC8" /\ ~Below(Plus(value, {2}), 10)
  \/ r.type = "THM_JUMP6" /\ ~Below(Plus(value, {2}), 7)
  \/ value = {31}

(* Where the code goes wrong, left out of the promise below:               *)

\* The whole cell is garbled: ADR in Thumb, and bytes that are turned twice or at
\* the wrong place of the word.
ArmGarbles(r) ==
  \/ r.type = "THM_ALU_PREL_11_0"
  \/ r.type = "ABS16" /\ r.wrongEndian
  \/ ~IsDataRelocation(r.type) /\ r.wrongEndian /\ r.be8

\* The field holds another value, or is read as another, and nobody complains: J1 and J2
\* of JUMP19 are exchanged, groups after the first get the wrong bits, the rotation of
\* ADD and SUB is read as half of what is written, the limit of LDC is 12 bits and its
\* field 8, and PREL31 is ored into what was there.
ArmCutsInSilence(r, value) ==
  \/ r.type = "THM_JUMP19"
  \/ r.type \in GroupTypes /\ RelGroupNum(r.type) > 0
  \/ r.type \in {"ALU_PC_G0_NC", "ALU_PC_G0", "LDC_PC_G0"} /\ ~Below(Abs(value), 8)
  \/ r.type = "PREL31" /\ ArmInOrder(r, before) \cap 0 .. 30 # {}

\* The limit of a BLX is that of the place before it is rounded up to a word.
ArmRefusesInVain(r, sym, value) ==
  r.type = "THM_CALL" /\ 0 \notin sym /\ Fits(value, 25) # Fits(ArmIntended(r, sym, value), 25)

\* Only the low or the high half of the value is asked for.
C60Part(type) ==
  type \in {"ABS_L16", "ABS_H16", "SBR_L16_B", "SBR_L16_H", "SBR_L16_W", "SBR_H16_B", "SBR_H16_H",
           "SBR_H16_W"}

C60Unfit(r, value) == value \cap 0 .. C60Shift(r.type) - 1 # {}

\* A field of 8 or 16 bits in a file of the other endianness is written at the wrong
\* end of the word; one bit too few is cleared for PREL31.
C60GoesWrong(r) ==
  \/ r.type \in {"ABS16", "ABS8"} /\ r.wrongEndian
  \/ r.type = "PREL31" /\ before # {}

\* The bits in one of two words only.
Changed(v, w) == (v \ w) \cup (w \ v)

\* A bit changes only if the meaning depends on it, or if a branch becomes BLX or
\* ADD and SUB are exchanged.
KeepsOthers(cell) ==
  IF reloc.machine = "c60"
  THEN (IF reloc.wrongEndian THEN Swap32(Changed(before, cell)) ELSE Changed(before, cell))
         \subseteq C60At(reloc.type) .. C60At(reloc.type) + C60Mask(reloc.type) - 1
  ELSE LET type == reloc.type
           new == ArmInOrder(reloc, cell)
           means == ArmAddend(type, new)
       IN \/ type \in ArmCalls \cup {"THM_CALL"} \/ means = {}
          \/ \A b \in Changed(ArmInOrder(reloc, before), new) :
               \/ ArmAddend(type, Changed(new, {b})) # means
               \/ type \in Alus /\ b \in {22, 23}

(* A relocation that is not complained of leaves a field that means the value, *)
(* and one that is complained of does not: the limits of rel_overflow, the     *)
(* shifts and masks of pack_result and mask_result, the fields that            *)
(* write_reloc_r composes and those that rel_unpack_addend takes apart agree,  *)
(* in any order of the bytes.  The instruction around the field stays.         *)
(* (PLT32 gets a field of nothing, and is always complained of.)  This is not  *)
(* said of uses a type is not for (ArmUnfit, C60Unfit), nor where the code is  *)
(* wrong: ArmGarbles; ArmCutsInSilence, where only the rest of the instruction *)
(* stays; ArmRefusesInVain; and C60GoesWrong.                                  *)
RelocationsAreExact ==
  relocPc = "done" => \A sym \in Symvals :
    LET cell == after[sym].cell
        error == after[sym].error
        v == IF reloc.machine = "arm" THEN ArmValueOf(reloc, sym) ELSE C60ValueOf(reloc, sym)
        armRight == ArmIntended(reloc, sym, v) \in ArmMeanings(reloc, cell)
    IN IF reloc.machine = "arm"
       THEN \/ ArmUnfit(reloc, sym, v) \/ ArmGarbles(reloc)
            \/ /\ KeepsOthers(cell)
               /\ error \/ armRight \/ ArmCutsInSilence(reloc, v)
               /\ error => ~armRight \/ ArmRefusesInVain(reloc, sym, v)
       ELSE \/ C60Unfit(reloc, v) \/ C60GoesWrong(reloc)
            \/ /\ KeepsOthers(cell)
               /\ error => v \notin C60Meanings(reloc, cell)
               /\ v \in C60Meanings(reloc, cell) \/ error \/ C60Part(reloc.type)
=============================================================================
