------------------------------ MODULE ArmReloc ------------------------------
(***************************************************************************)
(* ARM relocations (arm_reloc.c): the value of each type, the check that   *)
(* it fits, and the fields of data and instructions it is written to and   *)
(* read from.  A cell is the four bytes at the relocation's address, the   *)
(* first halfword of a Thumb instruction below the second.  The prefix     *)
(* R_ARM_ of the names of the types is left out.                           *)
(***************************************************************************)
EXTENDS Integers, FiniteSetsExt, TLC

(***************************************************************************)
(* Machine words of 32 bits, each the set of the positions of its ones:    *)
(* what the loader's macros, masks and shifts do to them.  A number with a *)
(* sign is in two's complement.                                            *)
(***************************************************************************)
Bits == 0 .. 31

\* w >> n and w << n without a sign, and w >> n with it.
Right(w, n) == {b - n : b \in {c \in w : c >= n}}
Left(w, n) == {b + n : b \in {c \in w : c + n <= 31}}
Signed(w, n) == Right(w, n) \cup (IF 31 \in w THEN (32 - n) .. 31 ELSE {})

\* EXTRACT: n bits of w from bit lsb on.
Extract(w, lsb, n) == Right(w \cap lsb .. lsb + n - 1, lsb)

\* SIGN_EXTEND: the number of n bits that w is.
Extend(w, n) == IF n - 1 \in w THEN w \cup n .. 31 ELSE w

\* The number w has n bits, with a sign or without.
Fits(w, n) == n - 1 .. 31 \subseteq w \/ n - 1 .. 31 \cap w = {}
Below(w, n) == w \subseteq 0 .. n - 1

Bit(set, b) == IF set THEN {b} ELSE {}

\* -w: the bits above the lowest one change.
Neg(w) == IF w = {} THEN {} ELSE {b \in Bits \ w : b > Min(w)} \cup {Min(w)}
Succ(w) == Neg(Bits \ w)
Abs(w) == IF 31 \in w THEN Neg(w) ELSE w

\* v + w, modulo 2^32: the bits where one or all three of v, w and the carry are.
\* A carry starts where both have a bit and runs on while either has.
Plus(v, w) ==
  LET both == v \cap w
      any == v \cup w
      carry == {b \in Bits : \E j \in both : j < b /\ j + 1 .. b - 1 \subseteq any}
  IN {b \in Bits : (b \in v) = ((b \in w) = (b \in carry))}

\* The bytes of the word, or of both of its halves, in the other order.
Swap32(w) == {8 * (3 - b \div 8) + (b % 8) : b \in w}
Swap16(w) == {16 * (b \div 16) + 8 * (1 - ((b % 16) \div 8)) + (b % 8) : b \in w}

----------------------------------------------------------------------------

Word32s == {"ABS32", "REL32", "ABS32_NOI", "REL32_NOI"}
ArmCalls == {"PC24", "CALL", "PLT32"}
ThmCalls == {"THM_CALL", "THM_JUMP24"}
MovWs == {"MOVW_ABS_NC", "MOVW_PREL_NC"}
MovTs == {"MOVT_ABS", "MOVT_PREL"}
ThmMovWs == {"THM_MOVW_ABS_NC", "THM_MOVW_PREL_NC"}
ThmMovTs == {"THM_MOVT_ABS", "THM_MOVT_PREL"}
Alus == {"ALU_PC_G0_NC", "ALU_PC_G0", "ALU_PC_G1_NC", "ALU_PC_G1", "ALU_PC_G2"}
Ldrs == {"LDR_PC_G0", "LDR_PC_G1", "LDR_PC_G2"}
Ldrss == {"LDRS_PC_G0", "LDRS_PC_G1", "LDRS_PC_G2"}
Ldcs == {"LDC_PC_G0", "LDC_PC_G1", "LDC_PC_G2"}
GroupTypes == Alus \cup Ldrs \cup Ldrss \cup Ldcs
Thumb16s == {"THM_ABS5", "THM_PC8", "THM_JUMP6", "THM_JUMP11", "THM_JUMP8"}
Thumb32s ==
  ThmCalls \cup ThmMovWs \cup ThmMovTs \cup {"THM_JUMP19", "THM_ALU_PREL_11_0", "THM_PC12"}

\* The types that reloc_do has a value for, but R_ARM_NONE and PLT32_ABS, which
\* write_reloc_r refuses.
ArmTypes ==
  Word32s \cup ArmCalls \cup MovWs \cup MovTs \cup GroupTypes \cup Thumb16s \cup Thumb32s
    \cup {"ABS16", "ABS8", "PREL31", "JUMP24", "ABS12"}

IsDataRelocation(type) ==
  type \in {"ABS32", "ABS16", "ABS8", "PREL31", "REL32", "ABS32_NOI", "REL32_NOI"}

-----------------------------------------------------------------------------
(* The order of the bytes                                                  *)

RelSwapEndian(wrongEndian, be8, type) ==
  wrongEndian \/ (be8 /\ ~IsDataRelocation(type))

RelocSize(type) ==
  IF type \in Thumb16s THEN "thumb16" ELSE
  IF type \in Thumb32s THEN "thumb32" ELSE
  IF type = "ABS8" THEN "arm8" ELSE "arm"

\* The other half of the word stays as it is.
LowOf(w) == w \cap 0 .. 15
WithLow(cell, w) == (cell \ 0 .. 15) \cup LowOf(w)

RelChangeEndian(type, cell) ==
  CASE RelocSize(type) = "arm" -> Swap32(cell)
    [] RelocSize(type) = "thumb32" -> Swap16(cell)
    [] RelocSize(type) = "thumb16" -> WithLow(cell, Swap16(cell))
    [] OTHER -> cell

-----------------------------------------------------------------------------
(* Groups: a value in chunks of eight bits for a sequence of instructions  *)

RelConcludesGroup(type) == type \notin {"ALU_PC_G0_NC", "ALU_PC_G1_NC"}

RelGroupNum(type) ==
  IF type \in {"ALU_PC_G1", "ALU_PC_G1_NC", "LDC_PC_G1", "LDR_PC_G1", "LDRS_PC_G1"} THEN 1 ELSE
  IF type \in {"ALU_PC_G2", "LDC_PC_G2", "LDR_PC_G2", "LDRS_PC_G2"} THEN 2 ELSE 0

\* Where the eight bits from the highest one down start, rounded as the code
\* does: (offset & align) is not the remainder of a division.
RelAluMaskOffset(w, align) ==
  LET o == Max({7} \cup w) - 7 IN
  IF (o \div align) % 2 = 1 THEN o + align - (o % align) ELSE o

Chunk(w, align) ==
  LET o == RelAluMaskOffset(w, align) IN w \cap o .. o + 7

RelMaskForGroup(type, w) ==
  LET residual[n \in 0 .. 2] ==
        IF n = 0 THEN w ELSE residual[n - 1] \ Chunk(residual[n - 1], 2)
  IN IF RelConcludesGroup(type) THEN residual[RelGroupNum(type)]
     ELSE Chunk(residual[RelGroupNum(type)], 2)

-----------------------------------------------------------------------------
(* The value                                                               *)

OPND_S(symval) == symval \ {0}
OPND_T(symval) == symval \cap {0}

\* (S + A) | T, if the type has the T of a Thumb function, less the place.
WithT ==
  MovWs \cup ThmMovWs \cup ArmCalls \cup ThmCalls \cup Alus
    \cup {"ABS32", "REL32", "JUMP24", "PREL31", "THM_JUMP19", "THM_ALU_PREL_11_0"}
FromPc ==
  Ldrs \cup Ldrss \cup Ldcs \cup ArmCalls \cup ThmCalls \cup Alus
    \cup {"MOVT_PREL", "THM_MOVT_PREL", "REL32_NOI", "THM_JUMP6", "THM_JUMP11", "THM_JUMP8",
          "REL32", "JUMP24", "PREL31", "MOVW_PREL_NC", "THM_MOVW_PREL_NC", "THM_JUMP19",
          "THM_ALU_PREL_11_0"}
FromAlignedPc == {"THM_PC8", "THM_PC12"}

ArmValue(type, symval, addend, pc) ==
  LET sum == Plus(OPND_S(symval), addend)
      to == IF type \in WithT THEN sum \cup OPND_T(symval) ELSE sum
  IN IF type \in FromPc THEN Plus(to, Neg(pc))
     ELSE IF type \in FromAlignedPc THEN Plus(to, Neg(pc \ {0, 1})) ELSE to

\* The types with a limit, each with the bits a number with a sign may have.
ArmLimit ==
  [t \in {"PC24", "CALL", "JUMP24"} |-> 26] @@ [t \in ThmCalls |-> 25]
    @@ ("THM_JUMP19" :> 21) @@ ("PREL31" :> 31)

\* abs(w) >= 2^n; abs leaves the least number as it is, and negative.
Exceeds(w, n) == 31 \notin Abs(w) /\ ~Below(Abs(w), n)

\* (mutant) one bit more than the field has.
ArmOverflowsLate(type, w) == type \in DOMAIN ArmLimit /\ ~Fits(w, ArmLimit[type] + 1)

ArmOverflow(type, w) ==
  \/ type \in DOMAIN ArmLimit /\ ~Fits(w, ArmLimit[type])
  \/ type \in {"ABS12", "THM_PC12"} /\ Exceeds(w, 12)
  \/ type = "ABS16" /\ ~(Below(w, 16) \/ Fits(w, 16))
  \/ type = "ABS8" /\ ~(Below(w, 8) \/ Fits(w, 8))

ArmPack(type, w) ==
  CASE type \in ArmCalls \cup ThmCalls
         \cup {"THM_JUMP11", "THM_JUMP8", "THM_JUMP6", "THM_JUMP19"} -> Signed(w, 1)
    [] type \in {"JUMP24", "THM_ABS5", "THM_PC8"} -> Signed(w, 2)
    [] type \in MovTs \cup ThmMovTs -> Signed(w, 16)
    [] OTHER -> w

\* PLT32 is missing: a mask of no bits and an error.
ArmMask ==
  [t \in {"ABS8", "THM_JUMP8", "THM_PC8"} |-> 8]
    @@ [t \in {"ABS16"} \cup MovWs \cup MovTs \cup ThmMovWs \cup ThmMovTs |-> 16]
    @@ [t \in {"CALL", "PC24"} \cup ThmCalls |-> 25]
    @@ ("PREL31" :> 31) @@ ("JUMP24" :> 24) @@ ("THM_JUMP11" :> 11) @@ ("THM_ABS5" :> 5)
    @@ ("THM_JUMP6" :> 6) @@ ("THM_JUMP19" :> 20) @@ ("PLT32" :> 0)

ArmMasked(type, w) ==
  IF type \in DOMAIN ArmMask THEN w \cap 0 .. ArmMask[type] - 1 ELSE w

-----------------------------------------------------------------------------
(* The field.  A piece <<from, n, to>> is n bits of the value from bit from  *)
(* on, and the place of the first of them in the cell.                       *)

Put(w, pieces) == UNION {Left(Extract(w, p[1], p[2]), p[3]) : p \in pieces}
Get(cell, pieces) == UNION {Left(Extract(cell, p[3], p[2]), p[1]) : p \in pieces}

IsBlx(cell) == 25 .. 31 \cap cell = {25, 27, 28, 29, 30, 31}

Imm24 == {<<0, 24, 0>>}
BlxH == {<<0, 1, 24>>, <<1, 24, 0>>}
ThmImm == {<<11, 10, 0>>, <<0, 11, 16>>}
MovImm == {<<0, 12, 0>>, <<12, 4, 16>>}
ThmMovImm == {<<12, 4, 0>>, <<11, 1, 10>>, <<8, 3, 28>>, <<0, 8, 16>>}
SplitImm8 == {<<0, 4, 0>>, <<4, 4, 8>>}

WriteData(type, cell, w) ==
  CASE type \in Word32s -> w
    [] type = "PREL31" -> cell \cup w
    [] type = "ABS16" -> WithLow(cell, w)
    [] type = "ABS8" -> (cell \ 0 .. 7) \cup (w \cap 0 .. 7)

\* A call of a Thumb function becomes a BLX, whose bit 24 is bit 1 of the address.
WriteArmBranch(type, cell, w, symval) ==
  IF type = "JUMP24" THEN (cell \ 0 .. 23) \cup w ELSE
  LET call == IF OPND_T(symval) # {} THEN cell \cup 28 .. 31 ELSE cell
      imm == Right(w, 1)
  IN IF IsBlx(call) THEN (call \ 0 .. 24) \cup Put(w, {<<0, 1, 24>>}) \cup imm
     ELSE (call \ 0 .. 23) \cup imm

\* J1 and J2 are the bits 22 and 21 of the value, inverted unless the sign is set.
JBits(w) == {b \in {21, 22} : (b \in w) = (23 \in w)}

\* A call of a function that is not Thumb becomes a BLX, to an even halfword.
WriteThmBranch(type, cell, w, symval) ==
  LET blx == type = "THM_CALL" /\ OPND_T(symval) = {}
      val == IF blx /\ 0 \in w THEN Succ(w) ELSE w
      kept == cell \cap (11 .. 15 \cup {28, 30, 31})
  IN (IF blx THEN kept \ {28} ELSE kept)
       \cup Put(val, ThmImm \cup {<<23, 1, 10>>}) \cup Put(JBits(val), {<<22, 1, 29>>, <<21, 1, 27>>})

WriteThmJump19(cell, w) ==
  (cell \cap (6 .. 9 \cup 11 .. 15 \cup {27, 28, 30, 31}))
    \cup Put(w, {<<19, 1, 10>>, <<11, 6, 0>>, <<18, 1, 29>>, <<17, 1, 27>>, <<0, 11, 16>>})

WriteThumb16(type, cell, w) ==
  CASE type = "THM_JUMP11" -> (cell \ 0 .. 10) \cup w
    [] type \in {"THM_JUMP8", "THM_PC8"} -> (cell \ 0 .. 7) \cup w
    [] type = "THM_ABS5" -> (cell \ 6 .. 10) \cup Left(w, 6)
    [] type = "THM_JUMP6" -> (cell \ (3 .. 7 \cup {9})) \cup Put(w, {<<5, 1, 9>>, <<0, 5, 3>>})

WriteMov(cell, w) == (cell \ (0 .. 11 \cup 16 .. 19)) \cup Put(w, MovImm)
WriteThmMov(cell, w) == (cell \ (0 .. 3 \cup {10} \cup 16 .. 23 \cup 28 .. 30)) \cup Put(w, ThmMovImm)

\* The number without its sign, and U for one that is not negative.
WriteAbs12(cell, w) ==
  (cell \ (0 .. 11 \cup {23})) \cup Bit(31 \notin w, 23) \cup (Abs(w) \cap 0 .. 11)
WriteThmPc12(cell, w) ==
  (cell \ ({7} \cup 16 .. 27)) \cup Bit(31 \notin w, 7) \cup Left(Abs(w) \cap 0 .. 11, 16)

\* [cell, error]: a group is checked when it is written.
WriteAlu(type, cell, w) ==
  LET val == RelMaskForGroup(type, Abs(w))
      o == RelAluMaskOffset(val, 2)
      rotation == {b \in 0 .. 3 : ((32 - o) \div 2 ^ (b + 1)) % 2 = 1}
  IN [cell |-> (cell \ (0 .. 11 \cup {22, 23})) \cup {IF 31 \in w THEN 22 ELSE 23}
                 \cup Left(rotation, 8) \cup Extract(val, o, 8),
      error |-> ~(val \subseteq o .. o + 7)]

WriteLoad(type, cell, w) ==
  LET val == RelMaskForGroup(type, Abs(w))
      u == Bit(31 \notin w, 23)
  IN CASE type \in Ldrs ->
            [cell |-> (cell \ (0 .. 11 \cup {23})) \cup u \cup (val \cap 0 .. 11),
             error |-> Exceeds(val, 12)]
       [] type \in Ldrss ->
            [cell |-> (cell \ (0 .. 3 \cup 8 .. 11 \cup {23})) \cup u \cup Put(val, SplitImm8),
             error |-> Exceeds(val, 8)]
       [] type \in Ldcs ->
            [cell |-> (cell \ (0 .. 7 \cup {23})) \cup u \cup (val \cap 0 .. 7),
             error |-> Exceeds(val, 12)]

\* ADR in Thumb: an immediate of twelve bits for one of several patterns, added
\* to the second halfword as it is.
WriteThmAlu(cell, w) ==
  LET val == Abs(w)
      byte(n) == Extract(val, 8 * n, 8)
      o == RelAluMaskOffset(val, 1)
      rotation == {b \in 0 .. 4 : ((32 - o) \div 2 ^ b) % 2 = 1}
      even == byte(2) = byte(0) /\ byte(3) = {} /\ byte(1) = {}
      odd == byte(3) = byte(1) /\ byte(2) = {} /\ byte(0) = {}
      same == \A n \in 1 .. 3 : byte(n) = byte(0)
      rotated == ~even /\ ~odd /\ ~same /\ ~Below(val, 8)
      imm12 ==
        IF even THEN {8} \cup byte(0) ELSE
        IF odd THEN {9} \cup byte(0) ELSE
        IF same THEN {8, 9} \cup byte(0) ELSE
        IF rotated THEN Left(rotation, 7) \cup Extract(val, o, 7) ELSE val
  IN [cell |-> (cell \ {5, 7, 10}) \cup (IF 31 \in w THEN {5, 7} ELSE {})
                 \cup Put(imm12, {<<11, 1, 10>>, <<8, 3, 28>>, <<0, 8, 16>>}),
      error |-> rotated /\ ~(val \subseteq o .. o + 7)]

\* [cell, error]: write_reloc_r.
ArmWrite(type, cell, w, symval) ==
  IF type = "ALU_PC_G1" THEN [cell |-> cell, error |-> TRUE] ELSE
  IF type \in Alus THEN WriteAlu(type, cell, w) ELSE
  IF type \in GroupTypes THEN WriteLoad(type, cell, w) ELSE
  IF type = "THM_ALU_PREL_11_0" THEN WriteThmAlu(cell, w) ELSE
  [cell |->
     CASE type \in ArmCalls \cup {"JUMP24"} -> WriteArmBranch(type, cell, w, symval)
       [] type \in ThmCalls -> WriteThmBranch(type, cell, w, symval)
       [] type = "THM_JUMP19" -> WriteThmJump19(cell, w)
       [] type \in Thumb16s -> WriteThumb16(type, cell, w)
       [] type \in MovWs \cup MovTs -> WriteMov(cell, w)
       [] type \in ThmMovWs \cup ThmMovTs -> WriteThmMov(cell, w)
       [] type = "ABS12" -> WriteAbs12(cell, w)
       [] type = "THM_PC12" -> WriteThmPc12(cell, w)
       [] OTHER -> WriteData(type, cell, w),
   error |-> FALSE]

\* [cell, error]: reloc_do.
ArmRelocDo(type, cell, addend, symval, pc) ==
  LET value == ArmValue(type, symval, addend, pc)
      put == ArmWrite(type, cell, ArmMasked(type, ArmPack(type, value)), symval)
  IN [put EXCEPT !.error = @ \/ type = "PLT32" \/ ArmOverflow(type, value)]

-----------------------------------------------------------------------------
(* The addend that a cell holds (rel_unpack_addend)                          *)

Minus(yes, w) == IF yes THEN Neg(w) ELSE w

ReadData(type, cell) ==
  CASE type \in Word32s -> cell
    [] type = "PREL31" -> Extend(cell \cap 0 .. 30, 31)
    [] type = "ABS16" -> Extend(cell \cap 0 .. 15, 16)
    [] type = "ABS8" -> Extend(cell \cap 0 .. 7, 8)

ReadArmBranch(cell) ==
  Extend(Left(cell \cap 0 .. 23, 2) \cup Bit(IsBlx(cell) /\ 24 \in cell, 1), 26)

ReadThmBranch(cell) ==
  LET raw == Get(cell, ThmImm \cup {<<23, 1, 10>>, <<22, 1, 29>>, <<21, 1, 27>>})
  IN Extend(Left((raw \ {21, 22}) \cup JBits(raw), 1), 25)

ReadThmJump19(cell) ==
  LET raw == Get(cell, {<<19, 1, 10>>, <<11, 6, 0>>, <<17, 1, 29>>, <<18, 1, 27>>, <<0, 11, 16>>})
  IN Extend(Left(raw, 1), 21)

\* The values of PC8 and JUMP6 begin at -4.
ReadThumb16(type, cell) ==
  CASE type = "THM_JUMP11" -> Extend(Left(cell \cap 0 .. 10, 1), 12)
    [] type = "THM_JUMP8" -> Extend(Left(cell \cap 0 .. 7, 1), 9)
    [] type = "THM_ABS5" -> Left(Extract(cell, 6, 5), 2)
    [] type = "THM_PC8" -> Plus(Plus(Left(cell \cap 0 .. 7, 2), {2}) \cap 0 .. 9, Neg({2}))
    [] type = "THM_JUMP6" ->
         Plus(Plus(Left(Get(cell, {<<5, 1, 9>>, <<0, 5, 3>>}), 1), {2}) \cap 0 .. 6, Neg({2}))

\* A rotation by half of what the instruction means.
ReadAlu(cell) ==
  LET r == CHOOSE n \in 0 .. 15 : \A b \in 0 .. 3 : (n \div 2 ^ b) % 2 = (IF 8 + b \in cell THEN 1 ELSE 0)
      imm == cell \cap 0 .. 7
  IN Minus(22 \in cell /\ 23 \notin cell, Right(imm, r) \cup Left(imm, (32 - r) % 32))

\* The bits above the pattern are taken from the first halfword's opcode.
ReadThmAlu(cell) ==
  LET imm12 == Get(cell, {<<11, 3, 12>>, <<8, 3, 28>>, <<0, 8, 16>>})
      imm == imm12 \cap 0 .. 7
      copies ==
        IF 8 \in imm12 THEN IF 9 \in imm12 THEN 0 .. 3 ELSE {0, 2}
        ELSE IF 9 \in imm12 THEN {1, 3} ELSE {0}
      r == CHOOSE n \in 0 .. 31 :
             \A b \in 0 .. 4 : (n \div 2 ^ b) % 2 = (IF 7 + b \in imm12 THEN 1 ELSE 0)
      turned == (imm12 \cap 0 .. 6) \cup {7}
  IN Minus({5, 7} \subseteq cell,
       IF {10, 11} \cap imm12 = {} THEN UNION {Left(imm, 8 * n) : n \in copies}
       ELSE Right(turned, r) \cup Left(turned, 32 - r))

ArmAddend(type, cell) ==
  CASE type \in ArmCalls \cup {"JUMP24"} -> ReadArmBranch(cell)
    [] type \in ThmCalls -> ReadThmBranch(cell)
    [] type = "THM_JUMP19" -> ReadThmJump19(cell)
    [] type \in Thumb16s -> ReadThumb16(type, cell)
    [] type \in MovWs \cup MovTs -> Extend(Get(cell, MovImm), 16)
    [] type \in ThmMovWs \cup ThmMovTs -> Extend(Get(cell, ThmMovImm), 16)
    [] type \in Ldrs \cup {"ABS12"} -> Minus(23 \notin cell, cell \cap 0 .. 11)
    [] type = "THM_PC12" -> Minus(7 \notin cell, Extract(cell, 16, 12))
    [] type \in Ldrss -> Minus(23 \notin cell, Get(cell, SplitImm8))
    [] type \in Ldcs -> Minus(23 \notin cell, cell \cap 0 .. 7)
    [] type \in Alus -> ReadAlu(cell)
    [] type = "THM_ALU_PREL_11_0" -> ReadThmAlu(cell)
    [] OTHER -> ReadData(type, cell)
=============================================================================
