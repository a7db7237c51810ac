---------------------------- MODULE RelocTables ----------------------------
(***************************************************************************)
(* The walk over the relocation tables of a module (arm_reloc.c and        *)
(* c60_reloc.c: DLREL_relocate, process_got_relocs, process_pltgot_relocs, *)
(* process_rela_table).  The table is visited once for each segment, and   *)
(* each visit goes on where the last one stopped.                          *)
(***************************************************************************)
EXTENDS Naturals, Sequences, FiniteSets

CONSTANTS
  Segments,         \* the number of segments that are loaded
  MaxEntries        \* bound: the entries of a table

ASSUME RelocTablesAssumption == Segments \in Nat /\ MaxEntries \in Nat

VARIABLES
  table,            \* for every entry the segment its offset is in
  pltFrom,          \* the entries from here on are those of DT_JMPREL
  filled,           \* the segments with contents in the file
  unresolved,       \* the entries whose symbol is not found
  machine,          \* "arm", "c60" or, with addends in the fields, "c60rel"
  rid,              \* rela_rid, where the next visit begins
  applied,          \* how often each entry was applied
  tablePc           \* 0 with DT_JMPREL to come, then the segment to visit

tableVars == <<table, pltFrom, filled, unresolved, machine, rid, applied, tablePc>>

Exited == Segments + 2

TableInit ==
  /\ table \in UNION {[1 .. n -> 1 .. Segments] : n \in 0 .. MaxEntries}
  /\ pltFrom \in 1 .. Len(table) + 1
  /\ filled \in SUBSET (1 .. Segments)
  /\ \E e \in 0 .. Len(table) : unresolved = {e}
  /\ machine \in {"arm", "c60", "c60rel"}
  /\ rid = 1 /\ applied = [e \in DOMAIN table |-> 0] /\ tablePc = 0

-----------------------------------------------------------------------------
\* The run of entries that a visit for segment s finds: the first at or after
\* from, and those behind it up to one of another segment.
Run(s, from, last) ==
  LET hits == {e \in from .. last : table[e] = s}
  IN {e \in hits : \A f \in from .. e : table[f] = s \/ \A h \in hits : f < h}

\* A symbol that is not found leaves its entry as it was.
VisitSegment(s, from, last) ==
  LET run == Run(s, from, last) \ unresolved
  IN applied' = [e \in DOMAIN applied |-> IF e \in run THEN applied[e] + 1 ELSE applied[e]]

\* Where the visit stopped: at the first entry behind the run, or at the end.
Stop(s, from, last) ==
  LET run == Run(s, from, last)
  IN IF run = {} THEN last + 1 ELSE 1 + (CHOOSE e \in run : \A f \in run : f <= e)

\* The index is put back only when it is past the end.
ProcessArm(s, from) ==
  /\ VisitSegment(s, from, pltFrom - 1) /\ rid' = Stop(s, from, pltFrom - 1)
  /\ tablePc' = tablePc + 1

ProcessTableArm(s) ==
  machine = "arm" /\ ProcessArm(s, IF rid > pltFrom - 1 THEN 1 ELSE rid)

\* (mutant) a visit that found nothing leaves the next one nothing to look at.
ProcessTableForward(s) == machine = "arm" /\ ProcessArm(s, rid)

\* The C60's index is a parameter that is never written back.
ProcessRelaTableC60(s) ==
  /\ machine = "c60" /\ tablePc' = tablePc + 1
  /\ VisitSegment(s, rid, pltFrom - 1) /\ UNCHANGED rid

\* rel_unpack_addend: of the addend in a C60's field it makes exit(1).
UnpackExits(s, from, last) == Run(s, from, last) \ unresolved # {}

ProcessRelTableC60(s) ==
  /\ machine = "c60rel"
  /\ tablePc' = IF UnpackExits(s, rid, pltFrom - 1) THEN Exited ELSE tablePc + 1
  /\ UNCHANGED <<applied, rid>>

\* All of the entries for the procedure linkage table are taken to be for the
\* segment that the first of them is in.
ProcessPltgotRelocs ==
  /\ tablePc = 0 /\ machine # "c60rel" /\ tablePc' = 1
  /\ IF pltFrom <= Len(table) /\ table[pltFrom] \in filled
     THEN VisitSegment(table[pltFrom], pltFrom, Len(table))
     ELSE UNCHANGED applied
  /\ UNCHANGED <<table, pltFrom, filled, unresolved, machine, rid>>

\* With addends in the fields the program ends here too.
ProcessPltgotRelC60 ==
  /\ tablePc = 0 /\ machine = "c60rel"
  /\ tablePc' = IF pltFrom <= Len(table) /\ table[pltFrom] \in filled
                   /\ UnpackExits(table[pltFrom], pltFrom, Len(table)) THEN Exited ELSE 1
  /\ UNCHANGED <<table, pltFrom, filled, unresolved, machine, rid, applied>>

SkipSegment ==
  /\ tablePc \in (1 .. Segments) \ filled /\ tablePc' = tablePc + 1
  /\ UNCHANGED <<table, pltFrom, filled, unresolved, machine, rid, applied>>

ProcessGotRelocs ==
  /\ tablePc \in filled
  /\ \/ ProcessTableArm(tablePc) \/ ProcessRelaTableC60(tablePc) \/ ProcessRelTableC60(tablePc)
  /\ UNCHANGED <<table, pltFrom, filled, unresolved, machine>>

DLREL_relocate ==
  machine = "arm" /\ (ProcessPltgotRelocs \/ SkipSegment \/ ProcessGotRelocs)

DLREL_relocate_c60 ==
  /\ machine # "arm"
  /\ ProcessPltgotRelocs \/ ProcessPltgotRelC60 \/ SkipSegment \/ ProcessGotRelocs

TableNext == DLREL_relocate \/ DLREL_relocate_c60

-----------------------------------------------------------------------------
\* The entries of a segment are together, as a linker leaves them that goes
\* through the sections.
Grouped(first, last) ==
  \A e \in first .. last, f \in first .. last :
    (e < f /\ table[e] = table[f]) => \A g \in e .. f : table[g] = table[e]

\* The groups come in the order of the segments.
Sorted(first, last) ==
  \A e \in first .. last, f \in first .. last : e < f => table[e] <= table[f]

(* No entry is applied twice, and with the groups in order, for the C60 in  *)
(* any order, every one is applied that is in a segment with contents: no   *)
(* visit starts behind what it is for, whatever segments had no entries.    *)
EntriesAreApplied ==
  /\ \A e \in DOMAIN table : applied[e] <= 1 /\ (applied[e] = 1 => table[e] \in filled)
  /\ tablePc = Segments + 1 =>
       /\ (IF machine = "arm" THEN Sorted(1, pltFrom - 1) ELSE Grouped(1, pltFrom - 1)) =>
            \A e \in 1 .. pltFrom - 1 : table[e] \in filled => e \in unresolved \/ applied[e] = 1
       /\ \A e \in pltFrom .. Len(table) :
            (table[e] \in filled /\ \A f \in pltFrom .. e : table[f] = table[pltFrom])
              => e \in unresolved \/ applied[e] = 1
=============================================================================
