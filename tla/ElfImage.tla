------------------------------ MODULE ElfImage ------------------------------
(***************************************************************************)
(* What dload.c does with the image of one module: its segments are placed *)
(* where the client has memory, and every address that the file gives for  *)
(* something in them (symbols, dynamic tags, the entry point) is moved     *)
(* along, once; the initialisation and termination functions are called by *)
(* the moved addresses.  Addresses are words modulo AddressSpace.          *)
(***************************************************************************)
EXTENDS Naturals, Sequences, SequencesExt

CONSTANTS
  AddressSpace,     \* 2^32 in the code
  SegmentSizes,     \* p_memsz of the loadable segments
  ArrayLength       \* the functions in DT_INIT_ARRAY and DT_FINI_ARRAY

ASSUME ElfImageAssumption ==
  /\ AddressSpace \in Nat \ {0} /\ ArrayLength \in Nat
  /\ SegmentSizes \in Seq(Nat \ {0})

Addresses == 0 .. AddressSpace - 1
SegmentIndices == DOMAIN SegmentSizes

VARIABLES
  imageStep,        \* how far loading is
  etype,            \* of the file header
  address,          \* the address that everything has in the file
  segments,         \* DLIMP_Loaded_Segments
  placed,           \* how many of them have memory
  phdr,             \* the p_vaddr of the program headers
  symtab, gsymtab,  \* the symbols while loading, and those that are kept
  entryPoint, relocateEntryPoint,
  dyntab, fini, finiArray,
  written,          \* the contents of the segments are in the target's memory
  executed          \* what DLIF_execute has called: which function, of which table

imageVars == <<imageStep, etype, address, segments, placed, phdr, symtab, gsymtab, entryPoint,
               relocateEntryPoint, dyntab, fini, finiArray, written, executed>>

Adjusted(addr, from, to) == (addr + AddressSpace + to - from) % AddressSpace

\* Linked: no two overlap, and none touches the end of the address space.
LinkedAt(starts) ==
  \A i, j \in SegmentIndices :
    /\ starts[i] + SegmentSizes[i] < AddressSpace
    /\ i # j => starts[i] + SegmentSizes[i] <= starts[j] \/ starts[j] + SegmentSizes[j] <= starts[i]

Tagged(tags) == [i \in DOMAIN tags |-> [tag |-> tags[i], ptr |-> address]]

\* DLSYM_copy_globals: the symbols from the first global one on stay with the module.
CopyGlobals(symbols) == SelectSeq(symbols, LAMBDA s : s.bind = "global")

ImageInit ==
  /\ imageStep = "placing" /\ etype \in {"exec", "dyn"} /\ address \in Addresses
  /\ \E starts \in {s \in [SegmentIndices -> Addresses] : LinkedAt(s)} :
       /\ segments = [i \in SegmentIndices |->
                        [vaddr |-> starts[i], input |-> 0, memsz |-> SegmentSizes[i]]]
       /\ phdr = starts
  /\ placed = 0
  /\ symtab = <<[name |-> "__c_args__", bind |-> "local", vis |-> "default", shndx |-> "section",
                 value |-> address],
                [name |-> "imported", bind |-> "global", vis |-> "default", shndx |-> "undef",
                 value |-> 0],
                [name |-> "exported", bind |-> "global", vis |-> "protected", shndx |-> "section",
                 value |-> address]>>
  /\ gsymtab = CopyGlobals(symtab)
  /\ entryPoint = address /\ relocateEntryPoint = TRUE
  /\ dyntab \in {Tagged(<<>>), Tagged(<<"INIT", "INIT_ARRAY", "FINI", "FINI_ARRAY">>),
                 Tagged(<<"PREINIT_ARRAY", "FINI">>), Tagged(<<"PLTGOT">>)}
  /\ fini = 0 /\ finiArray = 0 /\ written = FALSE /\ executed = <<>>

-----------------------------------------------------------------------------
(* allocate_dynamic_segments_and_relocate_symbols *)

Within(addr, start, size) == addr >= start /\ addr < (start + size) % AddressSpace

\* A symbol that has been moved carries the section index INT16_MAX.
MovedSymbol(sym, from, to, size) ==
  LET value == Adjusted(sym.value, from, to)
  IN IF Within(value, to, size) /\ sym.shndx # "moved"
     THEN [sym EXCEPT !.value = value, !.shndx = "moved"] ELSE sym

\* (mutant) a symbol is moved again for a segment linked where it is by now.
MovedSymbolAgain(sym, from, to, size) ==
  LET value == Adjusted(sym.value, from, to)
  IN IF Within(value, to, size) THEN [sym EXCEPT !.value = value] ELSE sym

\* The header is the first whose address is that of the segment, moved or not.
MovedHeader(from, to) ==
  LET j == SelectInSeq(phdr, LAMBDA a : a = from)
  IN IF j = 0 THEN phdr ELSE [phdr EXCEPT ![j] = to]

\* DLIF_allocate gives a place that overlaps none of the others.
IsFree(at, i) ==
  /\ at + SegmentSizes[i] < AddressSpace
  /\ \A j \in 1 .. i - 1 : \/ at + SegmentSizes[i] <= segments[j].vaddr
                           \/ segments[j].vaddr + SegmentSizes[j] <= at

PlaceSegment(at) ==
  LET i == placed + 1
      from == segments[i].vaddr
      size == segments[i].memsz
      moved == [s \in DOMAIN symtab |-> MovedSymbol(symtab[s], from, at, size)]
      firstGlobal == Len(symtab) - Len(gsymtab)
  IN /\ imageStep = "placing" /\ placed < Len(segments) /\ IsFree(at, i)
     /\ placed' = i
     /\ segments' = [segments EXCEPT ![i].vaddr = at, ![i].input = from]
     /\ IF relocateEntryPoint /\ Within(entryPoint, from, size)
        THEN entryPoint' = Adjusted(entryPoint, from, at) /\ relocateEntryPoint' = FALSE
        ELSE UNCHANGED <<entryPoint, relocateEntryPoint>>
     /\ phdr' = MovedHeader(from, at)
     /\ symtab' = moved
     /\ gsymtab' = [g \in DOMAIN gsymtab |->
          [gsymtab[g] EXCEPT !.value = IF moved[g + firstGlobal] # symtab[g + firstGlobal]
                                       THEN moved[g + firstGlobal].value ELSE @]]
     /\ UNCHANGED <<imageStep, etype, address, dyntab, fini, finiArray, written, executed>>

PlaceFails ==
  /\ imageStep = "placing" /\ placed < Len(segments)
  /\ imageStep' = "refused"
  /\ UNCHANGED <<etype, address, segments, placed, phdr, symtab, gsymtab, entryPoint,
                 relocateEntryPoint, dyntab, fini, finiArray, written, executed>>

\* The tags that are the address of a section; DT_PLTGOT is known to no case.
SectionTags == {"PREINIT_ARRAY", "INIT", "INIT_ARRAY", "FINI", "FINI_ARRAY", "DSBT_BASE"}

\* DLIMP_update_dyntag_section_address: by the segment's address in the file.
SectionsSegment(ptr) ==
  SelectInSeq(segments, LAMBDA s : Within(ptr, s.input, s.memsz))

UpdatedTag(t) ==
  LET s == segments[SectionsSegment(t.ptr)] IN [t EXCEPT !.ptr = Adjusted(@, s.input, s.vaddr)]

TagIsRelocated(t) == t.tag \in SectionTags /\ SectionsSegment(t.ptr) # 0

TagValue(tags, name, default) ==
  LET i == SelectInSeq(tags, LAMBDA t : t.tag = name) IN IF i = 0 THEN default ELSE tags[i].ptr

\* In a program the functions of DT_PREINIT_ARRAY are read and called here: from the
\* target's memory, before the segments are copied there.
RelocateDynamicTagInfo ==
  /\ imageStep = "placing" /\ placed = Len(segments)
  /\ \A i \in DOMAIN dyntab : TagIsRelocated(dyntab[i])
  /\ dyntab' = [i \in DOMAIN dyntab |-> UpdatedTag(dyntab[i])]
  /\ fini' = TagValue(dyntab', "FINI", fini)
  /\ finiArray' = TagValue(dyntab', "FINI_ARRAY", finiArray)
  /\ executed' = IF etype = "exec" /\ TagValue(dyntab, "PREINIT_ARRAY", AddressSpace) # AddressSpace
                 THEN <<[table |-> "PREINIT_ARRAY", function |-> 1, at |-> TagValue(dyntab', "PREINIT_ARRAY", 0),
                         known |-> written]>> ELSE executed
  /\ imageStep' = "placed"
  /\ UNCHANGED <<etype, address, segments, placed, phdr, symtab, gsymtab, entryPoint,
                 relocateEntryPoint, written>>

TagIsRefused ==
  /\ imageStep = "placing" /\ placed = Len(segments)
  /\ \E i \in DOMAIN dyntab : ~TagIsRelocated(dyntab[i])
  /\ imageStep' = "refused"
  /\ UNCHANGED <<etype, address, segments, placed, phdr, symtab, gsymtab, entryPoint,
                 relocateEntryPoint, dyntab, fini, finiArray, written, executed>>

-----------------------------------------------------------------------------
(* process_dynamic_module_relocations and execute_module_initialization *)

CopyAndWriteSegments ==
  /\ imageStep = "placed" /\ imageStep' = "written" /\ written' = TRUE
  /\ UNCHANGED <<etype, address, segments, placed, phdr, symtab, gsymtab, entryPoint,
                 relocateEntryPoint, dyntab, fini, finiArray, executed>>

Executed(table, at, order) ==
  [i \in DOMAIN order |-> [table |-> table, function |-> order[i], at |-> at, known |-> written]]
Forward == [i \in 1 .. ArrayLength |-> i]
HasTag(name) == \E i \in DOMAIN dyntab : dyntab[i].tag = name

ExecuteModuleInitialization ==
  /\ imageStep = "written" /\ imageStep' = "ready"
  /\ executed' = executed
       \o (IF HasTag("INIT") THEN Executed("INIT", TagValue(dyntab, "INIT", 0), <<1>>) ELSE <<>>)
       \o (IF HasTag("INIT_ARRAY")
           THEN Executed("INIT_ARRAY", TagValue(dyntab, "INIT_ARRAY", 0), Forward) ELSE <<>>)
  /\ UNCHANGED <<etype, address, segments, placed, phdr, symtab, gsymtab, entryPoint,
                 relocateEntryPoint, dyntab, fini, finiArray, written>>

\* execute_module_termination: by the addresses kept, of which 0 is none.
ExecuteModuleTermination ==
  /\ imageStep = "ready" /\ imageStep' = "ended"
  /\ executed' = executed
       \o (IF HasTag("FINI_ARRAY") THEN Executed("FINI_ARRAY", finiArray, Reverse(Forward)) ELSE <<>>)
       \o (IF fini # 0 THEN Executed("FINI", fini, <<1>>) ELSE <<>>)
  /\ UNCHANGED <<etype, address, segments, placed, phdr, symtab, gsymtab, entryPoint,
                 relocateEntryPoint, dyntab, fini, finiArray, written>>

\* A static executable is loaded where it is linked.
LoadStaticSegment ==
  /\ imageStep = "placing" /\ placed = 0 /\ etype = "exec" /\ dyntab = <<>>
  /\ segments' = [i \in DOMAIN segments |-> [segments[i] EXCEPT !.input = segments[i].vaddr]]
  /\ placed' = Len(segments) /\ written' = TRUE /\ imageStep' = "ready"
  /\ UNCHANGED <<etype, address, phdr, symtab, gsymtab, entryPoint, relocateEntryPoint, dyntab,
                 fini, finiArray, executed>>

ImageNext ==
  \/ \E at \in Addresses : PlaceSegment(at)
  \/ PlaceFails \/ RelocateDynamicTagInfo \/ TagIsRefused \/ CopyAndWriteSegments
  \/ ExecuteModuleInitialization \/ ExecuteModuleTermination \/ LoadStaticSegment

-----------------------------------------------------------------------------
(* What the client is told of a loaded module *)

\* DLSYM_lookup_symtab: the first that is defined and of that binding.
LookupSymtab(table, name, isLocal) ==
  SelectInSeq(table, LAMBDA s : s.shndx # "undef" /\ (s.bind = "local") = isLocal /\ s.name = name)

\* DLSYM_canonical_lookup: of a symbol that no other module may define.
MustBeHere(sym) == sym.bind = "local" \/ sym.vis # "default"
CanonicalLookup(sym, globalLookup) ==
  IF MustBeHere(sym) THEN <<sym.shndx # "undef", sym.value>> ELSE globalLookup

\* DLOAD_query_symbol asks for the name only.
QuerySymbol(name) ==
  LET i == SelectInSeq(gsymtab, LAMBDA s : s.name = name) IN <<i # 0, IF i = 0 THEN 0 ELSE gsymtab[i].value>>
GetEntryNames == {gsymtab[i].name : i \in DOMAIN gsymtab}

\* Where something that the file has at an address is now.
Now(addr) ==
  LET i == SelectInSeq(segments, LAMBDA s : addr \in s.input .. s.input + s.memsz - 1)
  IN IF i = 0 THEN addr ELSE segments[i].vaddr + addr - segments[i].input

\* No segment was placed where a later one is linked.
HeadersAreApart ==
  \A i, j \in DOMAIN segments : j < i => segments[j].vaddr # segments[i].input

\* Whatever memory the client has for the segments, every address of the file is moved
\* with the segment it is in, and once: a symbol, in the table and in the copy that
\* stays, the entry point, the sections of the initialisation and termination
\* functions; and these are called in their order, backwards at the end.
ImagesAreSound ==
  imageStep \in {"ready", "ended"} =>
    /\ entryPoint = Now(address)
    /\ \A i \in DOMAIN symtab : symtab[i].name # "imported" => symtab[i].value = Now(address)
    /\ QuerySymbol("exported") = <<TRUE, Now(address)>> /\ "imported" \in GetEntryNames
    /\ symtab[LookupSymtab(symtab, "__c_args__", TRUE)].value = Now(address)
    /\ \A i \in DOMAIN symtab : CanonicalLookup(symtab[i], <<TRUE, "elsewhere">>) =
         <<TRUE, IF symtab[i].name = "imported" THEN "elsewhere" ELSE Now(address)>>
    /\ HeadersAreApart => \A i \in DOMAIN segments : phdr[i] = segments[i].vaddr
    /\ \A i \in DOMAIN executed :
         /\ executed[i].at = Now(address)
         /\ executed[i].known \/ executed[i].table = "PREINIT_ARRAY"
         /\ \A j \in 1 .. i - 1 :
              /\ executed[i].table \in {"INIT", "INIT_ARRAY"} => executed[j].table \notin {"FINI", "FINI_ARRAY"}
              /\ executed[j].table = executed[i].table =>
                   (executed[j].function < executed[i].function <=> executed[i].table # "FINI_ARRAY")
    /\ imageStep = "ended" /\ HasTag("FINI") /\ Now(address) # 0 => Last(executed).table = "FINI"
=============================================================================
