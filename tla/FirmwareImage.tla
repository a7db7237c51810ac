--------------------------- MODULE FirmwareImage ---------------------------
(***************************************************************************)
(* The file that a remote processor is booted from.  genbase has the       *)
(* loader copy the segments of an executable into it (dlw_client.c), the   *)
(* resource table in front and with the addresses of the trace buffers and *)
(* so on filled in; genextbin.c then appends the page table for the        *)
(* resources and the table of contents, with the physical address of every *)
(* section, for the signature.  Addresses count small pages; a section of  *)
(* the page table is SectionPages of them.                                 *)
(***************************************************************************)
EXTENDS Naturals, Integers, Sequences, SequencesExt

CONSTANTS
  Executables,      \* sequences of segments [da, size]
  Tables,           \* resource tables: sequences of [type, da, pa, len]
  Tags,             \* what genrprc finds: [name, core, addr, size]
  SectionPages,     \* 1M; the supersection is 16M
  Supersection,     \* pages in a supersection, sections in it times SectionPages
  MaxMemEntries,    \* RPROC_MAX_MEM_ENTRIES
  HeaderSize, ResourceSize

ASSUME FirmwareImageAssumption ==
  /\ {SectionPages, Supersection, MaxMemEntries, HeaderSize, ResourceSize} \subseteq Nat \ {0}
  /\ Supersection % SectionPages = 0

SectionHeader == 16
Unmapped == -1

VARIABLES
  fileStep,         \* "copying", "copied", "signed"
  executable,       \* the segments
  resourceTable,    \* the resource table as it is linked, with core numbers for addresses
  segmentsCopied,           \* how many segments are in the file
  outFile,          \* the sections of the file: type, da, len, and the segment it is
  patched,          \* the resource table as it is in the file
  memEntries,       \* va_pa_table
  l1Table,          \* mmu_l1_table: a physical page for each section
  tocTable          \* fw_toc_table

fileVars == <<fileStep, executable, resourceTable, segmentsCopied, outFile, patched, memEntries, l1Table, tocTable>>

FileInit ==
  /\ fileStep = "copying" /\ executable \in Executables /\ resourceTable \in Tables
  /\ segmentsCopied = 0 /\ outFile = <<>> /\ patched = <<>>
  /\ memEntries = <<>> /\ l1Table = <<>> /\ tocTable = <<>>

-----------------------------------------------------------------------------
(* DLIF_copy *)

TagOf(type) ==
  CASE type = "TRACE" -> "trace" [] type = "CRASHDUMP" -> "errbuf"
    [] type = "BOOTADDR" -> "entry" [] type = "SUSPENDADDR" -> "susp" [] OTHER -> "none"

\* The address of such a resource is the number of the core.
Patched(res) ==
  LET i == SelectInSeq(Tags, LAMBDA t : t.name = TagOf(res.type) /\ t.core = res.da)
  IN IF i = 0 THEN res
     ELSE [res EXCEPT !.da = Tags[i].addr,
                      !.len = IF res.type \in {"TRACE", "CRASHDUMP"} THEN Tags[i].size ELSE @]

PatchupResources(resources) == [i \in DOMAIN resources |-> Patched(resources[i])]

\* The last of the tags at the segment's address that ends the search decides.
SectionType(da) ==
  LET i == SelectInSeq(Tags, LAMBDA t : t.addr = da /\ t.name \in {"restab", "text", "data"})
  IN IF i = 0 THEN "data" ELSE Tags[i].name

\* The size is rounded up to words.
WholeWords(size) == ((size + 3) \div 4) * 4

SegmentSize(s) == IF SectionType(s.da) = "restab" THEN ResourceSize * Len(resourceTable) ELSE s.size

SectionOf(i) ==
  LET s == executable[i]
  IN [type |-> SectionType(s.da), da |-> s.da, len |-> WholeWords(SegmentSize(s)), segment |-> i]

\* finsert puts the resource table in front of what is there.
Written(section) ==
  IF section.type = "restab" THEN <<section>> \o outFile ELSE Append(outFile, section)

\* (mutant) it is written where it comes.
WrittenBehind(section) == Append(outFile, section)

CopySegment ==
  /\ fileStep = "copying" /\ segmentsCopied < Len(executable)
  /\ LET section == SectionOf(segmentsCopied + 1)
     IN IF SegmentSize(executable[segmentsCopied + 1]) = 0 THEN UNCHANGED <<outFile, patched>>
        ELSE /\ outFile' = Written(section)
             /\ patched' = IF section.type = "restab" THEN PatchupResources(resourceTable) ELSE patched
  /\ segmentsCopied' = segmentsCopied + 1
  /\ UNCHANGED <<fileStep, executable, resourceTable, memEntries, l1Table, tocTable>>

\* genrprc puts the header that mkheader has made in front of it.
HeaderIsAdded ==
  /\ fileStep = "copying" /\ segmentsCopied = Len(executable)
  /\ fileStep' = "copied"
  /\ UNCHANGED <<executable, resourceTable, segmentsCopied, outFile, patched, memEntries, l1Table, tocTable>>

-----------------------------------------------------------------------------
(* process_image *)

\* process_resources and add_mem_entry: while the table has room.
MapsMemory(res) == res.type \in {"DEVMEM", "CARVEOUT"} /\ res.pa # 0
WithResources(entries) ==
  LET all == entries \o SelectSeq(patched, MapsMemory)
  IN SubSeq(all, 1, IF Len(all) < MaxMemEntries THEN Len(all) ELSE MaxMemEntries)

\* The table ends at the first entry of no length (none has the physical address 0).
\* The code also reads on behind a table that is full: what is there is taken to be 0.
UpToEmpty(entries) ==
  LET i == SelectInSeq(entries, LAMBDA e : e.len = 0)
  IN IF i = 0 THEN entries ELSE SubSeq(entries, 1, i - 1)

VaToPa(entries, va) ==
  LET i == SelectInSeq(UpToEmpty(entries), LAMBDA e : va >= e.da /\ va < e.da + e.len)
  IN IF i = 0 THEN Unmapped ELSE entries[i].pa + va - entries[i].da

\* Where the content of a section begins in the file.
OffsetOf(i) ==
  HeaderSize + SectionHeader + FoldLeft(LAMBDA n, s : n + SectionHeader + s.len, 0, SubSeq(outFile, 1, i - 1))

TocOfSection(toc, entries, i) ==
  IF VaToPa(entries, outFile[i].da) = Unmapped THEN toc
  ELSE Append(toc, [id |-> Len(toc) + 1, offset |-> OffsetOf(i),
                    pa |-> VaToPa(entries, outFile[i].da), len |-> outFile[i].len])

ProcessSections ==
  FoldLeft(LAMBDA acc, i :
             LET entries == IF outFile[i].type = "restab" THEN WithResources(acc.entries) ELSE acc.entries
             IN [entries |-> entries, toc |-> TocOfSection(acc.toc, entries, i)],
           [entries |-> <<>>, toc |-> <<>>], [i \in DOMAIN outFile |-> i])

\* create_ttb takes the largest piece that both addresses are aligned to and that fits,
\* until nothing is left; of small pages it only says that they are invalid.  Less than
\* a small page, or one that is not aligned to it, has no entry in mmu_sizes, behind
\* which the code then reads: regions here are whole pages.
PieceAt(va, pa, size) ==
  LET fits(n) == size >= n /\ va % n = 0 /\ pa % n = 0
  IN IF fits(Supersection) THEN Supersection ELSE IF fits(SectionPages) THEN SectionPages ELSE 1

Mapped(l1, va, pa, piece) ==
  LET sections == IF piece = 1 THEN {} ELSE {va \div SectionPages + j : j \in 0 .. piece \div SectionPages - 1}
  IN [s \in DOMAIN l1 \cup sections |->
        IF s \in sections THEN [pa |-> pa, pages |-> piece] ELSE l1[s]]

\* After every step of its inner loop: what is mapped, and how far it has come.
MapEntry(l1, entry) ==
  LET after[n \in 0 .. entry.len] ==
        IF n = 0 THEN [l1 |-> l1, done |-> 0]
        ELSE LET last == after[n - 1]
                 va == entry.da + last.done
                 pa == entry.pa + last.done
                 piece == PieceAt(va, pa, entry.len - last.done)
             IN IF last.done = entry.len THEN last
                ELSE [l1 |-> Mapped(last.l1, va, pa, piece), done |-> last.done + piece]
  IN after[entry.len].l1

CreateTtb(entries) == FoldLeft(MapEntry, <<>>, UpToEmpty(entries))

\* check_image finds no page table and no signature yet; these are the new sections.
ProcessImage ==
  /\ fileStep = "copied"
  /\ ~\E i \in DOMAIN outFile : outFile[i].type \in {"mmu", "signature"}
  /\ LET done == ProcessSections
         mmu == [type |-> "mmu", da |-> 0, len |-> 4, segment |-> 0]
         mmuOffset == OffsetOf(Len(outFile) + 1)
         tocs == done.toc
           \o <<[id |-> Len(done.toc) + 1, offset |-> mmuOffset, pa |-> mmu.da, len |-> mmu.len],
                [id |-> Len(done.toc) + 2, offset |-> -1, pa |-> -1, len |-> -1]>>
     IN /\ memEntries' = done.entries
        /\ l1Table' = CreateTtb(done.entries)
        /\ tocTable' = tocs
        /\ outFile' = outFile \o <<mmu, [type |-> "signature", da |-> 0, len |-> 0, segment |-> 0]>>
  /\ fileStep' = "signed"
  /\ UNCHANGED <<executable, resourceTable, segmentsCopied, patched>>

\* A second time it is refused.
ProcessedAlready ==
  /\ fileStep = "signed"
  /\ \E i \in DOMAIN outFile : outFile[i].type \in {"mmu", "signature"}
  /\ UNCHANGED fileVars

FileNext == CopySegment \/ HeaderIsAdded \/ ProcessImage \/ ProcessedAlready

-----------------------------------------------------------------------------
\* What the memory management unit makes of an address.
Translated(va) ==
  LET s == va \div SectionPages
  IN IF s \notin DOMAIN l1Table THEN Unmapped ELSE l1Table[s].pa + (va % l1Table[s].pages)

Covers(e, va) == va >= e.da /\ va < e.da + e.len
IsAligned(e) == \A x \in {e.da, e.pa, e.len} : x % SectionPages = 0
Overlap(d, e) == d.da < e.da + e.len /\ e.da < d.da + d.len

\* The file has every segment once, in the order of the executable but for the resource
\* table in front; what is missing in it is filled in.  The table of contents has every
\* section whose memory is known, wherever the resource table was linked, with its place
\* in the file; and the page table leads to the same memory, where regions are sections.
ImageIsWhole ==
  /\ fileStep # "copying" =>
       /\ \A i, j \in DOMAIN outFile : i < j /\ outFile[j].segment # 0 =>
            outFile[i].type = "restab" \/ outFile[i].segment < outFile[j].segment
       /\ \A i \in DOMAIN executable :
            SegmentSize(executable[i]) # 0 => \E s \in DOMAIN outFile : outFile[s].segment = i
       /\ \A i \in DOMAIN patched, t \in ToSet(Tags) :
            t.name = TagOf(resourceTable[i].type) /\ t.core = resourceTable[i].da => patched[i].da = t.addr
  /\ fileStep = "signed" =>
       /\ \A s \in DOMAIN outFile : outFile[s].segment # 0 =>
            LET pa == VaToPa(memEntries, outFile[s].da)
            IN pa # Unmapped => \E t \in ToSet(tocTable) : t.pa = pa /\ t.offset = OffsetOf(s)
       /\ (\A e \in ToSet(memEntries) : IsAligned(e) /\ \A d \in ToSet(memEntries) : d = e \/ ~Overlap(d, e))
            => \A e \in ToSet(memEntries) : \A va \in e.da .. e.da + e.len - 1 :
                 Translated(va) = VaToPa(memEntries, va)
=============================================================================
