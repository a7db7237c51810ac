----------------------------- MODULE MCFirmware -----------------------------
(***************************************************************************)
(* The parts of the BIOS images that have no state in common, and those of *)
(* the loader and the image tools, for TLC: a behaviour is one of a single *)
(* part.                                                                   *)
(***************************************************************************)
EXTENDS Interrupts, OffloadM3, IpcResource, Watchdog, SysMin, HdmiWa,
  Loader, ElfImage, Relocations, RelocTables, Dsbt, TargetMem, FirmwareImage, DebugRecords

\* The loader: a dependent of two modules, named after or before its other user, and
\* two modules that need each other.
MCShared == [a |-> <<"b", "c">>, b |-> <<"c">>, c |-> <<>>]
MCGraphs ==
  {MCShared, [a |-> <<"c", "b">>, b |-> <<"c">>, c |-> <<>>], [a |-> <<"b">>, b |-> <<"a">>, c |-> <<>>]}
MCExports == [a |-> {}, b |-> {"f"}, c |-> {"f", "g"}]
MCImports == [a |-> {"f", "g"}, b |-> {"g"}, c |-> {"f"}]

MCSegmentSizes == <<2, 1>>

MCTags ==
  <<[name |-> "restab", core |-> 0, addr |-> 20, size |-> 0],
    [name |-> "trace", core |-> 0, addr |-> 7, size |-> 5],
    [name |-> "trace", core |-> 1, addr |-> 9, size |-> 5],
    [name |-> "entry", core |-> 0, addr |-> 3, size |-> 0],
    [name |-> "text", core |-> 0, addr |-> 2, size |-> 0]>>

\* The resource table is linked first, last or is missing.
MCExecutables ==
  {<<>>, <<[da |-> 2, size |-> 5], [da |-> 12, size |-> 0], [da |-> 20, size |-> 1]>>,
   <<[da |-> 20, size |-> 1], [da |-> 2, size |-> 5], [da |-> 10, size |-> 8]>>}

\* Regions that are sections, a supersection, or neither.
MCRegions ==
  [type : {"CARVEOUT", "DEVMEM"}, da : {0, 2, 9}, pa : {0, 8}, len : {2, 3, 10}]
MCTables ==
  {<<d, [type |-> "CARVEOUT", da |-> da, pa |-> 16, len |-> 8], [type |-> t, da |-> core, pa |-> 0, len |-> 0],
     [type |-> "DEVMEM", da |-> 16, pa |-> 4, len |-> 2]>> :
     d \in MCRegions, da \in {0, 8}, t \in {"TRACE", "BOOTADDR"}, core \in {0, 1}}

VARIABLE part

ToolParts == {"loader", "image", "reloc", "tables", "dsbt", "memory", "file", "debug"}

toolVars ==
  <<loaderVars, imageVars, relocVars, tableVars, dsbtVars, targetMemVars, fileVars, debugVars>>

\* The parts that are not looked at start in one way only.
NoImage ==
  /\ imageStep = "idle" /\ etype = "dyn" /\ address = 0 /\ segments = <<>> /\ placed = 0
  /\ phdr = <<>> /\ symtab = <<>> /\ gsymtab = <<>> /\ entryPoint = 0
  /\ relocateEntryPoint = FALSE /\ dyntab = <<>> /\ fini = 0 /\ finiArray = 0
  /\ written = FALSE /\ executed = <<>>
NoReloc == reloc = <<>> /\ before = {} /\ after = <<>> /\ relocPc = "idle"
NoTable ==
  /\ table = <<>> /\ pltFrom = 1 /\ filled = {} /\ unresolved = {} /\ machine = "none"
  /\ rid = 1 /\ applied = <<>> /\ tablePc = 0
NoFile ==
  /\ fileStep = "copying" /\ executable = <<>> /\ resourceTable = <<>> /\ segmentsCopied = 0
  /\ outFile = <<>> /\ patched = <<>> /\ memEntries = <<>> /\ l1Table = <<>> /\ tocTable = <<>>

ToolInit ==
  /\ LoaderInit /\ (part # "loader" => needs = MCShared)
  /\ IF part = "image" THEN ImageInit ELSE NoImage
  /\ IF part = "reloc" THEN RelocInit ELSE NoReloc
  /\ IF part = "tables" THEN TableInit ELSE NoTable
  /\ DsbtInit /\ TargetMemInit /\ DebugInit
  /\ IF part = "file" THEN FileInit ELSE NoFile

Loads(step) ==
  /\ part = "loader" /\ step
  /\ UNCHANGED <<imageVars, relocVars, tableVars, dsbtVars, targetMemVars, fileVars, debugVars>>
Places(step) ==
  /\ part = "image" /\ step
  /\ UNCHANGED <<loaderVars, relocVars, tableVars, dsbtVars, targetMemVars, fileVars, debugVars>>
Relocates(step) ==
  /\ part = "reloc" /\ step
  /\ UNCHANGED <<loaderVars, imageVars, tableVars, dsbtVars, targetMemVars, fileVars, debugVars>>
GoesThrough(step) ==
  /\ part = "tables" /\ step
  /\ UNCHANGED <<loaderVars, imageVars, relocVars, dsbtVars, targetMemVars, fileVars, debugVars>>
FindsBases(step) ==
  /\ part = "dsbt" /\ step
  /\ UNCHANGED <<loaderVars, imageVars, relocVars, tableVars, targetMemVars, fileVars, debugVars>>
Allocates(step) ==
  /\ part = "memory" /\ step
  /\ UNCHANGED <<loaderVars, imageVars, relocVars, tableVars, dsbtVars, fileVars, debugVars>>
Builds(step) ==
  /\ part = "file" /\ step
  /\ UNCHANGED <<loaderVars, imageVars, relocVars, tableVars, dsbtVars, targetMemVars, debugVars>>
Debugs(step) ==
  /\ part = "debug" /\ step
  /\ UNCHANGED <<loaderVars, imageVars, relocVars, tableVars, dsbtVars, targetMemVars, fileVars>>

ToolNext ==
  /\ part \in ToolParts
  /\ \/ Loads(LoaderNext) \/ Places(ImageNext) \/ Relocates(RelocNext) \/ GoesThrough(TableNext)
     \/ FindsBases(DsbtNext) \/ Allocates(TargetMemNext) \/ Builds(FileNext) \/ Debugs(DebugNext)
  /\ UNCHANGED part

-----------------------------------------------------------------------------

MCMail == [c \in Leads |->
  IF c = "DSP" THEN {"vq", "echo", "hib", "hibForce"} ELSE {"vqApp", "hib", "hibForce"}]

MCNodes ==
  {[callback |-> 1, event |-> "SUSPEND"], [callback |-> 1, event |-> "RESUME"],
   [callback |-> 2, event |-> "SUSPEND"]}

taskVars == <<offVars, resVars, wdVars, trcVars, hdVars>>

HdmiPayloads == {[period |-> 11, cts |-> 5]}
runVars == <<part, mailVars, taskVars>>
fwVars == <<runVars, toolVars>>

FwInit ==
  /\ part \in Leads \cup {"power", "offload", "resource", "watchdog", "trace", "hdmi"} \cup ToolParts
  /\ IntInit /\ (hostPc["DSP"] = "away" <=> part = "power")
  /\ PowerInit /\ OffInit /\ ResInit /\ WdInit /\ TrcInit /\ HdInit /\ ToolInit

\* A step of one part leaves the others as they are.
Mails(lead, step) == part = lead /\ step /\ UNCHANGED <<part, taskVars>>
Powers(step) == part = "power" /\ step /\ UNCHANGED <<part, intVars, taskVars>>
Offloads(step) ==
  part = "offload" /\ step /\ UNCHANGED <<part, mailVars, resVars, wdVars, trcVars, hdVars>>
Requests(step) ==
  part = "resource" /\ step /\ UNCHANGED <<part, mailVars, offVars, wdVars, trcVars, hdVars>>
Watches(step) ==
  part = "watchdog" /\ step /\ UNCHANGED <<part, mailVars, offVars, resVars, trcVars, hdVars>>
Traces(step) ==
  part = "trace" /\ step /\ UNCHANGED <<part, mailVars, offVars, resVars, wdVars, hdVars>>
Hdmi(step) ==
  part = "hdmi" /\ step /\ UNCHANGED <<part, mailVars, offVars, resVars, wdVars, trcVars>>
Tools(step) == step /\ UNCHANGED <<mailVars, taskVars>>

RunNext ==
  \/ \E lead \in Leads : Mails(lead, IntNext(lead))
  \/ Powers(PowerNext("DSP")) \/ Offloads(OffNext)
  \/ Requests(ResNext) \/ Watches(WdNext) \/ Traces(TrcNext)
  \/ Hdmi(HdNext)

FwNext == (RunNext /\ UNCHANGED toolVars) \/ Tools(ToolNext)

(* Fairness.  A behaviour is one of a single part, so that one condition may *)
(* stand for one process of each of them.                                    *)
FairOne ==
  \/ Mails("SysM3", CpuRuns("SysM3")) \/ Mails("DSP", CpuRuns("DSP")) \/ Powers(PowerRuns("DSP"))
  \/ Offloads(WorkerRuns("AC")) \/ Requests(InCall("t1"))
  \/ Watches(TimePasses) \/ Hdmi(HdTime)

FairTwo ==
  \/ Mails("SysM3", CpuRuns("AppM3")) \/ Mails("DSP", HostRuns("DSP"))
  \/ Offloads(WorkerRuns("VS")) \/ Requests(InCall("t2")) \/ Hdmi(HdTask)

FwSpec ==
  /\ FwInit /\ [][FwNext]_fwVars
  /\ WF_runVars(FairOne) /\ WF_runVars(FairTwo) /\ WF_runVars(Mails("SysM3", HostRuns("SysM3")))
  /\ SF_runVars(Requests(ResPend("t1")))

-----------------------------------------------------------------------------
(* Of one process of each part, where the others are like it: work that was  *)
(* asked of OffloadM3, through creation and deletion; a call of the resource *)
(* manager, also when answers are late or requests cannot be sent; a core    *)
(* that sticks, also when it was idle with its timer stopped, or asleep,     *)
(* before; a payload for the audio workaround, whatever the interrupt does   *)
(* to the registers the task waits for.                                      *)
Waits ==
  \/ part = "offload" /\ offStatus["AC"] = "asked"
  \/ part = "resource" /\ resPc["t1"] = "pend"
  \/ part = "watchdog" /\ thread[1] = "stuck" /\ 1 \in wdOn
  \/ part = "hdmi" /\ hdPc # "recv"

IsServed ==
  \/ part = "offload" /\ offStatus["AC"] = "done"
  \/ part = "resource" /\ resPc["t1"] = "idle"
  \/ part = "watchdog" /\ 1 \in fired
  \/ part = "hdmi" /\ hdPc = "recv"

WhoWaitsIsServed == Waits ~> IsServed

(* IpcPower_exit returns: ExitReturns of the module, for one processor.      *)
DspExitReturns == ExitReturns("DSP")

(* Of mail, of IpcPower_exit and of whoever else waits something comes in    *)
(* the end.                                                                  *)
NobodyIsForgotten ==
  AcknowledgedMeansSleep /\ MailIsHeard /\ DspExitReturns /\ WhoWaitsIsServed

(* A relocation that the loader does not complain of means what was asked    *)
(* for, and every entry of a table is applied once (arm_reloc.c, c60_reloc.c). *)
(* Here and below each part has the exceptions that its own comment names.   *)
RelocationIsSound == RelocationsAreExact /\ EntriesAreApplied

(* Modules are loaded, moved, initialised and counted together with those    *)
(* they need, and find the data of the others (dload.c, dlw_dsbt.c).         *)
ModulesAreSound == LoadingIsSound /\ ImagesAreSound /\ BasesAreFound

(* Target memory is shared out without overlap, the image has every section, *)
(* translated as the resource table says, and a debugger finds every module  *)
(* (dlw_trgmem.c, dlw_client.c, genextbin.c, dlw_debug.c).                   *)
TargetIsSound == MemoryIsShared /\ ImageIsWhole /\ DebugListIsWhole

(* The loader and the image tools: what is relocated, loaded and laid out in *)
(* target memory is what was asked for, but for what is excepted where each  *)
(* part is stated: relocations that the code does wrong, the order of        *)
(* initialisation and cycles of modules, what the loader is told of an index *)
(* that was asked for, and memory from a request inside a packet on.         *)
ToolsAreSound == RelocationIsSound /\ ModulesAreSound /\ TargetIsSound
=============================================================================
