------------------------------- MODULE Loader -------------------------------
(***************************************************************************)
(* Loading and unloading of modules (dload.c): DLOAD_load calls the client *)
(* for each dependent that is not there yet, and the client calls          *)
(* DLOAD_load again; the outermost call relocates and initialises all that *)
(* the inner ones have allocated.  The client is the one that dload_api.h  *)
(* describes: it opens the file of that name, or finds none.               *)
(***************************************************************************)
EXTENDS Naturals, Integers, Sequences, FiniteSets, SequencesExt

CONSTANTS
  Modules,          \* the DT_SONAMEs
  Roots,            \* those that the client loads for itself
  Graphs,           \* for each module its DT_NEEDED entries: one is chosen
  Exports,          \* the global symbols that each module defines
  Imports,          \* and those that it has relocations for
  MaxHandle,        \* bound: the modules that are loaded in a behaviour
  NoName            \* nothing is asked of the client

ASSUME LoaderAssumption ==
  /\ \A g \in Graphs : g \in [Modules -> Seq(Modules)]
  /\ Roots \subseteq Modules
  /\ MaxHandle \in Nat /\ NoName \notin Modules

VARIABLES
  needs,            \* the graph
  modules,          \* by file_handle: the DLIMP_Loaded_Modules
  loadedObjects,    \* DLIMP_loaded_objects
  depStack,         \* DLIMP_dependency_stack, the top last
  depList,          \* DLIMP_module_dependency_list, by handle
  loaderMachine,    \* DLOAD_TARGET_MACHINE
  calls,            \* DLOAD_load and DLOAD_unload in progress, the innermost last
  asked,            \* the name DLOAD_load is called for
  result,           \* what DLOAD_load returns: a handle, 0, or -1 for not yet
  inits,            \* the modules in the order of their initialisation
  clients,          \* how often the client holds each handle
  misused           \* memory that was freed is used

loaderVars == <<needs, modules, loadedObjects, depStack, depList, loaderMachine, calls, asked,
                result, inits, clients, misused>>

LoaderInit ==
  /\ needs \in Graphs
  /\ modules = <<>> /\ loadedObjects = <<>> /\ depStack = <<>> /\ depList = <<>>
  /\ loaderMachine = "none" /\ calls = <<>> /\ asked = NoName /\ result = -1
  /\ inits = <<>> /\ clients = [h \in 1 .. MaxHandle |-> 0] /\ misused = FALSE

Idle == calls = <<>> /\ asked = NoName /\ result = -1
CallNow == Last(calls)
OuterCalls == Front(calls)
NewHandle == Len(modules) + 1
IsFreed(h) == modules[h].life = "freed"

-----------------------------------------------------------------------------
(* What a file may be like, and what of it is looked at before anything is   *)
(* allocated.                                                                *)
ElfMag == <<127, 69, 76, 70>>
GoodFile == [ident |-> ElfMag, machine |-> "arm", etype |-> "dyn", osabi |-> "none",
             dynamic |-> TRUE, tags |-> {"STRTAB", "STRSZ", "HASH", "SYMTAB", "SONAME"},
             inBounds |-> TRUE, dsbt |-> FALSE]

Files ==
  {GoodFile, [GoodFile EXCEPT !.ident[1] = 0], [GoodFile EXCEPT !.machine = "c60"],
   [GoodFile EXCEPT !.machine = "c60", !.osabi = "c6000", !.dsbt = TRUE],
   [GoodFile EXCEPT !.etype = "rel"], [GoodFile EXCEPT !.tags = @ \ {"HASH"}],
   [GoodFile EXCEPT !.tags = @ \ {"SONAME"}], [GoodFile EXCEPT !.inBounds = FALSE],
   [GoodFile EXCEPT !.etype = "exec", !.dynamic = FALSE]}

\* What is compared is !e_ident[i], which is 0 or 1.
FileHeaderMagicNumberIsValid(f) ==
  \A i \in DOMAIN ElfMag : (IF f.ident[i] = 0 THEN 1 ELSE 0) # ElfMag[i]
FileHeaderMachineIsValid(f) == loaderMachine \in {"none", f.machine}

DloadFileHeader(f) ==
  /\ FileHeaderMagicNumberIsValid(f)
  /\ FileHeaderMachineIsValid(f)
  /\ f.etype \in {"exec", "dyn"}

ProcessEiosabi(f) == f.osabi = (IF f.machine = "arm" THEN "none" ELSE "c6000")

ProcessDynamicTable(f) == {"STRTAB", "STRSZ", "HASH", "SYMTAB"} \subseteq f.tags

\* Of the second module that says so: its name may be one of a module whose load
\* has failed, and whose name was freed.
CheckCircularDependency(name, refused) ==
  IF \E i \in DOMAIN depList : ~IsFreed(depList[i]) /\ modules[depList[i]].name = name
  THEN refused ELSE refused => \E i \in DOMAIN depList : IsFreed(depList[i])

DloadDynamicSegment(name, f, refused) ==
  IF ~f.dynamic THEN ~refused
  ELSE IF ProcessEiosabi(f) /\ ProcessDynamicTable(f) THEN CheckCircularDependency(name, refused)
  ELSE refused

IsValidElfObjectFile(f) ==
  /\ f.dynamic => "SONAME" \in f.tags
  /\ f.inBounds
  /\ f.etype = "dyn" => "SYMTAB" \in f.tags

\* The machine is the loader's from the first file with a magic number on.
MachineAfter(f) ==
  IF loaderMachine = "none" /\ FileHeaderMagicNumberIsValid(f) THEN f.machine ELSE loaderMachine

-----------------------------------------------------------------------------
(* DLOAD_load                                                                *)

\* initialize_loaded_module: the handle is the next, and the only use is the caller's.
\* Without a dynamic segment there is no name.
LoadedModule(f, life) ==
  [name |-> IF f.dynamic THEN asked ELSE NoName, machine |-> f.machine, uses |-> 1, deps |-> <<>>, life |-> life,
   bound |-> [s \in {} |-> 0]]

\* A call of the client for itself.
ClientLoads(name) ==
  /\ Idle /\ ~misused /\ NewHandle <= MaxHandle
  /\ asked' = name
  /\ UNCHANGED <<needs, modules, loadedObjects, depStack, depList, loaderMachine, calls, result,
                 inits, clients, misused>>

\* DLOAD_load_symbols: the module is only listed, for others to find its symbols.
LoadSymbols(name, f) ==
  /\ Idle /\ ~misused /\ NewHandle <= MaxHandle
  /\ DloadFileHeader(f) /\ DloadDynamicSegment(name, f, FALSE) /\ IsValidElfObjectFile(f)
  /\ f.dynamic
  /\ loaderMachine' = MachineAfter(f)
  /\ modules' = Append(modules, [LoadedModule(f, "symbols") EXCEPT !.name = name])
  /\ loadedObjects' = Append(loadedObjects, NewHandle)
  /\ result' = NewHandle
  /\ UNCHANGED <<needs, depStack, depList, calls, asked, inits, clients, misused>>

\* DLIF_load_dependent finds no file of the name.
FileIsMissing ==
  /\ asked # NoName /\ calls # <<>>
  /\ asked' = NoName /\ result' = 0
  /\ UNCHANGED <<needs, modules, loadedObjects, depStack, depList, loaderMachine, calls, inits,
                 clients, misused>>

LoadIsRefused(f) ==
  /\ asked # NoName
  /\ ~DloadFileHeader(f) \/ DloadDynamicSegment(asked, f, TRUE) \/ ~IsValidElfObjectFile(f)
  /\ loaderMachine' = MachineAfter(f)
  /\ asked' = NoName /\ result' = 0
  /\ UNCHANGED <<needs, modules, loadedObjects, depStack, depList, calls, inits, clients, misused>>

IsLoadable(f) ==
  /\ asked # NoName /\ NewHandle <= MaxHandle
  /\ DloadFileHeader(f) /\ DloadDynamicSegment(asked, f, FALSE) /\ IsValidElfObjectFile(f)
  /\ loaderMachine' = MachineAfter(f)
  /\ asked' = NoName

\* dload_static_executable: has no dependents, and nothing to relocate.
LoadStatic(f) ==
  /\ IsLoadable(f) /\ ~f.dynamic
  /\ modules' = Append(modules, LoadedModule(f, "ready"))
  /\ loadedObjects' = Append(loadedObjects, NewHandle)
  /\ result' = NewHandle
  /\ UNCHANGED <<needs, depStack, depList, calls, inits, clients, misused>>

\* The client has no memory for a segment of it: what is freed stays in the list.
LoadStaticFails(f) ==
  /\ IsLoadable(f) /\ ~f.dynamic
  /\ modules' = Append(modules, LoadedModule(f, "freed"))
  /\ loadedObjects' = Append(loadedObjects, NewHandle)
  /\ result' = 0
  /\ UNCHANGED <<needs, depStack, depList, calls, inits, clients, misused>>

\* allocate_dynamic_segments_and_relocate_symbols fails.
AllocateFails(f) ==
  /\ IsLoadable(f) /\ f.dynamic
  /\ modules' = Append(modules, LoadedModule(f, "freed"))
  /\ result' = 0
  /\ UNCHANGED <<needs, loadedObjects, depStack, depList, calls, inits, clients, misused>>

LoadDynamic(f) ==
  /\ IsLoadable(f) /\ f.dynamic
  /\ modules' = Append(modules, LoadedModule(f, "loading"))
  /\ loadedObjects' = Append(loadedObjects, NewHandle)
  /\ depList' = Append(depList, NewHandle)
  /\ depStack' = Append(depStack, NewHandle)
  /\ calls' = Append(calls, [op |-> "load", handle |-> NewHandle, next |-> 1])
  /\ UNCHANGED <<needs, result, inits, clients, misused>>

\* DLIF_register_dsbt_index_request refuses the index: the name stays in the list.
RegisterFails(f) ==
  /\ IsLoadable(f) /\ f.dynamic /\ f.dsbt
  /\ modules' = Append(modules, LoadedModule(f, "freed"))
  /\ depList' = Append(depList, NewHandle)
  /\ result' = 0
  /\ UNCHANGED <<needs, loadedObjects, depStack, calls, inits, clients, misused>>

-----------------------------------------------------------------------------
(* dload_and_allocate_dependencies                                           *)

Loading == calls # <<>> /\ asked = NoName /\ CallNow.op = "load"
Needed == needs[modules[CallNow.handle].name]
Needs == Loading /\ result = -1 /\ CallNow.next <= Len(Needed)
NextNeeded == Needed[CallNow.next]
LoadedAs(name) == {h \in ToSet(loadedObjects) : modules[h].name = name /\ ~IsFreed(h)}

\* The list is searched from its front up to the one that is looked for.
Searched(found) == {i \in DOMAIN loadedObjects : \A j \in 1 .. i - 1 : ~found[loadedObjects[j]]}
SearchTouchesFreed(found) == \E i \in Searched(found) : IsFreed(loadedObjects[i])
HasName(name) == [h \in DOMAIN modules |-> modules[h].name = name]

GoOn == [calls EXCEPT ![Len(calls)].next = @ + 1]

\* (mutant) a module that is found is not counted.
DependentIsFound ==
  /\ Needs /\ LoadedAs(NextNeeded) # {}
  /\ LET h == SelectInSeq(loadedObjects, LAMBDA l : l \in LoadedAs(NextNeeded))
     IN modules' = [modules EXCEPT ![CallNow.handle].deps = Append(@, loadedObjects[h])]
  /\ misused' = SearchTouchesFreed(HasName(NextNeeded))
  /\ calls' = GoOn
  /\ UNCHANGED <<needs, loadedObjects, depStack, depList, loaderMachine, asked, result, inits,
                 clients>>

\* The first of that name gets one more use.
DependentIsLoaded ==
  /\ Needs /\ LoadedAs(NextNeeded) # {}
  /\ LET h == SelectInSeq(loadedObjects, LAMBDA l : l \in LoadedAs(NextNeeded))
         found == loadedObjects[h]
     IN modules' = [m \in DOMAIN modules |->
          [modules[m] EXCEPT !.uses = IF m = found THEN @ + 1 ELSE @,
                             !.deps = IF m = CallNow.handle THEN Append(@, found) ELSE @]]
  /\ misused' = SearchTouchesFreed(HasName(NextNeeded))
  /\ calls' = GoOn
  /\ UNCHANGED <<needs, loadedObjects, depStack, depList, loaderMachine, asked, result, inits,
                 clients>>

DependentIsAskedFor ==
  /\ Needs /\ LoadedAs(NextNeeded) = {}
  /\ asked' = NextNeeded
  /\ misused' = SearchTouchesFreed(HasName(NextNeeded))
  /\ UNCHANGED <<needs, modules, loadedObjects, depStack, depList, loaderMachine, calls, result,
                 inits, clients>>

DependentIsThere ==
  /\ Loading /\ result > 0
  /\ modules' = [modules EXCEPT ![CallNow.handle].deps = Append(@, result)]
  /\ calls' = GoOn /\ result' = -1
  /\ UNCHANGED <<needs, loadedObjects, depStack, depList, loaderMachine, asked, inits, clients,
                 misused>>

\* The top of the stack is popped, which is the last that was pushed and not
\* necessarily this module; the uses that it has counted stay.
DependentFails ==
  /\ Loading /\ result = 0
  /\ depStack' = Front(depStack)
  /\ loadedObjects' = SelectSeq(loadedObjects, LAMBDA h : h # CallNow.handle)
  /\ modules' = [modules EXCEPT ![CallNow.handle].life = "freed"]
  /\ calls' = OuterCalls
  /\ UNCHANGED <<needs, depList, loaderMachine, asked, result, inits, clients, misused>>

-----------------------------------------------------------------------------
(* relocate_dependency_graph_modules                                         *)

\* The global symbols that are kept of a module: none of a static one.
SymbolsOf(h) == IF modules[h].name = NoName THEN {} ELSE Exports[modules[h].name]

\* DLSYM_global_lookup: the first of the dependents that defines the symbol.
GlobalLookup(h, sym) ==
  LET child == SelectInSeq(modules[h].deps, LAMBDA d : sym \in SymbolsOf(d))
  IN IF child = 0 THEN 0 ELSE modules[h].deps[child]

\* It looks for every dependent's handle in the list, to the end and beyond.
LookupFailsToFind(h) == ~(ToSet(modules[h].deps) \subseteq ToSet(loadedObjects))

Relocated(h) ==
  [modules[h] EXCEPT !.life = "ready",
                     !.bound = [s \in Imports[modules[h].name] |-> GlobalLookup(h, s)]]

LoadReturns(stack) ==
  /\ depList' = Front(depList)
  /\ calls' = OuterCalls /\ result' = CallNow.handle
  /\ depStack' = stack
  /\ UNCHANGED <<needs, loadedObjects, loaderMachine, asked, clients>>

AllAreThere == Loading /\ result = -1 /\ CallNow.next > Len(Needed)

\* The bottom of the stack is the module of the outermost call; a new module may
\* be where a freed one was.
LoadOfDependentReturns ==
  /\ AllAreThere /\ Head(depStack) # CallNow.handle
  /\ LoadReturns(depStack)
  /\ misused' = (misused \/ (IsFreed(Head(depStack)) /\ calls = <<CallNow>>))
  /\ UNCHANGED <<modules, inits>>

\* The stack is emptied from the top.
RelocateDependencyGraphModules ==
  /\ AllAreThere /\ Head(depStack) = CallNow.handle
  /\ LoadReturns(<<>>)
  /\ misused' = (misused \/ \E i \in DOMAIN depStack :
                              IsFreed(depStack[i]) \/ LookupFailsToFind(depStack[i]))
  /\ modules' = [h \in DOMAIN modules |->
                   IF h \in ToSet(depStack) THEN Relocated(h) ELSE modules[h]]
  /\ inits' = inits \o Reverse(depStack)

ClientGetsHandle ==
  /\ calls = <<>> /\ result >= 0
  /\ clients' = IF result = 0 THEN clients ELSE [clients EXCEPT ![result] = @ + 1]
  /\ result' = -1
  /\ UNCHANGED <<needs, modules, loadedObjects, depStack, depList, loaderMachine, calls, asked,
                 inits, misused>>

-----------------------------------------------------------------------------
(* DLOAD_unload                                                              *)

\* The last use ends the module, after DLIF_unload_dependent for each dependent.
Unload(h, outer) ==
  /\ misused' = (misused \/ SearchTouchesFreed([l \in DOMAIN modules |-> l = h /\ modules[l].uses = 1]))
  /\ IF h \notin ToSet(loadedObjects) THEN UNCHANGED modules /\ calls' = outer
     ELSE
       /\ modules' = [modules EXCEPT ![h].uses = @ - 1,
                                     ![h].life = IF modules[h].uses = 1 THEN "ended" ELSE @]
       /\ calls' = IF modules[h].uses = 1
                   THEN Append(outer, [op |-> "unload", handle |-> h, next |-> 1]) ELSE outer

ClientUnloads(h) ==
  /\ Idle /\ ~misused /\ clients[h] > 0
  /\ clients' = [clients EXCEPT ![h] = @ - 1]
  /\ Unload(h, calls)
  /\ UNCHANGED <<needs, loadedObjects, depStack, depList, loaderMachine, asked, result, inits>>

Unloading == calls # <<>> /\ CallNow.op = "unload"

UnloadDependent ==
  /\ Unloading /\ CallNow.next <= Len(modules[CallNow.handle].deps)
  /\ Unload(modules[CallNow.handle].deps[CallNow.next], GoOn)
  /\ UNCHANGED <<needs, loadedObjects, depStack, depList, loaderMachine, asked, result, inits,
                 clients>>

RemoveLoadedModule ==
  /\ Unloading /\ CallNow.next > Len(modules[CallNow.handle].deps)
  /\ loadedObjects' = SelectSeq(loadedObjects, LAMBDA h : h # CallNow.handle)
  /\ modules' = [modules EXCEPT ![CallNow.handle].life = "freed"]
  /\ loaderMachine' = IF loadedObjects' = <<>> THEN "none" ELSE loaderMachine
  /\ calls' = OuterCalls
  /\ UNCHANGED <<needs, depStack, depList, asked, result, inits, clients, misused>>

LoaderNext ==
  \/ \E name \in Roots : ClientLoads(name)
  \/ \E name \in Roots, f \in Files : LoadSymbols(name, f)
  \/ FileIsMissing
  \/ \E f \in Files : \/ LoadIsRefused(f) \/ LoadStatic(f) \/ LoadStaticFails(f)
                      \/ AllocateFails(f) \/ LoadDynamic(f) \/ RegisterFails(f)
  \/ DependentIsLoaded \/ DependentIsAskedFor \/ DependentIsThere \/ DependentFails
  \/ LoadOfDependentReturns \/ RelocateDependencyGraphModules \/ ClientGetsHandle
  \/ \E h \in DOMAIN modules : ClientUnloads(h)
  \/ UnloadDependent \/ RemoveLoadedModule

-----------------------------------------------------------------------------
(* What the client may rely on between its calls *)

Loaded == ToSet(loadedObjects)
Uses(h) == clients[h] +
  FoldFunction(+, 0, [m \in Loaded |-> Cardinality({i \in DOMAIN modules[m].deps : modules[m].deps[i] = h})])
Before(d, h) == \E i, j \in DOMAIN inits : i < j /\ inits[i] = d /\ inits[j] = h

NothingIsHeld == \A h \in DOMAIN clients : clients[h] = 0
NeedEachOther ==
  ~\E rank \in [Modules -> 1 .. Cardinality(Modules)] :
     \A m \in Modules : \A d \in ToSet(needs[m]) : rank[d] < rank[m]

NeededBy(ms) == UNION {ToSet(needs[m]) : m \in ms}
Reached(ms) ==
  LET after[i \in 0 .. Cardinality(Modules)] ==
        IF i = 0 THEN ms ELSE after[i - 1] \cup NeededBy(after[i - 1])
  IN after[Cardinality(Modules)]

\* No list of DT_NEEDED entries has, behind an entry, one that needs the same or it.
UsersComeFirst ==
  ~NeedEachOther /\ \A m \in Modules : \A i, j \in DOMAIN needs[m] :
     i < j => Reached(NeededBy({needs[m][j]})) \cap Reached({needs[m][i]}) = {}

\* No load has failed half way: no name was left behind, and no freed module.
IsClean == depList = <<>> /\ \A h \in Loaded : ~IsFreed(h)
IsRelocated(h) == modules[h].life = "ready" /\ modules[h].name # NoName

\* A handle that the client holds stays loaded, whatever loads of others fail, and
\* all modules are of one machine.  As long as no load fails half way, every module
\* is used as often as it is held and needed, is bound to modules that are still
\* there, and has been initialised once.  It has been after the modules that it needs
\* only where the lists of entries happen to be in such an order (UsersComeFirst): the
\* stack is emptied in the order of loading.  When nothing is held, nothing is left,
\* but for modules that need each other: they are loaded without an error, and stay.
LoadingIsSound ==
  Idle /\ ~misused =>
    /\ \A h \in DOMAIN modules : clients[h] > 0 => h \in Loaded /\ modules[h].life # "freed"
    /\ \A h \in Loaded : modules[h].machine = loaderMachine
    /\ IsClean =>
         /\ depStack = <<>>
         /\ \A h \in Loaded :
              /\ modules[h].life \in {"ready", "symbols"} /\ modules[h].uses = Uses(h)
              /\ \A s \in DOMAIN modules[h].bound : modules[h].bound[s] \in Loaded \cup {0}
              /\ Cardinality({i \in DOMAIN inits : inits[i] = h}) = IF IsRelocated(h) THEN 1 ELSE 0
              /\ UsersComeFirst => \A d \in ToSet(modules[h].deps) : IsRelocated(d) => Before(d, h)
         /\ NothingIsHeld /\ ~NeedEachOther => loadedObjects = <<>>
=============================================================================
