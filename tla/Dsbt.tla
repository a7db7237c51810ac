-------------------------------- MODULE Dsbt --------------------------------
(***************************************************************************)
(* The data segment base tables of C6000 modules (dlw_dsbt.c): every       *)
(* module has a table with the static bases of all, each at the index that *)
(* module was given.  Requests wait in a queue until the outermost load    *)
(* assigns the indices and writes the tables.  A static base stands for    *)
(* its module; indices count from 0.                                       *)
(***************************************************************************)
EXTENDS Naturals, Integers, Sequences, FiniteSets, SequencesExt

CONSTANTS
  DsbtModules,      \* file handles
  DsbtSizes         \* the sizes of their tables; the last index of one may be asked for

ASSUME DsbtAssumption == DsbtModules \subseteq Nat \ {0} /\ DsbtSizes \subseteq Nat \ {0}

NoIndex == -1       \* DSBT_INDEX_INVALID
Nobody == 0
AskedIndices == {s - 1 : s \in DsbtSizes} \cup {NoIndex}
DsbtIndices == UNION {0 .. s - 1 : s \in DsbtSizes}

VARIABLES
  dsbtState,        \* of each module: "none", "queued", "given", "released"
  requestedIndex, assignedIndex, dsbtSize,
  dsbtQueue,        \* DSBT_index_request_queue
  dsbtMaster,       \* DSBT_master
  firstAvail,       \* DSBT_first_avail_index
  baseTables,       \* what the table of each module holds, by index
  tablesAreWritten  \* DLIF_update_all_dsbts has written them all, the last time

dsbtVars == <<dsbtState, requestedIndex, assignedIndex, dsbtSize, dsbtQueue, dsbtMaster,
              firstAvail, baseTables, tablesAreWritten>>

DsbtInit ==
  /\ dsbtState = [m \in DsbtModules |-> "none"]
  /\ requestedIndex = [m \in DsbtModules |-> NoIndex]
  /\ assignedIndex = [m \in DsbtModules |-> NoIndex]
  /\ dsbtSize = [m \in DsbtModules |-> 0]
  /\ dsbtQueue = <<>> /\ dsbtMaster = <<>> /\ firstAvail = 0
  /\ baseTables = [m \in DsbtModules |-> [i \in DsbtIndices |-> Nobody]]
  /\ tablesAreWritten = TRUE

\* DLIF_register_dsbt_index_request: an index that is taken, or asked for, is refused.
IndexIsTaken(index) ==
  \/ index < Len(dsbtMaster) /\ dsbtMaster[index + 1] # Nobody
  \/ \E m \in ToSet(dsbtQueue) : requestedIndex[m] = index

\* (mutant) the requests that wait are not looked at.
IndexIsInUse(index) == index < Len(dsbtMaster) /\ dsbtMaster[index + 1] # Nobody

RegisterDsbtIndexRequest(m, index, size) ==
  /\ dsbtState[m] = "none"
  /\ index # NoIndex => ~IndexIsTaken(index)
  /\ dsbtState' = [dsbtState EXCEPT ![m] = "queued"]
  /\ requestedIndex' = [requestedIndex EXCEPT ![m] = index]
  /\ dsbtSize' = [dsbtSize EXCEPT ![m] = size]
  /\ dsbtQueue' = Append(dsbtQueue, m)
  /\ UNCHANGED <<assignedIndex, dsbtMaster, firstAvail, baseTables, tablesAreWritten>>

\* add_dsbt_entry, as often as it takes.
Entered(master, index, m) ==
  [i \in 1 .. IF index < Len(master) THEN Len(master) ELSE index + 1 |->
     IF i = index + 1 THEN m ELSE IF i <= Len(master) THEN master[i] ELSE Nobody]

\* assign_dsbt_entry.  Who asks for an index gets it, but assigned_index, which is
\* assigned to itself, stays invalid.
AssignDsbtEntry(m, acc) ==
  IF requestedIndex[m] # NoIndex
  THEN [acc EXCEPT !.master = Entered(@, requestedIndex[m], m)]
  ELSE LET free == {i \in acc.first .. Len(acc.master) - 1 : acc.master[i + 1] = Nobody}
           index == IF free = {} THEN Len(acc.master)
                    ELSE CHOOSE i \in free : \A j \in free : i <= j
       IN [master |-> Entered(acc.master, index, m), first |-> index,
           assigned |-> [acc.assigned EXCEPT ![m] = index]]

\* Those that ask for an index are served before the others.
ServiceOrder ==
  SelectSeq(dsbtQueue, LAMBDA m : requestedIndex[m] # NoIndex)
    \o SelectSeq(dsbtQueue, LAMBDA m : requestedIndex[m] = NoIndex)

\* DLIF_update_all_dsbts writes nothing if one table is too small for all the entries.
EntriesFit(master) == \A m \in ToSet(master) \ {Nobody} : dsbtSize[m] >= Len(master)

UpdatedTables(master) ==
  [m \in DsbtModules |->
     IF m \notin ToSet(master) THEN baseTables[m]
     ELSE [i \in DsbtIndices |-> IF i < Len(master) /\ master[i + 1] # Nobody THEN master[i + 1]
                             ELSE baseTables[m][i]]]

\* DLIF_assign_dsbt_indices and DLIF_update_all_dsbts; what the second returns is
\* not looked at.
AssignAndUpdate ==
  /\ dsbtQueue # <<>>
  /\ LET done == FoldLeft(LAMBDA acc, m : AssignDsbtEntry(m, acc),
                          [master |-> dsbtMaster, first |-> firstAvail, assigned |-> assignedIndex],
                          ServiceOrder)
     IN /\ dsbtMaster' = done.master /\ firstAvail' = done.first /\ assignedIndex' = done.assigned
        /\ tablesAreWritten' = EntriesFit(done.master)
        /\ baseTables' = IF EntriesFit(done.master) THEN UpdatedTables(done.master) ELSE baseTables
  /\ dsbtState' = [m \in DsbtModules |-> IF m \in ToSet(dsbtQueue) THEN "given" ELSE dsbtState[m]]
  /\ dsbtQueue' = <<>>
  /\ UNCHANGED <<requestedIndex, dsbtSize>>

\* DSBT_release_entry, for the client to call when the module is unloaded.
ReleaseEntry(m) ==
  /\ dsbtState[m] = "given"
  /\ LET i == SelectInSeq(dsbtMaster, LAMBDA e : e = m)
     IN /\ dsbtMaster' = [dsbtMaster EXCEPT ![i] = Nobody]
        /\ firstAvail' = IF i - 1 < firstAvail THEN i - 1 ELSE firstAvail
  /\ dsbtState' = [dsbtState EXCEPT ![m] = "released"]
  /\ UNCHANGED <<requestedIndex, assignedIndex, dsbtSize, dsbtQueue, baseTables, tablesAreWritten>>

DsbtNext ==
  \/ \E m \in DsbtModules, index \in AskedIndices, size \in DsbtSizes :
       RegisterDsbtIndexRequest(m, index, size)
  \/ AssignAndUpdate
  \/ \E m \in DsbtModules : ReleaseEntry(m)

-----------------------------------------------------------------------------
GetDsbtIndex(m) == IF m \in ToSet(dsbtMaster) THEN assignedIndex[m] ELSE NoIndex
Given == {m \in DsbtModules : dsbtState[m] = "given"}

\* Whatever modules come and go: each has one index, no two have the same, no free
\* entry is forgotten, and, unless a table was too small, each finds in its own table
\* the static base of every module, at the index of that module.  The index is the one
\* it asked for; or else the one that the loader is told for its relocations.  Who asked
\* has a place in the tables, but the loader is told that it has no index (dlw_dsbt.c:262):
\* of that nothing is promised.
BasesAreFound ==
  /\ \A m \in Given :
       /\ Cardinality({i \in DOMAIN dsbtMaster : dsbtMaster[i] = m}) = 1
       /\ LET index == IF requestedIndex[m] = NoIndex THEN GetDsbtIndex(m) ELSE requestedIndex[m]
          IN /\ dsbtMaster[index + 1] = m
             /\ tablesAreWritten => \A other \in Given : baseTables[other][index] = m
  /\ \A i \in DOMAIN dsbtMaster : dsbtMaster[i] = Nobody => firstAvail <= i - 1
=============================================================================
