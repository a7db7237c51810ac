---------------------------- MODULE DebugRecords ----------------------------
(***************************************************************************)
(* The list of loaded modules that a debugger reads in target memory, and  *)
(* the mirror of it on the host (dlw_debug.c).  A record is built on a     *)
(* stack while its module is loaded, as loads nest; it goes to the target  *)
(* when its load is complete.                                              *)
(***************************************************************************)
EXTENDS Naturals, Sequences, SequencesExt

CONSTANTS
  MaxDebugHandle,   \* bound: the modules that are loaded
  MaxNested,        \* bound: loads within loads
  MaxRecordSegments, \* bound: the segments of a module
  RecordSegments    \* the addresses of segments

ASSUME DebugAssumption == {MaxDebugHandle, MaxNested, MaxRecordSegments} \subseteq Nat

Records == 1 .. MaxDebugHandle - 1       \* addresses in target memory
NoRecord == 0

VARIABLES
  debugStack,       \* dl_debug_stk, the top last: the segments of each record
  mirrorList,       \* mirror_debug_list: handle, address, next and size of each
  listHeader,       \* DLModules_loc: the first record
  targetRecord,     \* what is in target memory, of records that were freed also
  debugHandle       \* the last handle that was given to a module

debugVars == <<debugStack, mirrorList, listHeader, targetRecord, debugHandle>>

\* The base image has handle 1, and no record.
DebugInit ==
  /\ debugStack = <<>> /\ mirrorList = <<>> /\ listHeader = NoRecord
  /\ targetRecord \in [Records -> [next : {NoRecord}, segments : {<<>>}]]
  /\ debugHandle = 1

AddHostRecord ==
  /\ Len(debugStack) < MaxNested
  /\ debugStack' = Append(debugStack, <<>>)
  /\ UNCHANGED <<mirrorList, listHeader, targetRecord, debugHandle>>

AddSegmentRecord(segment) ==
  /\ debugStack # <<>> /\ Len(Last(debugStack)) < MaxRecordSegments
  /\ debugStack' = [debugStack EXCEPT ![Len(debugStack)] = Append(@, segment)]
  /\ UNCHANGED <<mirrorList, listHeader, targetRecord, debugHandle>>

\* Memory that is not a record now; the next pointer stays what was there.
IsUnused(at) == ~\E i \in DOMAIN mirrorList : mirrorList[i].at = at

\* The handle comes with the call, when the load is complete.  A module has a handle of
\* its own, so that the next number may stand for it.
AddTargetRecord(at) ==
  /\ debugStack # <<>> /\ debugHandle < MaxDebugHandle /\ IsUnused(at)
  /\ debugHandle' = debugHandle + 1
  /\ debugStack' = Front(debugStack)
  /\ mirrorList' =
       (IF mirrorList = <<>> THEN <<>> ELSE [mirrorList EXCEPT ![Len(mirrorList)].next = at])
         \o <<[handle |-> debugHandle + 1, at |-> at, next |-> NoRecord, segments |-> Last(debugStack)]>>
  /\ listHeader' = IF mirrorList = <<>> THEN at ELSE listHeader
  /\ targetRecord' =
       [r \in Records |->
          IF r = at THEN [targetRecord[r] EXCEPT !.segments = Last(debugStack)]
          ELSE IF mirrorList # <<>> /\ r = Last(mirrorList).at THEN [targetRecord[r] EXCEPT !.next = at]
          ELSE targetRecord[r]]

IsFound(i, handle) ==
  mirrorList[i].handle = handle /\ \A j \in 1 .. i - 1 : mirrorList[j].handle # handle

\* (mutant) the record before it is told of in the mirror only.
RmHostRecord(handle) ==
  /\ handle > 1
  /\ \E i \in DOMAIN mirrorList :
       LET next == mirrorList[i].next
       IN /\ IsFound(i, handle)
          /\ mirrorList' = RemoveAt(IF i = 1 THEN mirrorList ELSE [mirrorList EXCEPT ![i - 1].next = next], i)
          /\ listHeader' = IF i = 1 THEN next ELSE listHeader
  /\ UNCHANGED <<debugStack, targetRecord, debugHandle>>

\* A handle of 1 or less, or one that has no record, changes nothing.
RmTargetRecord(handle) ==
  /\ handle > 1
  /\ \E i \in DOMAIN mirrorList :
       LET next == mirrorList[i].next
       IN /\ IsFound(i, handle)
          /\ mirrorList' = RemoveAt(IF i = 1 THEN mirrorList ELSE [mirrorList EXCEPT ![i - 1].next = next], i)
          /\ listHeader' = IF i = 1 THEN next ELSE listHeader
          /\ targetRecord' = IF i = 1 THEN targetRecord
                             ELSE [targetRecord EXCEPT ![mirrorList[i - 1].at].next = next]
  /\ UNCHANGED <<debugStack, debugHandle>>

DebugNext ==
  \/ AddHostRecord
  \/ \E segment \in RecordSegments : AddSegmentRecord(segment)
  \/ \E at \in Records : AddTargetRecord(at)
  \/ \E handle \in 1 .. MaxDebugHandle : RmTargetRecord(handle)

DebugSpec == DebugInit /\ [][DebugNext]_debugVars

-----------------------------------------------------------------------------
Linked(header, next(_)) ==
  /\ header = (IF mirrorList = <<>> THEN NoRecord ELSE mirrorList[1].at)
  /\ \A i \in 1 .. Len(mirrorList) - 1 : next(i) = mirrorList[i + 1].at

\* In whatever order modules are unloaded and their memory is used again, a debugger
\* that follows as many records as the host has listed finds exactly these, each with
\* the segments of its own module; and the host's own list ends.
DebugListIsWhole ==
  /\ Linked(listHeader, LAMBDA i : targetRecord[mirrorList[i].at].next)
  /\ Linked(listHeader, LAMBDA i : mirrorList[i].next)
  /\ mirrorList # <<>> => Last(mirrorList).next = NoRecord
  /\ \A i, j \in DOMAIN mirrorList :
       /\ targetRecord[mirrorList[i].at].segments = mirrorList[i].segments
       /\ i < j => mirrorList[i].handle # mirrorList[j].handle /\ mirrorList[i].at # mirrorList[j].at
=============================================================================
