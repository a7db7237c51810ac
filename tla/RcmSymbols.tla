----------------------------- MODULE RcmSymbols -----------------------------
(***************************************************************************)
(* The function tables of an RcmServer.  A task of the program adds and    *)
(* removes symbols under the gate, one access to a slot after another; the *)
(* server thread looks functions up without the gate, by name for a client *)
(* that asks for an index and by index for one that has a message          *)
(* executed.  An index is [slot, key]: table and offset of the code are    *)
(* one number here, the tables lying one behind the other; the key tells   *)
(* the symbols apart that a slot has held.                                 *)
(***************************************************************************)
EXTENDS Integers, Sequences, FiniteSets, FiniteSetsExt

CONSTANTS
    Names,          \* of symbols, each with a function of its own
    TableEnds,      \* the last slot of each dynamic table: 32, 32 + 64, ...
    MaxKey,         \* 0x7FF
    NoName,         \* an empty slot, or no memory for the name
    Garbage         \* what an uninitialised pointer to a function leads to

ASSUME RcmSymbolsAssumption ==
  /\ TableEnds \in Seq(Nat \ {0}) /\ MaxKey \in Nat \ {0}
  /\ \A t, u \in DOMAIN TableEnds : t < u => TableEnds[t] < TableEnds[u]
  /\ {NoName, Garbage} \cap Names = {} /\ NoName # Garbage

SlotsOf(tables) == IF tables = 0 THEN {} ELSE 1 .. TableEnds[tables]
AllSlots == SlotsOf(Len(TableEnds))

\* The first slot of a table, offset 0 (the j of the code).
OffsetZero(s) == s = 1 \/ \E t \in DOMAIN TableEnds : s = TableEnds[t] + 1

VARIABLES
    tables,         \* dynamic tables that have been allocated
    slot,           \* their elements: [addr, name, key]
    key,            \* obj->key
    app,            \* the task in addSymbol or removeSymbol: [pc, name, slot]
    look,           \* the server thread: [pc, want, owner, index, addr]
    given           \* the indices clients may hold, with the symbol they are for

symbolVars == <<tables, slot, key, app, look, given>>

Idle == [pc |-> "idle", name |-> NoName, slot |-> 0]
Rest == [pc |-> "idle", want |-> NoName, owner |-> NoName,
         index |-> [slot |-> 0, key |-> 0], addr |-> NoName]
Empty == [addr |-> NoName, name |-> NoName, key |-> 0]

SymbolInit ==
  /\ tables = 0 /\ slot = [s \in AllSlots |-> Empty] /\ key = 0
  /\ app = Idle /\ look = Rest /\ given = <<>>

-----------------------------------------------------------------------------
(* RcmServer_addSymbol, under the gate.  Names are unique.  *)

\* An empty slot is one without a function.
Vacant(t) == {s \in SlotsOf(t) : slot[s].addr = NoName}

\* The first that is empty, in a new table if need be.
AddAddr(n) ==
  /\ app.pc = "idle" /\ \A s \in AllSlots : slot[s].name # n
  /\ \E t \in {tables, tables + 1} :
       /\ t \in 0 .. Len(TableEnds) /\ Vacant(t) # {}
       /\ t = tables + 1 => Vacant(tables) = {}
       /\ tables' = t
       /\ LET s == Min(Vacant(t)) IN
            /\ slot' = [slot EXCEPT ![s].addr = n]
            /\ app' = [pc |-> "addName", name |-> n, slot |-> s]
  /\ UNCHANGED <<key, look, given>>

AddName ==
  /\ app.pc = "addName"
  /\ slot' = [slot EXCEPT ![app.slot].name = app.name]
  /\ app' = [app EXCEPT !.pc = "addKey"]
  /\ UNCHANGED <<tables, key, look, given>>

\* The slot keeps the function, and no name to remove it by.
AddNoMemory ==
  /\ app.pc = "addName"
  /\ app' = Idle
  /\ UNCHANGED <<tables, slot, key, look, given>>

\* RcmServer_getNextKey_P
GetNextKey == IF key <= 1 THEN MaxKey ELSE key - 1

\* The promise of the clients: an index is forgotten by the time that MaxKey more
\* symbols have been added, and none is under way when it is given out again.
Remember(n, index) ==
  LET g == Append(given, [name |-> n, index |-> index]) IN
  /\ look.index # index
  /\ given' = IF Len(g) > MaxKey THEN Tail(g) ELSE g

AddKey ==
  /\ app.pc = "addKey"
  /\ key' = GetNextKey
  /\ slot' = [slot EXCEPT ![app.slot].key = key']
  /\ Remember(app.name, [slot |-> app.slot, key |-> key'])
  /\ app' = Idle
  /\ UNCHANGED <<tables, look>>

-----------------------------------------------------------------------------
(* RcmServer_removeSymbol, under the gate.  *)
RemoveAddr(n) ==
  /\ app.pc = "idle"
  /\ \E s \in AllSlots :
       /\ slot[s].name = n
       /\ slot' = [slot EXCEPT ![s].addr = NoName]
       /\ app' = [pc |-> "removeName", name |-> n, slot |-> s]
  /\ UNCHANGED <<tables, key, look, given>>

RemoveName ==
  /\ app.pc = "removeName"
  /\ slot' = [slot EXCEPT ![app.slot].name = NoName]
  /\ app' = [app EXCEPT !.pc = "removeKey"]
  /\ UNCHANGED <<tables, key, look, given>>

RemoveKey ==
  /\ app.pc = "removeKey"
  /\ slot' = [slot EXCEPT ![app.slot].key = 0]
  /\ app' = Idle
  /\ UNCHANGED <<tables, key, look, given>>

-----------------------------------------------------------------------------
(* RcmServer_getSymIdx_P for a client: the name, then the key of the slot.  *)
(* No gate is taken, though the comment on it (RcmServer.c:1646) asks for it.*)
SymIdxName(n) ==
  /\ look.pc = "idle"
  /\ \E s \in AllSlots :
       /\ slot[s].name = n
       /\ look' = [Rest EXCEPT !.pc = "symKey", !.want = n, !.index.slot = s]
  /\ UNCHANGED <<tables, slot, key, app, given>>

\* Whom the key of a slot was given to; its name may be gone already.
KeyOwner(s) == IF slot[s].name # NoName THEN slot[s].name ELSE app.name

\* The slot may hold another symbol by now, whose key goes out as that of the name
\* asked for, or one with a name and no key yet, or no more: then the key is 0.
SymIdxKey ==
  /\ look.pc = "symKey"
  /\ look' = [look EXCEPT !.pc = "has", !.index.key = slot[look.index.slot].key,
                          !.owner = KeyOwner(look.index.slot)]
  /\ UNCHANGED <<tables, slot, key, app, given>>

\* RcmServer_getFxnAddr_P for a message: the address, then the test of the key.
FxnAddr ==
  /\ \/ \E g \in DOMAIN given :
          /\ look.pc = "idle"
          /\ look' = [Rest EXCEPT !.pc = "check", !.owner = given[g].name,
                       !.index = given[g].index, !.addr = slot[given[g].index.slot].addr]
     \/ /\ look.pc = "has"
        /\ look' = [look EXCEPT !.pc = "check", !.addr = slot[look.index.slot].addr]
  /\ UNCHANGED <<tables, slot, key, app, given>>

\* (mutant) the key is not looked at.
KeyFitsAlways == TRUE

KeyFits == look.index.key = slot[look.index.slot].key

\* With j = 0 only *createPtr is written, and with NULL: execMsg calls the
\* function of its uninitialised variable.
FxnChecked ==
  /\ look.pc = "check"
  /\ look' = IF ~KeyFits THEN Rest
             ELSE [look EXCEPT !.pc = "calls",
                               !.addr = IF OffsetZero(look.index.slot) THEN Garbage ELSE @]
  /\ UNCHANGED <<tables, slot, key, app, given>>

Called ==
  /\ look.pc = "calls"
  /\ look' = Rest
  /\ UNCHANGED <<tables, slot, key, app, given>>

SymbolNext ==
  \/ \E n \in Names : AddAddr(n) \/ RemoveAddr(n) \/ SymIdxName(n)
  \/ AddName \/ AddNoMemory \/ AddKey \/ RemoveName \/ RemoveKey
  \/ SymIdxKey \/ FxnAddr \/ FxnChecked \/ Called

SymbolSpec == SymbolInit /\ [][SymbolNext]_symbolVars

-----------------------------------------------------------------------------
SymbolTypeOK ==
  /\ tables \in 0 .. Len(TableEnds) /\ key \in 0 .. MaxKey
  /\ slot \in [AllSlots -> [addr : Names \cup {NoName}, name : Names \cup {NoName},
                            key : 0 .. MaxKey]]
  /\ app.pc \in {"idle", "addName", "addKey", "removeName", "removeKey"}
  /\ look.pc \in {"idle", "symKey", "has", "check", "calls"}
  /\ Len(given) <= MaxKey

(* What is called for an index is the function of the symbol that its key was *)
(* given to, or NULL, however often the slot has been emptied and filled       *)
(* again since, and though getSymIdx_P and getFxnAddr_P read a slot without    *)
(* the gate (RcmServer.c:1667-1673, 1612-1620).  It is not when the lookup has *)
(* found no key in the slot, nor at offset 0 (see FxnChecked); and the owner   *)
(* of the key need not be whom the client has asked for.                       *)
IndexCallsItsOwner ==
  look.pc = "calls" =>
    \/ look.addr \in {look.owner, NoName}
    \/ look.index.key = 0
    \/ OffsetZero(look.index.slot) /\ look.addr = Garbage

(* A slot that a failed add has left behind is not found: no index that was  *)
(* given leads to it.                                                        *)
LeakIsUnreachable ==
  \A s \in AllSlots :
    (slot[s].addr # NoName /\ slot[s].name = NoName /\ app.slot # s)
      => \A g \in DOMAIN given :
           given[g].index.slot = s => given[g].index.key # slot[s].key

(* What addSymbol and removeSymbol do to a slot, one access after another,   *)
(* makes no key call a function it was not given for, nor an index of        *)
(* addSymbol lead to a leaked slot.                                          *)
SymbolsAreSafe == SymbolTypeOK /\ IndexCallsItsOwner /\ LeakIsUnreachable
=============================================================================
