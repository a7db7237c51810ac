------------------------------ MODULE Multiply ------------------------------
(***************************************************************************)
(* The programs that multiply matrices without a barrier (imgkernel,       *)
(* pathfinder, multiply, multiply_sum, matmul/tmp: one code, two values of *)
(* SIZE).  The host asks the M3 and the DSP for a range of the rows each;  *)
(* the processors share the memory and no cache, so that fxnTest1 works    *)
(* between an invalidation of the buffers and a write-back of its rows.    *)
(* One call is made of a processor at a time: fxnTest1 keeps its arguments *)
(* in globals.                                                             *)
(*                                                                         *)
(* A row of A or B holds the number of the call the host wrote it for, one *)
(* of C the number of the call whose product it is, 0 for no product.      *)
(***************************************************************************)
EXTENDS Integers

CONSTANTS
  Size,             \* SIZE: rows are 0 .. Size - 1
  Products          \* the host's calls

ASSUME MultiplyAssumption == Size \in Nat \ {0} /\ Products \in Nat

Processors == {"M3", "DSP"}
MatrixRows == 0 .. Size - 1
Lines == {"A", "B", "C"} \X MatrixRows
Absent == -1

VARIABLES
  memory,           \* of each line
  cached, dirty,    \* of each processor: lines in its cache, those it has written
  product,          \* calls made by the host
  rows,             \* FxnArgs: the range of each processor, <<start_indx, end_indx>>
  mpPc,             \* of each processor: "idle", "called", "work", "done"
  taskRows,         \* start_indx and end_indx of t1 and t2; the DSP works as t1 alone
  posted            \* the tasks that have posted edgeDetectEvent

mpVars == <<memory, cached, dirty, product, rows, mpPc, taskRows, posted>>

MpTasks == {"t1", "t2"}
TasksOf(p) == IF p = "M3" THEN MpTasks ELSE {"t1"}
NoRows == [t \in MpTasks |-> <<0, 0>>]

MpInit ==
  /\ memory = [l \in Lines |-> 0]
  /\ cached = [p \in Processors |-> [l \in Lines |-> Absent]]
  /\ dirty = [p \in Processors |-> {}]
  /\ product = 0 /\ rows = [p \in Processors |-> <<0, 0>>]
  /\ mpPc = [p \in Processors |-> "idle"]
  /\ taskRows = [p \in Processors |-> NoRows] /\ posted = [p \in Processors |-> {}]

\* The host writes the matrices and shares the rows out.
HostCalls(split) ==
  /\ product < Products /\ \A p \in Processors : mpPc[p] = "idle"
  /\ product' = product + 1
  /\ memory' = [l \in Lines |-> IF l[1] = "C" THEN memory[l] ELSE product']
  /\ rows' = [p \in Processors |-> IF p = "M3" THEN <<0, split>> ELSE <<split, Size>>]
  /\ mpPc' = [p \in Processors |-> "called"]
  /\ UNCHANGED <<cached, dirty, taskRows, posted>>

-----------------------------------------------------------------------------
(* The caches *)

LinesWritten(p, lines) == [l \in Lines |-> IF l \in lines \cap dirty[p] THEN cached[p][l] ELSE memory[l]]
Dropped(p, lines) ==
  /\ cached' = [cached EXCEPT ![p] = [l \in Lines |-> IF l \in lines THEN Absent ELSE @[l]]]
  /\ dirty' = [dirty EXCEPT ![p] = @ \ lines]

\* A line is put out to make room.
Evict(p, l) ==
  /\ cached[p][l] # Absent
  /\ memory' = LinesWritten(p, {l}) /\ Dropped(p, {l})
  /\ UNCHANGED <<product, rows, mpPc, taskRows, posted>>

RowsOf(range) == {l \in Lines : range[1] <= l[2] /\ l[2] < range[2]}

\* (mutant) as many bytes as the range has, from the start of each buffer.
InvalidatedRange(p) == Dropped(p, RowsOf(<<0, rows[p][2] - rows[p][1]>>))

\* invalidate_caches: all of the three buffers, whatever num_bytes says.
Invalidated(p) == Dropped(p, Lines)

\* wb_invalidate_caches, from the first row of the range: num_bytes were counted
\* before t1.end_indx and t2.start_indx were set.
WrittenBack(p) == memory' = LinesWritten(p, RowsOf(rows[p])) /\ Dropped(p, RowsOf(rows[p]))

-----------------------------------------------------------------------------
(* fxnTest1 *)

\* The tasks of the M3 share the range, one half each.
Halves(range) ==
  LET unit_work == (range[2] - range[1]) \div 2
  IN [t \in MpTasks |-> IF t = "t1" THEN <<range[1], range[1] + unit_work>>
                                    ELSE <<range[1] + unit_work, range[2]>>]

MpEnter(p) ==
  /\ mpPc[p] = "called" /\ mpPc' = [mpPc EXCEPT ![p] = "work"]
  /\ Invalidated(p)
  /\ taskRows' = [taskRows EXCEPT ![p] =
       IF p = "M3" THEN Halves(rows[p]) ELSE [NoRows EXCEPT !["t1"] = rows[p]]]
  /\ UNCHANGED <<memory, product, rows, posted>>

\* One turn of the outer loop of multiply, through the cache.
MultiplyRow(p, t) ==
  LET i == taskRows[p][t][1]
      reads == {<<"A", i>>} \cup {<<"B", k>> : k \in MatrixRows}
      Seen(l) == IF cached[p][l] = Absent THEN memory[l] ELSE cached[p][l]
  IN /\ mpPc[p] = "work" /\ t \in TasksOf(p) /\ i < taskRows[p][t][2]
     /\ cached' = [cached EXCEPT ![p] = [l \in Lines |->
          IF l \in reads THEN Seen(l)
          ELSE IF l = <<"C", i>> THEN (IF \A r \in reads : Seen(r) = product THEN product ELSE 0)
          ELSE @[l]]]
     /\ dirty' = [dirty EXCEPT ![p] = @ \cup {<<"C", i>>}]
     /\ taskRows' = [taskRows EXCEPT ![p][t][1] = i + 1]
     /\ UNCHANGED <<memory, product, rows, mpPc, posted>>

\* The end of common_wrapper; on the DSP, of multiply.
PostEvent(p, t) ==
  /\ mpPc[p] = "work" /\ t \in TasksOf(p) \ posted[p]
  /\ taskRows[p][t][1] >= taskRows[p][t][2]
  /\ posted' = [posted EXCEPT ![p] = @ \cup {t}]
  /\ UNCHANGED <<memory, cached, dirty, product, rows, mpPc, taskRows>>

\* Event_pend wants the events of both tasks, and takes them.
MpLeave(p) ==
  /\ mpPc[p] = "work" /\ posted[p] = TasksOf(p)
  /\ posted' = [posted EXCEPT ![p] = {}] /\ mpPc' = [mpPc EXCEPT ![p] = "done"]
  /\ WrittenBack(p)
  /\ UNCHANGED <<product, rows, taskRows>>

\* The host has both answers, and the product.
HostHasProduct ==
  /\ \A p \in Processors : mpPc[p] = "done"
  /\ mpPc' = [p \in Processors |-> "idle"]
  /\ UNCHANGED <<memory, cached, dirty, product, rows, taskRows, posted>>

MpRuns ==
  \/ \E p \in Processors : MpEnter(p) \/ MpLeave(p) \/ \E t \in MpTasks : MultiplyRow(p, t) \/ PostEvent(p, t)
  \/ HostHasProduct

MpNext ==
  \/ MpRuns
  \/ \E split \in 0 .. Size : HostCalls(split)
  \/ \E p \in Processors, l \in Lines : Evict(p, l)

MpSpec == MpInit /\ [][MpNext]_mpVars /\ WF_mpVars(MpRuns)

-----------------------------------------------------------------------------
MpTypeOK ==
  /\ memory \in [Lines -> 0 .. Products]
  /\ cached \in [Processors -> [Lines -> {Absent} \cup 0 .. Products]]
  /\ dirty \in [Processors -> SUBSET Lines]
  /\ mpPc \in [Processors -> {"idle", "called", "work", "done"}]

(* When both processors have answered, every row of C in memory is that of   *)
(* the product of the matrices the host wrote for this call: none was left   *)
(* in a cache, computed from what a cache kept of another call, or lost to   *)
(* what a processor had of the other's rows.                                 *)
ProductIsWhole ==
  (\A p \in Processors : mpPc[p] = "done") => \A r \in MatrixRows : memory[<<"C", r>>] = product

(* The host gets its product.                                                *)
ProductComes == (\E p \in Processors : mpPc[p] # "idle") ~> \A p \in Processors : mpPc[p] = "idle"
=============================================================================
