------------------------------- MODULE SysMin -------------------------------
(***************************************************************************)
(* The trace buffer that the host reads (trace/SysMin.c, the build with    *)
(* SMP).  Each core collects a line, under no more than its own interrupt  *)
(* lock; a line that ends or is full is copied into the circular buffer    *)
(* under the system gate, behind a tag with the core's number, and only    *)
(* then is the write index moved that the host looks at.                   *)
(***************************************************************************)
EXTENDS Naturals, Sequences

CONSTANTS
  TraceCores,
  BufSize,          \* SysMin_bufSize
  Reserved,         \* its last bytes, which hold the indices: 8
  LineSize,         \* SysMin_LINEBUFSIZE
  MaxChars          \* bound: characters output in all

\* A character: "nl" ends a line.
Chars == {"ch", "nl"}

ASSUME SysMinAssumption ==
  /\ {BufSize, Reserved, LineSize, MaxChars} \subseteq Nat
  /\ Reserved < BufSize /\ 0 < LineSize /\ "free" \notin TraceCores

VARIABLES
  outbuf, outidx,   \* the circular buffer, and where it is written next
  writeidx,         \* what the host sees of it
  linebuf,          \* the line of each core
  putPc, copied,    \* where each core is in putch, and how far it has copied
  gate,             \* the core in the system gate, or "free"
  said,             \* how many characters each core has output
  stream            \* all that has gone to outbuf, in order

trcVars == <<outbuf, outidx, writeidx, linebuf, putPc, copied, gate, said, stream>>

\* A byte of a line: a character, the n-th that its core has output, or the tag, which
\* is the number of the core alone.
Byte(core, c, n) == [core |-> core, c |-> c, n |-> n]
Free == Byte("free", "nl", 0)

TrcInit ==
  /\ outbuf = [i \in 0 .. BufSize - 1 |-> Free] /\ outidx = 0 /\ writeidx = 0
  /\ linebuf = [c \in TraceCores |-> <<>>] /\ putPc = [c \in TraceCores |-> "out"]
  /\ copied = [c \in TraceCores |-> 0] /\ gate = "free"
  /\ said = [c \in TraceCores |-> 0] /\ stream = <<>>

PutGoto(c, pc) == putPc' = [putPc EXCEPT ![c] = pc]

\* SysMin_putch: into the line.
Putch(c, ch) ==
  /\ putPc[c] = "out"
  /\ Len(stream) + Len(linebuf[c]) < MaxChars
  /\ said' = [said EXCEPT ![c] = @ + 1]
  /\ linebuf' = [linebuf EXCEPT ![c] = Append(@, Byte(c, ch, said[c] + 1))]
  /\ PutGoto(c, IF ch = "nl" \/ Len(linebuf[c]) + 1 >= LineSize THEN "gate" ELSE "out")
  /\ UNCHANGED <<outbuf, outidx, writeidx, copied, gate, stream>>

\* (mutant) the other core is not waited for.
EnterGateFree(c) ==
  /\ putPc[c] = "gate"
  /\ gate' = c /\ copied' = [copied EXCEPT ![c] = 0] /\ PutGoto(c, "copy")
  /\ UNCHANGED <<outbuf, outidx, writeidx, linebuf, said, stream>>

EnterGate(c) ==
  /\ putPc[c] = "gate" /\ gate = "free"
  /\ gate' = c /\ copied' = [copied EXCEPT ![c] = 0] /\ PutGoto(c, "copy")
  /\ UNCHANGED <<outbuf, outidx, writeidx, linebuf, said, stream>>

Ring == BufSize - Reserved
IndexAfter(i) == IF i + 1 = Ring THEN 0 ELSE i + 1

\* SysMin_output: the tag, then the characters of the line.
Output(c) ==
  /\ putPc[c] = "copy" /\ copied[c] <= Len(linebuf[c])
  /\ LET x == IF copied[c] = 0 THEN Byte(c, "tag", 0) ELSE linebuf[c][copied[c]] IN
     /\ outbuf' = [outbuf EXCEPT ![outidx] = x]
     /\ stream' = Append(stream, x)
  /\ outidx' = IndexAfter(outidx)
  /\ copied' = [copied EXCEPT ![c] = @ + 1]
  /\ UNCHANGED <<writeidx, linebuf, putPc, gate, said>>

\* (mutant) the index is not moved with the line.
PublishNot(c) ==
  /\ putPc[c] = "copy" /\ copied[c] > Len(linebuf[c])
  /\ linebuf' = [linebuf EXCEPT ![c] = <<>>] /\ gate' = "free" /\ PutGoto(c, "out")
  /\ UNCHANGED <<outbuf, outidx, writeidx, copied, said, stream>>

Publish(c) ==
  /\ putPc[c] = "copy" /\ copied[c] > Len(linebuf[c])
  /\ writeidx' = outidx
  /\ linebuf' = [linebuf EXCEPT ![c] = <<>>] /\ gate' = "free" /\ PutGoto(c, "out")
  /\ UNCHANGED <<outbuf, outidx, copied, said, stream>>

TrcNext ==
  \E c \in TraceCores :
    \/ \E ch \in Chars : Putch(c, ch)
    \/ EnterGate(c) \/ Output(c) \/ Publish(c)

TrcSpec == TrcInit /\ [][TrcNext]_trcVars

-----------------------------------------------------------------------------
\* The index k bytes before i.
Back(i, k) == IF k <= i THEN i - k ELSE i + Ring - k

(* The indices never reach the bytes they are kept in, and the buffer holds  *)
(* the end of the stream: a wrap loses the oldest characters only.           *)
TrcTypeOK ==
  /\ outidx < Ring /\ writeidx < Ring
  /\ \A i \in Ring .. BufSize - 1 : outbuf[i] = Free
  /\ \A k \in 1 .. Ring : k <= Len(stream) =>
       outbuf[Back(outidx, k)] = stream[Len(stream) + 1 - k]

IsChar(x, c) == x.core = c /\ x.c # "tag"

(* The host reads whole lines, each behind the tag of the core that output   *)
(* it: nothing of another core is in it, nothing is lost, doubled or out of  *)
(* order, although each core goes on outputting while the other copies; and  *)
(* the index it reads up to stands before a line that is being copied.       *)
LinesAreWhole ==
  /\ \A i \in DOMAIN stream : stream[i].c # "tag" => i > 1 /\ stream[i - 1].core = stream[i].core
  /\ \A c \in TraceCores : \A j \in DOMAIN stream : \A i \in 1 .. j - 1 :
       IsChar(stream[i], c) /\ IsChar(stream[j], c) => stream[i].n < stream[j].n
  /\ \A c \in TraceCores : \A n \in 1 .. said[c] :
       \/ \E i \in DOMAIN stream : IsChar(stream[i], c) /\ stream[i].n = n
       \/ \E i \in DOMAIN linebuf[c] : linebuf[c][i].n = n
  /\ gate = "free" => writeidx = outidx
  /\ \A c \in TraceCores :
       putPc[c] = "copy" /\ copied[c] <= Ring => writeidx = Back(outidx, copied[c])

(* The ring of the trace holds the end of the stream, line by line.          *)
TraceIsSound == TrcTypeOK /\ LinesAreWhole
=============================================================================
