----------------------------- MODULE OmpMpiOps -----------------------------
(***************************************************************************)
(* The instructions the OpenMP cases of the suite are written in: what a   *)
(* case does to MPI, to shared memory and to the oracle, with everything   *)
(* else left out.  A case is a record                                      *)
(*   level   the thread level it asks MPI_Init_thread for                  *)
(*   checks  whether it gives up when less is provided, and                *)
(*   signals whether it reports no error before it does                    *)
(*   label   the misuses of MPI it is written to contain: none if correct  *)
(*   mem     what main has stored on each rank before the parallel region, *)
(*           as a function from cells <<buffer, index>> to values          *)
(*   code    for each rank and thread, its sequence of instructions        *)
(* Buffers are cut into one cell per thread (BUFFER_LENGTH_INT ints fall   *)
(* to the threads in equal parts, or one int each), values are the pattern *)
(* ids of nondeterminism.h or the ints a case stores.                      *)
(***************************************************************************)
EXTENDS Integers, Sequences, FiniteSets, TLC

\* #define NUM_THREADS 2 and the two ranks every case is run on.
NUM_THREADS == 2
Tids == 0..(NUM_THREADS - 1)
Ranks == {0, 1}
Other(r) == 1 - r          \* size - rank - 1

\* MPI_THREAD_SINGLE < MPI_THREAD_FUNNELED < MPI_THREAD_SERIALIZED < ..._MULTIPLE
SINGLE == 0
FUNNELED == 1
SERIALIZED == 2
MULTIPLE == 3

Uninit == -9               \* a variable nobody has stored into
Fresh == -8                \* malloc'd memory whose content a case does not look at
AnyTag == -1

\* The int that fill_message_buffer leaves in a buffer: 0x00 and 0xFF are ints
\* the cases compare with, the other patterns are just different.
Pattern(id) == CASE id = 6 -> 0 [] id = 7 -> -1 [] OTHER -> 100 + id

Whole == <<0, 1>>          \* every cell of a buffer, in order
Cell(i) == <<i>>

Buffer(b, v) == [x \in {b} \X Tids |-> v]
Handles(h, v) == Buffer(h, v)               \* one handle per thread; 1 while it is valid
NoBuffers == <<>>

\* A function of rank or thread, given by its two values.
Each(f(_)) == (0 :> f(0)) @@ (1 :> f(1))
OnBoth(x) == (0 :> x) @@ (1 :> x)
\* checks: main gives up when the level is too low; signals: it then says so.
Case(level, label, memory, code) ==
  [level |-> level, checks |-> TRUE, signals |-> TRUE, label |-> label, mem |-> memory, code |-> code]
GivesUpSilently(c) == [c EXCEPT !.signals = FALSE]
NeverChecks(c) == [c EXCEPT !.checks = FALSE]
-----------------------------------------------------------------------------
\* One instruction; the constructors below set the fields that matter.
Blank == [op |-> "none", buf |-> "none", cells |-> <<>>, into |-> "none", val |-> 0,
          peer |-> 0, tag |-> 0, req |-> <<"none", 0>>, uses |-> {}, items |-> <<>>, cond |-> {}]

Collectives == {"barrier", "bcast", "ibcast", "reduce"}
Nonblocking == {"isend", "irecv", "ibcast"}
Blocking == {"send", "recv", "recvprobed", "sendrecv", "barrier", "bcast", "reduce"}
MpiOps == Nonblocking \cup Blocking \cup
            {"wait", "probe", "mprobe", "mrecv", "create", "use", "free", "finalize"}

NoItem == <<0, 0>>
InitThread == [Blank EXCEPT !.op = "init"]     \* MPI_Init_thread, first in every main

\* OpenMP: the team starts, meets and ends; a worksharing construct or a set
\* of tasks with its items; a named lock (omp critical, omp_set_lock).
Fork == [Blank EXCEPT !.op = "fork"]
Join == [Blank EXCEPT !.op = "join"]
Bar == [Blank EXCEPT !.op = "bar"]
Work(id, items) == [Blank EXCEPT !.op = "work", !.tag = id, !.items = items]
Item(code) == [code |-> code, after |-> {}]
Depend(code, earlier) == [code |-> code, after |-> earlier]
Lock == [Blank EXCEPT !.op = "lock"]
Unlock == [Blank EXCEPT !.op = "unlock"]

Critical(code) == <<Lock>> \o code \o <<Unlock>>
Single(id, code) == <<Work(id, <<Item(code)>>), Bar>>
SingleNowait(id, code) == <<Work(id, <<Item(code)>>)>>
SectionsNowait(id, first, second) == <<Work(id, <<Item(first), Item(second)>>)>>
Sections(id, first, second) == SectionsNowait(id, first, second) \o <<Bar>>
Tasks(id, items) == <<Work(id, items), Bar>>
Master(t, code) == IF t = 0 THEN code ELSE <<>>

\* What thread t of a rank executes: main runs before, the region and after.
Region(before, body(_), after) ==
  Each(LAMBDA t : LET region == <<Fork>> \o body(t) \o <<Join>>
                  IN IF t = 0 THEN before \o region \o after ELSE region)
MainOnly(code) == (0 :> code) @@ (1 :> <<>>)

\* Shared memory: store val in cells of a buffer, one cell after the other.
Touch1(o, b, c, v) == [Blank EXCEPT !.op = o, !.buf = b, !.cells = <<c>>, !.val = v]
Store(b, cs, v) == IF cs = Whole THEN <<Touch1("store", b, 0, v), Touch1("store", b, 1, v)>>
                                 ELSE <<Touch1("store", b, cs[1], v)>>
Add(b, c, v) == <<Touch1("add", b, c, v)>>
\* b[c] = b[c] || condition
Judge(b, c, condition) == <<[Touch1("judge", b, c, 1) EXCEPT !.cond = condition]>>

\* MPI
Send(b, cs, dst, tag) ==
  [Blank EXCEPT !.op = "send", !.buf = b, !.cells = cs, !.peer = dst, !.tag = tag]
Recv(b, cs, src, tag) ==
  [Blank EXCEPT !.op = "recv", !.buf = b, !.cells = cs, !.peer = src, !.tag = tag]
Isend(b, cs, dst, tag, rq) ==
  [Blank EXCEPT !.op = "isend", !.buf = b, !.cells = cs, !.peer = dst, !.tag = tag, !.req = rq]
Irecv(b, cs, src, tag, rq) ==
  [Blank EXCEPT !.op = "irecv", !.buf = b, !.cells = cs, !.peer = src, !.tag = tag, !.req = rq]
Wait(rq) == [Blank EXCEPT !.op = "wait", !.req = rq]
Barrier == [Blank EXCEPT !.op = "barrier"]
INT == 0                   \* the datatype a collective is called with
FLOAT == 1
Bcast(b, cs, root) == [Blank EXCEPT !.op = "bcast", !.buf = b, !.cells = cs, !.peer = root]
BcastFloat(b, cs, root) == [Bcast(b, cs, root) EXCEPT !.tag = FLOAT]
Ibcast(b, cs, root, rq) ==
  [Blank EXCEPT !.op = "ibcast", !.buf = b, !.cells = cs, !.peer = root, !.req = rq]
Reduce(b, cs, out, root) ==
  [Blank EXCEPT !.op = "reduce", !.buf = b, !.cells = cs, !.peer = root, !.into = out]
Sendrecv(b, out, cs, other, tag) ==
  [Blank EXCEPT !.op = "sendrecv", !.buf = b, !.into = out, !.cells = cs, !.peer = other, !.tag = tag]
\* The length of the message found goes to cell <<count, i>>.
Probe(src, tag, count, i) == [Blank EXCEPT !.op = "probe", !.peer = src, !.tag = tag, !.req = <<count, i>>]
Mprobe(src, tag, count, i) == [Probe(src, tag, count, i) EXCEPT !.op = "mprobe"]
RecvProbed(b, cs, src) == [Blank EXCEPT !.op = "recvprobed", !.buf = b, !.cells = cs, !.peer = src]
Mrecv(b, cs, src) == [RecvProbed(b, cs, src) EXCEPT !.op = "mrecv"]
Finalize == [Blank EXCEPT !.op = "finalize"]
Create(h, i) == [Blank EXCEPT !.op = "create", !.buf = h, !.cells = <<i>>]
Use(h, i) == [Blank EXCEPT !.op = "use", !.buf = h, !.cells = <<i>>]
Free(h, i) == [Blank EXCEPT !.op = "free", !.buf = h, !.cells = <<i>>]
With(call, h, i) == [call EXCEPT !.uses = @ \cup {<<h, i>>}]   \* a call that is passed a handle

\* The oracle of nondeterminism.h.  A condition is a set of clauses, each a set
\* of literals: true when all literals of some clause are.
CaptureFlag == [Blank EXCEPT !.op = "capture"]
CountOverlap == [Blank EXCEPT !.op = "count"]
CheckOverlapEnd == [Blank EXCEPT !.op = "end"]
Bracketed(code) == <<CaptureFlag, CountOverlap>> \o code \o <<CheckOverlapEnd>>
EnterA == [Blank EXCEPT !.op = "take", !.buf = "before_a"]
ExitA == [Blank EXCEPT !.op = "take", !.buf = "after_a"]
EnterB == [Blank EXCEPT !.op = "take", !.buf = "before_b"]
ExitB == [Blank EXCEPT !.op = "take", !.buf = "after_b"]
CallA(code) == <<EnterA>> \o code \o <<ExitA>>
CallB(code) == <<EnterB>> \o code \o <<ExitB>>
Report(c) == [Blank EXCEPT !.op = "report", !.cond = c]

Always == {{}}
Never == {}
Has(b, cs, v) == [kind |-> "has", buf |-> b, cells |-> cs, val |-> v]     \* every cell is v
Lacks(b, cs, v) == [kind |-> "lacks", buf |-> b, cells |-> cs, val |-> v] \* some cell is not v
Holds(b, cs, v) == [kind |-> "holds", buf |-> b, cells |-> cs, val |-> v] \* some cell is v
Counted == [kind |-> "counted", buf |-> "none", cells |-> <<>>, val |-> 0]
Disordered == [kind |-> "disordered", buf |-> "none", cells |-> <<>>, val |-> 0]
UnlessInOrder == <<Report({{Disordered}})>>
=============================================================================
