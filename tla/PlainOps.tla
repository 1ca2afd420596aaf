------------------------------ MODULE PlainOps ------------------------------
(***************************************************************************)
(* The instructions the single-threaded level-0 programs are written in    *)
(* (micro-benches/0-level: coll, pt2pt, rma, usertypes and conflo): calls  *)
(* of MPI with the arguments that decide whether they are legal, and what  *)
(* main does to memory that a call may still be using.  A program is       *)
(*   label   the category in its file name                                 *)
(*   plain   per rank, its instructions when run without argument (argc 1) *)
(*   given   the same when run with one                                    *)
(* The suite runs every case on two ranks.                                 *)
(***************************************************************************)
EXTENDS Integers, Sequences, TLC

Ranks == {0, 1}
Other(r) == 1 - r

(***************************************************************************)
(* Memory.  A variable of the program is a set of blocks, n objects of C   *)
(* type base from byte disp on; a buffer argument is an address in it.     *)
(***************************************************************************)
Sizeof == [char |-> 1, schar |-> 1, uchar |-> 1, short |-> 2, int |-> 4, unsigned |-> 4, float |-> 4,
           long |-> 8, longlong |-> 8, double |-> 8, longdouble |-> 16, doublecomplex |-> 16,
           pointer |-> 8, bool |-> 1, byte |-> 1]
Block(b, d, n) == [base |-> b, disp |-> d, n |-> n]
Memory(v, blocks) == [var |-> v, blocks |-> blocks, at |-> 0]
Array(v, b, n) == Memory(v, {Block(b, 0, n)})
Ints(v, n) == Array(v, "int", n)
Plus(b, bytes) == [b EXCEPT !.at = @ + bytes]     \* &b[i], in bytes
Null == Memory("NULL", {})
Nowhere == Memory("nowhere", {})                  \* an uninitialized pointer

\* n objects of type t lie at byte d of the buffer.
Lies(buf, d, t, n) ==
  \E k \in buf.blocks : /\ t \in {k.base, "byte"} /\ buf.at + d >= k.disp
                        /\ (buf.at + d - k.disp) % Sizeof[t] = 0
                        /\ buf.at + d + n * Sizeof[t] <= k.disp + k.n * Sizeof[k.base]
\* The memory from the address on is at least so many bytes.
Spans(buf, bytes) ==
  \E k \in buf.blocks : buf.at >= k.disp /\ buf.at + bytes <= k.disp + k.n * Sizeof[k.base]

\* The bytes [from, to) of a variable.
Region(b, bytes) == [var |-> b.var, from |-> b.at, to |-> b.at + bytes]
Overlap(x, y) == x.var = y.var /\ x.from < y.to /\ y.from < x.to
EndOfMemory == 1000000
AllOf(b) == [var |-> b.var, from |-> 0, to |-> EndOfMemory]
-----------------------------------------------------------------------------
(***************************************************************************)
(* Datatypes: the type map, a sequence of <<C type, displacement>>.        *)
(***************************************************************************)
Basic(b) == [map |-> <<<<b, 0>>>>, extent |-> Sizeof[b], committed |-> TRUE]
\* A value of C type b and an int at byte d, bytes each.
PairOf(b, d, bytes) == [map |-> <<<<b, 0>>, <<"int", d>>>>, extent |-> bytes, committed |-> TRUE]
PairTypes == [MPI_2INT |-> PairOf("int", 4, 8), MPI_FLOAT_INT |-> PairOf("float", 4, 8),
              MPI_SHORT_INT |-> PairOf("short", 4, 8), MPI_LONG_INT |-> PairOf("long", 8, 16),
              MPI_DOUBLE_INT |-> PairOf("double", 8, 16), MPI_LONG_DOUBLE_INT |-> PairOf("longdouble", 16, 32)]
Predefined == PairTypes @@
  [MPI_INT |-> Basic("int"), MPI_UNSIGNED |-> Basic("unsigned"), MPI_CHAR |-> Basic("char"),
   MPI_SIGNED_CHAR |-> Basic("schar"), MPI_UNSIGNED_CHAR |-> Basic("uchar"),
   MPI_DOUBLE |-> Basic("double"), MPI_FLOAT |-> Basic("float"), MPI_LONG |-> Basic("long"),
   MPI_LONG_LONG_INT |-> Basic("longlong"), MPI_LONG_DOUBLE |-> Basic("longdouble"),
   MPI_DOUBLE_COMPLEX |-> Basic("doublecomplex"), MPI_C_BOOL |-> Basic("bool"), MPI_BYTE |-> Basic("byte")]
MPI_INT == "MPI_INT"
MPI_UNSIGNED == "MPI_UNSIGNED"
MPI_CHAR == "MPI_CHAR"
MPI_DOUBLE == "MPI_DOUBLE"
MPI_FLOAT == "MPI_FLOAT"
MPI_LONG_LONG_INT == "MPI_LONG_LONG_INT"
MPI_LONG == "MPI_LONG"
MPI_BYTE == "MPI_BYTE"
MPI_LONG_INT == "MPI_LONG_INT"      \* the pair of a long and an int
MPI_C_BOOL == "MPI_C_BOOL"
NoHandle == "NULL"                  \* a handle argument that is NULL

\* count copies of a type, each stride bytes after the one before
Copies(t, count, stride) ==
  LET k == Len(t.map)
  IN [map |-> [i \in 1..(count * k) |->
                 <<t.map[((i - 1) % k) + 1][1], t.map[((i - 1) % k) + 1][2] + ((i - 1) \div k) * stride>>],
      extent |-> (count - 1) * stride + t.extent, committed |-> FALSE]

Signature(t, i) == t.map[((i - 1) % Len(t.map)) + 1][1]      \* of the ith element sent
Elements(d) == d.count * Len(d.type.map)
\* Data d, count elements of a type, may be received as e; is exactly e.
ReceivedAs(d, e) == /\ Elements(d) <= Elements(e)
                    /\ \A i \in 1..Elements(d) : Signature(d.type, i) = Signature(e.type, i)
SameData(d, e) == Elements(d) = Elements(e) /\ ReceivedAs(d, e)
Bytes(d) == (d.count - 1) * d.type.extent + d.type.extent
\* A buffer holds what the data's type says.
Holds(buf, d) == \A i \in 0..(d.count - 1) : \A k \in 1..Len(d.type.map) :
                   Lies(buf, i * d.type.extent + d.type.map[k][2], d.type.map[k][1], 1)
-----------------------------------------------------------------------------
(***************************************************************************)
(* Calls.                                                                  *)
(***************************************************************************)
WORLD == "MPI_COMM_WORLD"
SELF == "MPI_COMM_SELF"
COMM_NULL == "MPI_COMM_NULL"
SUM == "MPI_SUM"
REPLACE == "MPI_REPLACE"
NO_OP == "MPI_NO_OP"
COMPARE_AND_SWAP == "MPI_Compare_and_swap"      \* an operation of its own
ALL == -200                         \* every rank of a window
\* Handles that programs give to MPI_Op_create.
UserOps == {"op", "op_addem", "op_assoc", "left_op", "right_op", "nc_sum_op"}
MPI_ANY_SOURCE == -100
ANY_TAG == -1
MPI_TAG_UB == 2000000000            \* the key of an attribute, used as a tag: a number from mpi.h
KeyvalTag == MPI_TAG_UB + 1

Blank == [op |-> "none", buf |-> Null, count |-> 0, type |-> MPI_INT,
          into |-> Null, rcount |-> 0, rtype |-> MPI_INT, peer |-> 0, tag |-> 0, comm |-> WORLD,
          req |-> "", rop |-> SUM, win |-> "", name |-> "", nums |-> <<>>, disps |-> <<>>, olds |-> <<>>,
          outs |-> <<>>, ins |-> <<>>, inplace |-> FALSE, group |-> <<>>, mode |-> "standard",
          ok |-> TRUE, status |-> TRUE, asserts |-> {}]

Init1 == [Blank EXCEPT !.op = "init"]
Finalize == [Blank EXCEPT !.op = "finalize"]

Transfer(o, b, n, t, p, tag, c) ==
  [Blank EXCEPT !.op = o, !.buf = b, !.count = n, !.type = t, !.peer = p, !.tag = tag, !.comm = c]
Send(b, n, t, dst, tag, c) == Transfer("send", b, n, t, dst, tag, c)
Recv(b, n, t, src, tag, c) == Transfer("recv", b, n, t, src, tag, c)
Isend(b, n, t, dst, tag, c, rq) == [Transfer("isend", b, n, t, dst, tag, c) EXCEPT !.req = rq]
Irecv(b, n, t, src, tag, c, rq) == [Transfer("irecv", b, n, t, src, tag, c) EXCEPT !.req = rq]
Wait(rq) == [Blank EXCEPT !.op = "wait", !.req = rq]
\* MPI_Test; whether the pointer to flag is not NULL, and the one to the status.
Test(rq, flag, status) == [Blank EXCEPT !.op = "test", !.req = rq, !.ok = flag, !.status = status]
RecvNullStatus(b, n, t, src, tag, c) == [Recv(b, n, t, src, tag, c) EXCEPT !.status = FALSE]
\* The other modes: a buffered send never waits, a synchronous one always does,
\* one that is ready expects that its receive has been posted.
Mode(m, call) == [call EXCEPT !.mode = m]
BufferDetach == [Blank EXCEPT !.op = "detach"]
Probe(src, tag, c) == Transfer("probe", Null, 0, MPI_INT, src, tag, c)
Cancel(rq) == [Blank EXCEPT !.op = "cancel", !.req = rq]
RequestFree(rq) == [Blank EXCEPT !.op = "requestfree", !.req = rq]

\* A collective: what the rank sends to each member of the communicator, and
\* what it receives from each, n elements of a type so many extents into a buffer.
Part(n, d, t) == [n |-> n, at |-> d, type |-> t]
Same(n, t) == <<Part(n, 0, t), Part(n, 0, t)>>
Blocks(n, t) == <<Part(n, 0, t), Part(n, n, t)>>
Exchange(o, sb, outs, rb, ins, root, c) ==
  [Blank EXCEPT !.op = o, !.buf = sb, !.outs = outs, !.into = rb, !.ins = ins, !.peer = root, !.comm = c]
Allgather(sb, sn, st, rb, rn, rt, c) == Exchange("allgather", sb, Same(sn, st), rb, Blocks(rn, rt), 0, c)
Gather(sb, sn, st, rb, rn, rt, root, c) == Exchange("gather", sb, Same(sn, st), rb, Blocks(rn, rt), root, c)
Scatter(sb, sn, st, rb, rn, rt, root, c) == Exchange("scatter", sb, Blocks(sn, st), rb, Same(rn, rt), root, c)
Reduction(o, sb, rb, n, t, op, root, c) ==
  [Exchange(o, sb, Same(n, t), rb, Same(n, t), root, c) EXCEPT !.rop = op]
Reduce(sb, rb, n, t, op, root, c) == Reduction("reduce", sb, rb, n, t, op, root, c)
Bcast(b, n, t, root, c) == [Exchange("bcast", b, Same(n, t), b, Same(n, t), root, c) EXCEPT !.inplace = TRUE]
Immediate(call, rq) == [call EXCEPT !.req = rq]          \* the call as its MPI_I variant
Ibcast(b, n, t, root, c, rq) == Immediate(Bcast(b, n, t, root, c), rq)
Barrier(c) == [Blank EXCEPT !.op = "barrier", !.comm = c]
\* A communicator made of ranks of c, the group in order; new is "" on a rank that gets none.
MakeComm(o, c, new, group) == [Blank EXCEPT !.op = o, !.comm = c, !.name = new, !.group = group]
ROW == "row_comm"
SplitRow(r, both) == MakeComm("split", WORLD, ROW, IF both THEN <<0, 1>> ELSE <<r>>)

\* ok: the pointer to the new handle is not NULL.
MakeType(o, n, old, new) == [Blank EXCEPT !.op = o, !.count = n, !.type = old, !.name = new, !.ok = new # NoHandle]
TypeContiguous(n, old, new) == MakeType("contiguous", n, old, new)
TypeHvector(n, len, bytes, old, new) == [MakeType("hvector", n, old, new) EXCEPT !.rcount = len, !.tag = bytes]
TypeVector(n, len, stride, old, new) == [MakeType("vector", n, old, new) EXCEPT !.rcount = len, !.tag = stride]
TypeStruct(n, lens, ds, ts, new) ==
  [MakeType("struct", n, MPI_INT, new) EXCEPT !.nums = lens, !.disps = ds, !.olds = ts]
TypeCommit(t) == [Blank EXCEPT !.op = "commit", !.type = t]
TypeFree(t) == [Blank EXCEPT !.op = "typefree", !.type = t]

WinCreate(b, bytes, unit, w) ==
  [Blank EXCEPT !.op = "wincreate", !.buf = b, !.count = bytes, !.rcount = unit, !.win = w]
WinFree(w) == [Blank EXCEPT !.op = "winfree", !.win = w]
Fence(w) == [Blank EXCEPT !.op = "fence", !.win = w]
\* Assertions: no access has come before the fence, none will come after it.
NOPRECEDE == "MPI_MODE_NOPRECEDE"
NOSUCCEED == "MPI_MODE_NOSUCCEED"
Asserting(call, asserts) == [call EXCEPT !.asserts = asserts]
FenceNoPrecede(w) == Asserting(Fence(w), {NOPRECEDE})
WinLock(r, w) == [Blank EXCEPT !.op = "lock", !.peer = r, !.win = w, !.mode = "exclusive"]
Shared(call) == [call EXCEPT !.mode = "shared"]
WinUnlock(r, w) == [Blank EXCEPT !.op = "unlock", !.peer = r, !.win = w]
Access(o, b, n, t, r, d, rn, rt, w) ==
  [Blank EXCEPT !.op = o, !.buf = b, !.count = n, !.type = t, !.peer = r, !.tag = d,
                !.rcount = rn, !.rtype = rt, !.win = w]
Put(b, n, t, r, d, rn, rt, w) == Access("put", b, n, t, r, d, rn, rt, w)
Get(b, n, t, r, d, rn, rt, w) == Access("get", b, n, t, r, d, rn, rt, w)

\* main itself: stores into a buffer, loads from one; frees one, or leaves the block it lives in.
Store(b) == [Blank EXCEPT !.op = "store", !.buf = b]
Load(b) == [Blank EXCEPT !.op = "load", !.buf = b]
Free(b) == [Blank EXCEPT !.op = "free", !.buf = b]
AssertFalse == [Blank EXCEPT !.op = "assert"]            \* assert(0 == 1)
-----------------------------------------------------------------------------
Main(code) == <<Init1>> \o code \o <<Finalize>>
Both(code) == [r \in Ranks |-> Main(code)]
Each(zero, one) == (0 :> Main(zero)) @@ (1 :> Main(one))

Labelled(l, code) == [label |-> l, plain |-> code, given |-> code]
Correct == "correct"                \* the folder of the programs that are
ArgError(code) == Labelled("ArgError", code)
ArgMismatch(code) == Labelled("ArgMismatch", code)
MisplacedCall(code) == Labelled("MisplacedCall", code)
MissingCall(code) == Labelled("MissingCall", code)
\* The program is bad when argc is 1, and good otherwise.
Unless(bad, good) == [bad EXCEPT !.given = good.given]
=============================================================================
