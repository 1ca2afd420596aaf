------------------------------ MODULE MtestOps ------------------------------
(***************************************************************************)
(* The instructions of the correct level-0 programs, adopted from the test *)
(* suite of MPICH (micro-benches/0-level/correct), and the helpers of      *)
(* include/mpitest.h they share, run on two ranks.  Loops over message     *)
(* sizes, which double from 1 on, are taken for the sizes 1 and 2; calls   *)
(* that are only repeated, for Repeats times.  Buffers are freed after     *)
(* blocking calls, when nothing is pending.                                *)
(***************************************************************************)
EXTENDS PlainOps, SequencesExt

Repeats == 2
SIZE == 2           \* elements of what the programs call a large message, and of their arrays
Times(n, one) == FlattenSeq([i \in 1..n |-> one])
ForCounts(body(_)) == body(1) \o body(2)
ForRoots(body(_)) == body(0) \o body(1)

Doubles(v, n) == Array(v, "double", n)
Chars(v, n) == Array(v, "char", n)
REQ == <<"req1", "req2", "req3", "req4", "req5">>
Waitall(n) == [i \in 1..n |-> Wait(REQ[i])]
\* MPI_Sendrecv of nothing with a partner
SendrecvNothing(p, tag, c) ==
  <<Irecv(Null, 0, MPI_INT, p, tag, c, "in"), Isend(Null, 0, MPI_INT, p, tag, c, "out"), Wait("in"), Wait("out")>>
\* n structures of a value of C type b and, from byte d on, an int; size bytes each
PairArray(v, n, b, d, size) ==
  Memory(v, UNION {{Block(b, i * size, 1), Block("int", i * size + d, 1)} : i \in 0..(n - 1)})
-----------------------------------------------------------------------------
(***************************************************************************)
(* Collectives; with MPI_IN_PLACE a rank's own piece stays where it is.    *)
(* me is the rank in the communicator.                                     *)
(***************************************************************************)
InPlace(call) == [call EXCEPT !.inplace = TRUE]
AllgatherInPlace(me, b, n, t, c) ==
  InPlace(Exchange("allgather", b, <<Part(n, me * n, t), Part(n, me * n, t)>>, b, Blocks(n, t), 0, c))
GatherInPlace(b, n, t, root, c) == InPlace(Gather(Null, 0, t, b, n, t, root, c))      \* at the root
GatherFrom(b, n, t, root, c) == Gather(b, n, t, Null, -1, t, root, c)                 \* elsewhere
ScatterInPlace(b, n, t, root, c) == InPlace(Scatter(b, n, t, Null, -1, t, root, c))
\* MPI_Alltoall(v), and MPI_Alltoallw, whose displacements are in bytes
Alltoallv(sb, outs, rb, ins, c) == Exchange("alltoall", sb, outs, rb, ins, 0, c)
Alltoallw(sb, outs, rb, ins, c) == Exchange("alltoallw", sb, outs, rb, ins, 0, c)
AlltoallvInPlace(b, ins, c) == InPlace(Alltoallv(b, ins, b, ins, c))
AlltoallwInPlace(b, ins, c) == InPlace(Alltoallw(b, ins, b, ins, c))
Alltoall(sb, rb, n, t, c) == Alltoallv(sb, Blocks(n, t), rb, Blocks(n, t), c)
AlltoallInPlace(b, n, t, c) == AlltoallvInPlace(b, Blocks(n, t), c)

ReduceInPlace(b, n, t, op, root, c) == InPlace(Reduce(b, b, n, t, op, root, c))
ReduceFrom(b, n, t, op, root, c) == Reduce(b, Null, n, t, op, root, c)
Allreduce(sb, rb, n, t, op, c) == Reduction("allreduce", sb, rb, n, t, op, 0, c)
AllreduceInPlace(b, n, t, op, c) == InPlace(Allreduce(b, b, n, t, op, c))
\* MPI_Reduce_scatter(_block), n elements for each rank
ReduceScatter(sb, rb, n, t, op, c) ==
  [Reduction("reduce_scatter", sb, rb, n, t, op, 0, c) EXCEPT !.outs = Blocks(n, t)]
ReduceScatterInPlace(b, n, t, op, c) == InPlace(ReduceScatter(b, b, n, t, op, c))
Scan(sb, rb, n, t, op, c) == Reduction("scan", sb, rb, n, t, op, 0, c)
ScanInPlace(b, n, t, op, c) == InPlace(Scan(b, b, n, t, op, c))
Exscan(sb, rb, n, t, op, c) == Reduction("exscan", sb, rb, n, t, op, 0, c)
ExscanInPlace(b, n, t, op, c) == InPlace(Exscan(b, b, n, t, op, c))

Dup(c, new, group) == MakeComm("dup", c, new, group)
Split(c, new, group) == MakeComm("split", c, new, group)
CommFree(c) == [Blank EXCEPT !.op = "commfree", !.comm = c]
\* MPI_Type_create_resized to an extent in bytes
TypeResized(bytes, old, new) == [MakeType("resized", 1, old, new) EXCEPT !.tag = bytes]
-----------------------------------------------------------------------------
(***************************************************************************)
(* One-sided communication.                                                *)
(***************************************************************************)
WIN == "win"
Window(b, bytes, unit) == WinCreate(b, bytes, unit, WIN)
WindowOn(b, bytes, unit, c) == [Window(b, bytes, unit) EXCEPT !.comm = c]
NoMemory == Window(Null, 0, 1)
Lock(r) == WinLock(r, WIN)
LockShared(r) == Shared(Lock(r))
Unlock(r) == WinUnlock(r, WIN)
OnWindow(o, r) == [Blank EXCEPT !.op = o, !.peer = r, !.win = WIN]
LockAll == Shared(OnWindow("lockall", ALL))
UnlockAll == OnWindow("unlockall", ALL)
Flush(r) == OnWindow("flush", r)                     \* of ALL: MPI_Win_flush_all
FlushLocal(r) == OnWindow("flushlocal", r)
Exposing(o, ranks) == [OnWindow(o, ALL) EXCEPT !.group = ranks]
WinPost(ranks) == Exposing("post", ranks)
WinStart(ranks) == Exposing("start", ranks)
WinComplete == OnWindow("complete", ALL)
WinWait == OnWindow("winwait", ALL)                  \* or MPI_Win_test until it is true
Fence0 == Fence(WIN)
FenceWith(asserts) == Asserting(Fence0, asserts)

\* n elements of one type from or to displacement d of rank r
PutTo(b, n, t, r, d) == Put(b, n, t, r, d, n, t, WIN)
GetFrom(b, n, t, r, d) == Get(b, n, t, r, d, n, t, WIN)
Accumulate(b, n, t, r, d, op) == [Access("accumulate", b, n, t, r, d, n, t, WIN) EXCEPT !.rop = op]
GetAccumulate(b, res, n, t, r, d, op) ==
  [Access("getacc", b, n, t, r, d, n, t, WIN) EXCEPT !.into = res, !.ins = <<Part(n, 0, t)>>, !.rop = op]
FetchAndOp(b, res, t, r, d, op) == GetAccumulate(b, res, 1, t, r, d, op)
CompareAndSwap(b, res, t, r, d) == FetchAndOp(b, res, t, r, d, COMPARE_AND_SWAP)
-----------------------------------------------------------------------------
(***************************************************************************)
(* include/mpitest.h                                                       *)
(***************************************************************************)
MTest_Finalize == <<Reduce(Ints("errs", 1), Ints("toterrs", 1), 1, MPI_INT, SUM, 0, WORLD), Finalize>>
\* main, rank by rank
Tested(body(_)) == Labelled(Correct, [r \in Ranks |-> <<Init1>> \o body(r) \o MTest_Finalize])
\* main with if (rank == 0) around all of it
Tested01(zero, one) == Tested(LAMBDA r : IF r = 0 THEN zero ELSE one)

COMM == "comm"
MTestFreeComm(c) == IF c \in {WORLD, SELF} THEN <<>> ELSE <<CommFree(c)>>

\* The ranks agree on whether a communicator is large enough.
Agreed == <<AllreduceInPlace(Ints("done", 1), 1, MPI_INT, "MPI_LAND", WORLD)>>
\* The ways of MTestGetIntracommGeneral to make one, with the communicator's
\* group on rank r; <<>> is MPI_COMM_NULL.
Duplicate == <<Dup(WORLD, COMM, <<0, 1>>)>>
Reversed == <<Split(WORLD, COMM, <<1, 0>>)>>
ReverseHalf(r) == <<IF r = 0 THEN Split(WORLD, COMM, <<0>>) ELSE Split(WORLD, "", <<>>)>>
MergedIntercomm(r) ==
  <<Split(WORLD, "local_comm", <<r>>), MakeComm("intercomm", WORLD, "inter_comm", <<0, 1>>),
    MakeComm("merge", "inter_comm", COMM, <<1, 0>>), CommFree("inter_comm"), CommFree("local_comm")>>
EvenRanks(r) == IF r = 0 THEN <<MakeComm("create", SELF, COMM, <<0>>)>> ELSE <<>>    \* MPI_Comm_create_group
HighRanks(r) == <<IF r = 1 THEN MakeComm("create", WORLD, COMM, <<1>>) ELSE MakeComm("create", WORLD, "", <<>>)>>
AllButLast(r) == <<Split(WORLD, COMM, <<r>>)>> \o (IF r = 1 THEN <<CommFree(COMM)>> ELSE <<>>)

\* while (MTestGetIntracommGeneral(&comm, 2, 1)), with body(comm, rank in comm).
\* Communicators of one rank are made and freed, and the others go unused:
\* MPI_COMM_SELF, the even ranks, the high half, all but the last.
WithIntracomms(r, body(_, _)) ==
  Agreed \o body(WORLD, r)
  \o Duplicate \o Agreed \o body(COMM, r)
  \o Reversed \o Agreed \o body(COMM, 1 - r)
  \o ReverseHalf(r) \o Agreed \o (IF r = 0 THEN <<CommFree(COMM)>> ELSE <<>>)
  \o Agreed
  \o MergedIntercomm(r) \o Agreed \o body(COMM, 1 - r)
  \o Times(3, Agreed)
\* The same with size 1: body(comm, size of comm).
WithSmallIntracomms(r, body(_, _)) ==
  Agreed \o body(WORLD, 2)
  \o Duplicate \o Agreed \o body(COMM, 2)
  \o Reversed \o Agreed \o body(COMM, 2)
  \o ReverseHalf(r) \o Agreed \o (IF r = 0 THEN body(COMM, 1) ELSE <<>>)
  \o Agreed \o body(SELF, 1)
  \o MergedIntercomm(r) \o Agreed \o body(COMM, 2)
  \o EvenRanks(r) \o Agreed \o (IF r = 0 THEN body(COMM, 1) ELSE <<>>)
  \o HighRanks(r) \o Agreed \o (IF r = 1 THEN body(COMM, 1) ELSE <<>>)
  \o AllButLast(r) \o Agreed \o (IF r = 0 THEN body(COMM, 1) ELSE <<>>)
  \o Agreed
\* A program that does no more than this; body ends with MTestFreeComm.
OnIntracomms(body(_, _)) ==
  Tested(LAMBDA r : WithIntracomms(r, LAMBDA c, me : body(c, me) \o MTestFreeComm(c)))

\* while (MTestGetIntercomm(&comm, &isLeft, 4)): on two ranks every
\* intercommunicator is too small, so it is freed, and the ones made by
\* MPI_COMM_NULL go unused.
MCOMM == "mcomm"
Halves0(r) == <<Split(WORLD, MCOMM, <<r>>), MakeComm("intercomm", WORLD, COMM, <<0, 1>>)>>
\* that intercommunicator as mcomm, copied
Copied(r, o) ==
  <<Split(WORLD, "half", <<r>>), MakeComm("intercomm", WORLD, MCOMM, <<0, 1>>), CommFree("half"),
    MakeComm(o, MCOMM, COMM, <<0, 1>>)>>
BothFreed == <<CommFree(COMM), CommFree(MCOMM)>>
WithoutIntercomms(r) ==
  Times(2, Halves0(r) \o Agreed \o BothFreed) \o Agreed
  \o Copied(r, "dup") \o Agreed \o BothFreed
  \o Copied(r, "split") \o Agreed \o BothFreed
  \o Times(3, Agreed)

\* while (MTestGetWin(&win, 1)): a window over a static array, over allocated
\* memory, and twice one that has 64 bytes on rank 1 only; MTestFreeWin frees the
\* memory of each but the first, and then the window.
MTestWin(r, k) ==
  CASE k = 0 -> Window(Chars("actbuf", 1024), 1024, 1)
    [] k = 1 -> Window(Chars("pasbuf", 1024), 1024, 1)
    [] OTHER -> IF r = 0 THEN NoMemory ELSE Window(Chars("buf", 64), 64, 1)
MTestFreeWin(r, k) ==
  (IF k = 0 \/ MTestWin(r, k) = NoMemory THEN <<>> ELSE <<Free(MTestWin(r, k).buf)>>) \o <<WinFree(WIN)>>
=============================================================================
