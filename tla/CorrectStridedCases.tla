------------------------ MODULE CorrectStridedCases ------------------------
(***************************************************************************)
(* The programs of micro-benches/0-level/correct/rma whose accesses are of *)
(* derived datatypes and of pairs, and those that create windows of        *)
(* several kinds, each named after its file.                               *)
(***************************************************************************)
EXTENDS CorrectLockCases

\* A rank looks at its own window in a lock.
LookAtOwn(r, b) == InLock(r, <<Load(b)>>)
Shm == "shm_comm"
SplitShm == Split(WORLD, Shm, <<0, 1>>)
-----------------------------------------------------------------------------
(***************************************************************************)
(* Rows of doubles: XDIM of them in memory, of which sub are accessed, in  *)
(* SIZE rows, by a type of their own here and there.                       *)
(***************************************************************************)
XDIM == 2
RowsOf(v) == Doubles(v, XDIM * SIZE)
RowBytes == XDIM * SIZE * 8
win_buf == RowsOf("win_buf")
src_buf == RowsOf("src_buf")
dst_buf == RowsOf("dst_buf")
RowWindow == Window(win_buf, RowBytes, 1)
WithTypes(sub, code) ==
  <<TypeVector(SIZE, sub, XDIM, MPI_DOUBLE, "src_type"), TypeVector(SIZE, sub, XDIM, MPI_DOUBLE, "dst_type"),
    TypeCommit("src_type"), TypeCommit("dst_type")>>
  \o code \o <<TypeFree("src_type"), TypeFree("dst_type")>>
To(p, access) == [access EXCEPT !.peer = p, !.type = "src_type", !.rtype = "dst_type"]
PutRows(p) == To(p, PutTo(src_buf, 1, MPI_DOUBLE, p, 0))
GetRows(p) == To(p, GetFrom(dst_buf, 1, MPI_DOUBLE, p, 0))
AddRows(p) == To(p, Accumulate(src_buf, 1, MPI_DOUBLE, p, 0, SUM))
FetchRows(p, op) ==
  [To(p, GetAccumulate(src_buf, dst_buf, 1, MPI_DOUBLE, p, 0, op)) EXCEPT !.ins = <<Part(1, 0, "src_type")>>]
EachLocked(p, accesses) == FlattenSeq([k \in DOMAIN accesses |-> InLock(p, <<accesses[k]>>)])
\* n times, each access in a lock, to the neighbour; then a look at one's own rows,
\* and they and the buffers are freed.
RowAccesses(n, sub, buffers, accesses(_)) ==
  Tested(LAMBDA r :
    <<RowWindow>>
    \o Times(n, WithTypes(sub, EachLocked(Other(r), accesses(Other(r)))))
    \o <<Barrier(WORLD)>> \o LookAtOwn(r, win_buf) \o <<FreeWin, Free(win_buf)>>
    \o [k \in DOMAIN buffers |-> Free(buffers[k])])
\* The window has memory of its own, which is stored into between fences.
SharedRowAccesses(sub, barrier, accesses(_)) ==
  Tested(LAMBDA r :
    <<SplitShm, WindowOn(win_buf, RowBytes, 1, Shm), Fence0, Store(win_buf), Store(src_buf), Fence0>>
    \o Times(Repeats, WithTypes(sub, EachLocked(Other(r), accesses(Other(r)))))
    \o <<Barrier(barrier)>> \o LookAtOwn(r, win_buf) \o <<FreeWin, Free(src_buf), Free(dst_buf), CommFree(Shm)>>)

strided_acc_onelock ==
  LET Row(v, j) == Plus(RowsOf(v), j * XDIM * 8)
      add(p, j) == Accumulate(Row("src_buf", j), XDIM, MPI_DOUBLE, p, j * XDIM * 8, SUM)
  IN Tested(LAMBDA r :
       <<RowWindow>> \o Times(Repeats, InLock(Other(r), ForEach(SIZE, LAMBDA j : <<add(Other(r), j)>>)))
       \o <<Barrier(WORLD)>> \o LookAtOwn(r, win_buf) \o <<FreeWin, Free(win_buf), Free(src_buf)>>)
strided_acc_subarray == RowAccesses(Repeats, XDIM \div 2, <<src_buf>>, LAMBDA p : <<AddRows(p)>>)
strided_acc_indexed == RowAccesses(1, XDIM \div 2, <<src_buf>>, LAMBDA p : <<AddRows(p)>>)
strided_putget_indexed == RowAccesses(Repeats, XDIM, <<src_buf, dst_buf>>, LAMBDA p : <<PutRows(p), GetRows(p)>>)
strided_getacc_indexed ==
  RowAccesses(Repeats, 1, <<src_buf, dst_buf>>, LAMBDA p : <<FetchRows(p, REPLACE), FetchRows(p, NO_OP)>>)
strided_putget_indexed_shared == SharedRowAccesses(XDIM, Shm, LAMBDA p : <<PutRows(p), GetRows(p)>>)
strided_getacc_indexed_shared ==
  SharedRowAccesses(1, WORLD, LAMBDA p : <<FetchRows(p, REPLACE), FetchRows(p, NO_OP)>>)
\* Looks at what it has got instead.
strided_get_indexed ==
  Tested(LAMBDA r :
    <<RowWindow>> \o WithTypes(XDIM, InLock(Other(r), <<GetRows(Other(r))>>))
    \o <<Barrier(WORLD), Load(dst_buf), FreeWin, Free(win_buf), Free(dst_buf)>>)
\* The rows as bytes; addresses relative to another buffer, or absolute.
ByteRows(access) == [access EXCEPT !.count = RowBytes, !.rcount = RowBytes, !.type = MPI_BYTE, !.rtype = MPI_BYTE]
put_base == RowAccesses(Repeats, XDIM, <<src_buf, dst_buf>>, LAMBDA p : <<ByteRows(PutRows(p))>>)
put_bottom == put_base
-----------------------------------------------------------------------------
(***************************************************************************)
(* Pairs and other types.                                                  *)
(***************************************************************************)
acc_pairtype ==
  LET n == 5
      orig_buf == PairArray("orig_buf", n, "longdouble", 16, 32)
      tar_buf == Chars("tar_buf", 32 * n)
  IN Tested(LAMBDA r :
       <<TypeVector(2, 1, 2, "MPI_LONG_DOUBLE_INT", "vector_dtp"), TypeCommit("vector_dtp"),
         Window(tar_buf, 32 * n, 32)>>
       \o OnlyOn(0, r, InShared(1, <<Accumulate(orig_buf, 1, "vector_dtp", 1, 0, "MPI_MAXLOC")>>))
       \o <<FreeWin>> \o OnlyOn(1, r, <<Load(tar_buf)>>)
       \o <<TypeFree("vector_dtp"), Free(orig_buf), Free(tar_buf)>>)
\* The second of two ints on rank 0 itself; the memory is freed before the window.
contig_displ ==
  LET array == Ints("array", 2)
      get == [GetFrom(Ints("getval", 1), 1, MPI_INT, 0, 0) EXCEPT !.rtype = "type"]
  IN Tested01(
       <<TypeStruct(1, <<1>>, <<4>>, <<MPI_INT>>, "type"), TypeCommit("type"),
         WindowOn(array, 8, 4, SELF), Store(array)>>
       \o InLock(0, <<get>>) \o <<Load(Ints("getval", 1)), Free(array), FreeWin, TypeFree("type")>>,
       <<>>)
\* A rank accesses its own window, every second int, and compares in between.
selfrma ==
  LET count == 4 * SIZE
      winbuf == Ints("winbuf", count)
      sbuf == Ints("sbuf", count)
      Own(r, access) == [access EXCEPT !.peer = r, !.type = "vectype", !.rtype = "vectype"]
      compare == ForEach(SIZE, LAMBDA i : <<Load(Elem(winbuf, 2 * i)), Load(Elem(sbuf, 2 * i))>>)
  IN Tested(LAMBDA r :
       <<TypeVector(count \div 4, 1, 2, MPI_INT, "vectype"), TypeCommit("vectype"), CreateWin(winbuf, count)>>
       \o <<Store(winbuf)>> \o InLock(r, <<Own(r, PutTo(sbuf, 1, MPI_INT, r, 0))>>) \o compare
       \o <<Store(winbuf)>> \o InShared(r, <<Own(r, Accumulate(sbuf, 1, MPI_INT, r, 0, SUM))>>) \o compare
       \o <<Store(sbuf)>> \o InShared(r, <<Own(r, GetFrom(sbuf, 1, MPI_INT, r, 0))>>) \o compare
       \o <<FreeWin, Free(winbuf), Free(sbuf), TypeFree("vectype")>>)
\* test1 with two ints at a time; the arrays have 2 * SIZE elements.
test1_dt ==
  LET n == 2 * SIZE
      mine == Ints("A", n)
      Pairwise(access) == [access EXCEPT !.rcount = 1, !.rtype = "contig_2ints"]
      create == <<TypeContiguous(2, MPI_INT, "contig_2ints"), TypeCommit("contig_2ints"),
                  DeuceWin(Ints("B", n), n), Fence0>>
      free == <<FreeWin, TypeFree("contig_2ints")>>
      Twos(one(_)) == ForEach((n - 2) \div 2, LAMBDA k : <<Pairwise(one(2 * k))>>)
  IN Tested2(create \o Twos(LAMBDA i : PutTo(Elem(mine, i), 2, MPI_INT, 1, i))
             \o <<Fence0, Load(Elem(Ints("B", n), n - 1))>> \o free,
             create \o Twos(LAMBDA i : GetFrom(Elem(mine, i), 2, MPI_INT, 0, i))
             \o <<Pairwise(Accumulate(Elem(mine, n - 2), 2, MPI_INT, 0, n - 2, SUM)), Fence0>>
             \o LoadAll(mine, n - 2) \o LoadAll(Ints("B", n), n - 2) \o free)
\* Two accumulations of rank 1 to one place on rank 0, of one pair and of many,
\* in windows with the default order of accumulations, with none, and again.
acc_ordering ==
  LET data == Ints("data", 2 * SIZE)
      Add(v, n, op) == Accumulate(Ints(v, 2 * SIZE), n, "MPI_2INT", 0, 0, op)
      Two(r, n, v, op1, w, op2) ==
        <<Fence0>> \o OnlyOn(1, r, <<Add(v, n, op1), Add(w, n, op2)>>) \o <<Fence0>> \o OnlyOn(0, r, <<Load(data)>>)
      OneAndMany(r, v, op1, w, op2) ==
        Two(r, 1, v, op1, w, op2) \o OnlyOn(0, r, <<Store(data)>>) \o Two(r, SIZE, v, op1, w, op2)
      Clear(r) == OnlyOn(0, r, <<Store(data)>>)
      create == <<Window(data, 8 * SIZE, 1)>>
      Replaced(r) == create \o OneAndMany(r, "mine", REPLACE, "mine_plus", REPLACE) \o <<FreeWin>> \o Clear(r)
      body(r) ==
        Times(2, Replaced(r)) \o create
        \o OneAndMany(r, "mine_plus", "MPI_MAXLOC", "mine", REPLACE) \o Clear(r)
        \o OneAndMany(r, "mine_plus", REPLACE, "mine", "MPI_MINLOC") \o <<FreeWin>>
        \o OnlyOn(1, r, <<Free(Ints("mine", 2 * SIZE)), Free(Ints("mine_plus", 2 * SIZE))>>)
  IN Labelled(Correct, [r \in Ranks |-> <<Init1>> \o body(r) \o MTest_Finalize \o <<Free(data)>>])
-----------------------------------------------------------------------------
(***************************************************************************)
(* Windows of several kinds come and go.                                   *)
(***************************************************************************)
\* Created, allocated and dynamic, with nothing on rank 0.
win_flavors ==
  LET Sized(r) == IF r = 0 THEN NoMemory ELSE Window(Chars("buf", 8), 8, 1)
  IN Tested(LAMBDA r :
       <<Sized(r), FreeWin>> \o OnlyOn(1, r, <<Free(Chars("buf", 8))>>) \o <<Sized(r), FreeWin, NoMemory, FreeWin>>)
\* The communicator is freed before its window.
win_info ==
  LET one == CreateWin(Ints("base", 1), 1)
  IN Tested(LAMBDA r :
       <<one, FreeWin, one, FreeWin, SplitShm, [one EXCEPT !.comm = Shm], CommFree(Shm), FreeWin>>)
\* In turn on both communicators: everywhere, nothing on the odd rank, half of it there.
win_large_shm ==
  LET large == 2
      Win(n, c) == IF n = 0 THEN [NoMemory EXCEPT !.comm = c] ELSE WindowOn(Chars("mybase", n), n, 1, c)
      OnBoth(n) == <<Win(n, WORLD), FreeWin, Win(n, Shm), FreeWin>>
      Sizes(r) == <<large, IF r = 0 THEN large ELSE 0, IF r = 0 THEN large ELSE large \div 2>>
  IN Tested(LAMBDA r :
       Times(2, <<SplitShm>> \o FlattenSeq([k \in 1..3 |-> OnBoth(Sizes(r)[k])]) \o <<CommFree(Shm)>>))
win_shared_query_null ==
  Tested(LAMBDA r :
    <<SplitShm, IF r = 0 THEN [NoMemory EXCEPT !.comm = Shm] ELSE WindowOn(Ints("my_base", 4), 16, 4, Shm),
      FreeWin, CommFree(Shm)>>)
=============================================================================
