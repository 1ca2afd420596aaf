-------------------------- MODULE CorrectLockCases --------------------------
(***************************************************************************)
(* The programs of micro-benches/0-level/correct/rma that synchronize by   *)
(* locks and flushes, alone or mixed with fences, each named after its     *)
(* file.  Rank Other(r) is the neighbour of r, the next and the last one.  *)
(***************************************************************************)
EXTENDS CorrectRmaCases

\* One access in a lock of its own; the fetching of n ints by an operation.
InLock(t, ops) == <<Lock(t)>> \o ops \o <<Unlock(t)>>
InShared(t, ops) == <<LockShared(t)>> \o ops \o <<Unlock(t)>>
InLockAll(ops) == <<LockAll>> \o ops \o <<UnlockAll>>
Val == Ints("val", 1)
Res == Ints("res", 1)
NELM == 2           \* for the 200 of lockcontention2
NBLOCK == 2         \* for the 10
-----------------------------------------------------------------------------
(***************************************************************************)
(* Locks.                                                                  *)
(***************************************************************************)
get_acc_local ==
  LET out == Ints("out_val", 1)
  IN Tested(LAMBDA r :
       <<CreateWin(Ints("counter", 1), 1)>>
       \o Times(Repeats, InShared(r, <<GetAccumulate(Ints("acc_val", 1), out, 1, MPI_INT, r, 0, SUM)>>) \o <<Load(out)>>)
       \o <<FreeWin>>)
lock_nested ==
  Tested(LAMBDA r :
    <<CreateWin(Winbuf, SIZE)>> \o OnlyOn(0, r, <<LockShared(0), LockShared(1), Unlock(1), Unlock(0)>>)
    \o <<Barrier(WORLD), FreeWin>>)
locknull ==
  Tested(LAMBDA r :
    <<CreateWin(Winbuf, SIZE)>> \o ForEach(2, LAMBDA i : InLock(i, <<>>)) \o ForEach(2, LAMBDA i : InShared(i, <<>>))
    \o <<FreeWin, Free(Winbuf)>>)
\* The ranks replace the value on rank 0 in turn.
InTurn(r, ops) ==
  OnlyOn(1, r, <<Recv(Null, 0, MPI_BYTE, 0, 0, WORLD)>>) \o ops
  \o OnlyOn(0, r, <<Send(Null, 0, MPI_BYTE, 1, 0, WORLD)>>) \o <<Barrier(WORLD)>>
OnRank0(r, n) == IF r = 0 THEN CreateWin(Ints("buf", n), n) ELSE NoMemory
flush ==
  Tested(LAMBDA r :
    <<OnRank0(r, 1)>> \o InShared(0, <<Flush(ALL)>>) \o <<Barrier(WORLD), LockShared(0)>>
    \o Times(Repeats, InTurn(r, <<GetAccumulate(Ints("rank", 1), Val, 1, MPI_INT, 0, 0, REPLACE), Flush(0)>>))
    \o <<Unlock(0), FreeWin>> \o OnlyOn(0, r, <<Free(Ints("buf", 1))>>))
\* A neighbour's increment, then the one of rank 1.
compare_and_swap ==
  LET swap(t) == InLock(t, <<CompareAndSwap(Ints("next", 1), Ints("result", 1), MPI_INT, t, 0)>>)
      clear(r) == InLock(r, <<Store(Val)>>)
  IN Tested(LAMBDA r :
       <<CreateWin(Val, 1)>> \o Times(Repeats, swap(r)) \o clear(r) \o <<Barrier(WORLD)>>
       \o Times(Repeats, swap(Other(r))) \o <<Barrier(WORLD)>> \o clear(r) \o <<Barrier(WORLD)>>
       \o OnlyOn(1, r, Times(Repeats, swap(0))) \o <<Barrier(WORLD)>> \o OnlyOn(0, r, <<Load(Val)>>) \o <<FreeWin, Free(Val)>>)
\* Four times rank 1 accesses the window of rank 0, which looks at it after the barrier.
lockopts ==
  LET memsize == SIZE * 4 * 2
      win == Ints("rmabuf", memsize)
      from == Put(Ints("srcbuf", memsize), 1, "vectype", 0, 0, SIZE, MPI_INT, WIN)
      get == GetFrom(Val, 1, MPI_INT, 0, SIZE)
      add == [from EXCEPT !.op = "accumulate"]
      Round(r, ops) ==
        (IF r = 0 THEN <<Barrier(WORLD)>> \o InLock(0, <<Load(win), Store(win)>>)
         ELSE InShared(0, ops) \o <<Barrier(WORLD)>>) \o <<Barrier(WORLD)>>
  IN Tested(LAMBDA r :
       <<CreateWin(win, memsize), TypeVector(SIZE, 1, 4, MPI_INT, "vectype"), TypeCommit("vectype")>>
       \o Round(r, <<add>>) \o Round(r, <<from>>) \o Round(r, <<get, from>>) \o Round(r, <<from, get>>)
       \o <<FreeWin, Free(win), TypeFree("vectype")>>)
\* Both ranks access rank 0 under exclusive locks, NELM times in each of six rounds.
lockcontention2 ==
  LET win == Ints("rmabuf", 6 * NELM * 2)
      put(b, n, d) == PutTo(b, n, MPI_INT, 0, d)
      one(i) == Elem(Ints("localbuf", NELM), i)
      many(i) == Elem(Ints("localbuf2", NELM * NBLOCK), i)
      get(i) == GetFrom(Elem(Ints("vals", NELM), i), 1, MPI_INT, 0, i)
      Place(r, i) == r + 2 * i
      Far(r, i) == NELM * 2 + NBLOCK * Place(r, i)
      add(r, i) == Accumulate(one(i), 1, MPI_INT, 0, Place(r, i), SUM)
      Round(ops(_)) == <<Barrier(WORLD)>> \o ForEach(NELM, LAMBDA i : InLock(0, ops(i))) \o <<Barrier(WORLD)>>
      Look(r) == OnlyOn(0, r, InLock(0, <<Load(win)>>))
      Clear == <<Store(win)>>
  IN Tested(LAMBDA r :
       <<CreateWin(win, 6 * NELM * 2)>>
       \o Round(LAMBDA i : <<put(one(i), 1, Place(r, i)), put(one(i), 1, Place(r, i + NELM))>>) \o Look(r)
       \o <<Barrier(WORLD)>> \o Clear \o Round(LAMBDA i : <<put(one(i), 1, Place(r, i))>>) \o Look(r)
       \o Clear
       \o Round(LAMBDA i : OnlyOn(1, r, <<put(many(i * NBLOCK), NBLOCK, Far(r, i)),
                                           put(many(i * NBLOCK), NBLOCK, Far(r, i + NELM))>>)
                           \o <<put(one(i), 1, Place(r, i))>>)
       \o OnlyOn(0, r, Clear) \o Look(r)
       \o Clear
       \o Round(LAMBDA i : IF r = 1 THEN <<put(many(i), NBLOCK, Far(r, i)), put(one(i), 1, Place(r, i))>> ELSE <<get(i)>>)
       \o Clear \o Round(LAMBDA i : <<get(i)>>)
       \o <<Barrier(WORLD)>> \o Clear \o Round(LAMBDA i : <<add(r, i), add(r, i)>>) \o Look(r)
       \o <<FreeWin, Free(win)>>)
-----------------------------------------------------------------------------
(***************************************************************************)
(* Requests and flushes.                                                   *)
(***************************************************************************)
\* The requests are waited for after the epoch, which has completed them.
rget_unlock ==
  LET lbuf == Ints("lbuf", SIZE)
  IN Tested(LAMBDA r :
       <<CreateWin(Ints("rbuf", SIZE), SIZE)>>
       \o InLockAll(ForEach(SIZE, LAMBDA i : <<Immediate(GetFrom(Elem(lbuf, i), 1, MPI_INT, Other(r), i), REQ[i + 1])>>))
       \o StoreAll(lbuf, SIZE) \o Waitall(SIZE) \o LoadAll(lbuf, SIZE) \o <<FreeWin, Free(lbuf)>>)
\* One more step than there are buffers: MPI_Waitany finds a put to be completed.
req_example ==
  LET M == 2
      mine(j) == Doubles(REQ[j + 1], SIZE)
      Step(r, i, j) ==
        <<Immediate(GetFrom(mine(j), SIZE, MPI_DOUBLE, Other(r), i * SIZE), "get_req"), Wait("get_req"), Load(mine(j)),
          Immediate(PutTo(mine(j), SIZE, MPI_DOUBLE, Other(r), i * SIZE), REQ[j + 1])>>
  IN Tested(LAMBDA r :
       <<Window(Doubles("base", (M + 1) * SIZE), (M + 1) * SIZE * 8, 8)>>
       \o InLockAll(ForEach(M, LAMBDA i : Step(r, i, i)) \o <<Wait(REQ[1])>> \o Step(r, M, 0) \o Waitall(M))
       \o <<FreeWin>>)
\* Rank 1 changes its buffer when the request has completed, and looks at the
\* target after a flush; the ends and the middle of the large buffer.
LocalCompletion(access(_, _, _)) ==
  LET buf == Ints("buf", SIZE + 1)
      Look(v, d) == GetFrom(Ints(v, 1), 1, MPI_INT, 0, d)
      small == <<Store(buf), Immediate(access(buf, 1, 0), "req"), Wait("req"), Store(buf), Flush(0), Look("val", 0), Flush(0),
                 Load(Val)>>
      large == StoreAll(buf, SIZE + 1) \o <<Immediate(access(buf, SIZE + 1, 0), "req"), Wait("req")>> \o StoreAll(buf, SIZE + 1)
               \o <<Flush(0), Look("val0", 0), Look("val1", SIZE), Look("val2", 1), Flush(0), Load(Ints("val0", 1))>>
  IN Tested(LAMBDA r :
       <<CreateWin(Ints("winbuf", SIZE + 1), SIZE + 1)>>
       \o InLockAll(OnlyOn(1, r, Times(Repeats, small)) \o <<Barrier(WORLD)>> \o OnlyOn(1, r, Times(Repeats, large)))
       \o <<Barrier(WORLD), FreeWin, Free(buf), Free(Winbuf)>>)
racc_local_comp == LocalCompletion(LAMBDA b, n, d : Accumulate(b, n, MPI_INT, 0, d, REPLACE))
rput_local_comp == LocalCompletion(LAMBDA b, n, d : PutTo(b, n, MPI_INT, 0, d))
\* Rank 0 stores into the window when the fetching operations are only completed
\* locally; later both ranks put to one place.  Operations on MPI_PROC_NULL do nothing.
reqops ==
  LET buf == Ints("buf", 4)
      rank == Ints("rank", 1)
      swap == GetAccumulate(rank, Val, 1, MPI_INT, 0, 0, REPLACE)
      get == <<Immediate(GetFrom(Val, 1, MPI_INT, 0, 0), "req"), Wait("req")>>
      Reset(r) == <<Barrier(WORLD)>> \o OnlyOn(0, r, <<Store(buf)>>)
      vals == Ints("val", 4)
      four == <<Immediate(GetAccumulate(vals, Res, 1, MPI_INT, 0, 0, REPLACE), REQ[1]),
                Immediate(GetFrom(Elem(vals, 1), 1, MPI_INT, 0, 1), REQ[2]),
                Immediate(PutTo(Elem(vals, 2), 1, MPI_INT, 0, 2), REQ[3]),
                Immediate(Accumulate(Elem(vals, 3), 1, MPI_INT, 0, 3, REPLACE), REQ[4])>>
  IN Tested(LAMBDA r :
       <<OnRank0(r, 4)>> \o InLockAll(<<>>) \o <<Barrier(WORLD), LockShared(0)>>
       \o Times(Repeats, InTurn(r, <<Immediate(swap, "req"), Wait("req")>>)) \o Reset(r)
       \o Times(Repeats, InTurn(r, get \o <<PutTo(rank, 1, MPI_INT, 0, 0), Flush(0)>>)) \o Reset(r)
       \o Times(Repeats, InTurn(r, get \o <<Accumulate(rank, 1, MPI_INT, 0, 0, REPLACE), Flush(0)>>))
       \o <<Unlock(0), Barrier(WORLD)>>
       \o InLockAll(four \o Waitall(4)) \o <<Barrier(WORLD)>>
       \o InLockAll(four) \o Waitall(4)
       \o InLockAll(four) \o InLockAll(Waitall(4))
       \o InLockAll(four) \o <<Fence0>> \o Waitall(4) \o <<Fence0, FreeWin>>)
-----------------------------------------------------------------------------
(***************************************************************************)
(* Locks and fences on one window.                                         *)
(***************************************************************************)
\* Operations on no data, between fences and in locks.
rmazero ==
  LET rmabuf == Ints("rmabuf", 16)
      Ops(t) == <<PutTo(rmabuf, 0, MPI_INT, 0, 0), GetFrom(rmabuf, 0, MPI_INT, 0, 0),
                  Accumulate(rmabuf, 0, MPI_INT, 0, 0, SUM), Accumulate(rmabuf, 0, t, 0, 0, SUM),
                  GetAccumulate(rmabuf, Ints("result", 256), 0, MPI_INT, 0, 0, SUM)>>
      Each5(body(_)) == FlattenSeq([i \in 1..5 |-> body(Ops("derived_dtp")[i])])
  IN Tested(LAMBDA r :
       <<TypeContiguous(2, MPI_INT, "derived_dtp"), TypeCommit("derived_dtp")>>
       \o WithSmallIntracomms(r, LAMBDA c, n :
            <<WindowOn(Ints("buf", 256), 1024, 8, c), Fence0>>
            \o Each5(LAMBDA op : <<op, Fence0>>)
            \o Each5(LAMBDA op : InLock(0, <<op>>))
            \o Each5(LAMBDA op : InLock(0, <<Immediate(op, "req")>>) \o <<Wait("req")>>)
            \o <<FreeWin>> \o MTestFreeComm(c))
       \o <<TypeFree("derived_dtp")>>)
\* In every round rank 1 updates rank 0 in a lock, and then between fences that
\* assert nothing.
mixedsync ==
  LET win == Ints("winbuf", 5)
      buf(k) == Ints(REQ[k], 1)
      put(k, d) == PutTo(buf(k), 1, MPI_INT, 0, d)
      get(k, d) == GetFrom(buf(k), 1, MPI_INT, 0, d)
      acc(k, d, op) == Accumulate(buf(k), 1, MPI_INT, 0, d, op)
      Round(r, locked, ops) ==
        <<Barrier(WORLD)>> \o OnlyOn(1, r, InLock(0, locked)) \o <<Barrier(WORLD), Fence0>> \o OnlyOn(1, r, ops)
        \o <<Fence0>> \o OnlyOn(0, r, LoadAll(win, 4))
  IN Tested(LAMBDA r :
       <<CreateWin(win, 5)>>
       \o Times(2, Round(r, <<put(1, 0), put(2, 1), put(3, 2)>>, <<put(1, 1), put(2, 2), put(3, 3)>>))
       \o Times(2, StoreAll(win, 5) \o Round(r, <<acc(1, 0, SUM), acc(2, 1, SUM), put(3, 2)>>,
                                             <<acc(1, 1, REPLACE), acc(2, 2, REPLACE), put(3, 3)>>))
       \o Times(2, Round(r, <<acc(1, 0, REPLACE), put(2, 1), get(4, 2)>>, <<acc(1, 1, REPLACE), put(2, 2), get(4, 3)>>))
       \o <<Barrier(WORLD), FreeWin, Free(win)>>)
\* Fetching operations: on oneself, on the neighbour, on rank 0, and everybody on
\* everybody: between fences, in lock_all, with flushes; at last without operation.
\* fetch(t, d, k) addresses displacement d of rank t and has piece k of the results.
Fetching(r, fetch(_, _, _), reads(_), win, Reset, leaves) ==
  LET Once(t) == InLock(t, <<fetch(t, 0, 0)>>)
      Look == InLock(r, <<Load(win)>>)
      All(flushes) ==
        ForEach(2, LAMBDA j : <<fetch(j, r, j)>> \o leaves \o (IF flushes THEN <<Flush(j)>> ELSE <<>>))
      Everybody(epoch) == Reset \o Times(Repeats, epoch \o <<Barrier(WORLD)>>) \o <<Barrier(WORLD)>> \o Look
      Unchanged(t) == Reset \o InLock(r, <<Store(win)>>) \o <<Barrier(WORLD)>> \o Times(Repeats, reads(t))
  IN Reset \o Times(Repeats, Once(r)) \o Look
     \o Reset \o Times(Repeats, Once(Other(r))) \o <<Barrier(WORLD)>> \o Look
     \o Reset \o OnlyOn(1, r, Times(Repeats, Once(0))) \o <<Barrier(WORLD)>> \o Look
     \o Everybody(<<FenceWith({NOPRECEDE})>> \o All(FALSE) \o <<FenceWith({NOSUCCEED})>>)
     \o Everybody(InLockAll(All(FALSE))) \o Everybody(InLockAll(All(TRUE)))
     \o Unchanged(Other(r)) \o Unchanged(r)
\* One of its two counts, n for 5 and 1000.
get_accumulate ==
  LET n == SIZE
      win == Ints("win_ptr", 2 * n)
      res == Ints("res_ptr", 2 * n)
      val == Ints("val_ptr", n)
      Fetch(t, d, k) == GetAccumulate(val, Elem(res, k * n), n, MPI_INT, t, d * n, SUM)
      Nothing(t, count) == [GetAccumulate(Null, res, n, MPI_INT, t, 0, NO_OP) EXCEPT !.count = count]
      reset_bufs(r) == <<Barrier(WORLD)>> \o InLock(r, <<Store(win)>>) \o <<Store(res), Store(val), Barrier(WORLD)>>
      ReadOnce(t, count) == <<Store(res)>> \o InLock(t, <<Nothing(t, count)>>) \o <<Load(res)>>
      Reads(t) == ReadOnce(t, n) \o ReadOnce(t, 0) \o ReadOnce(t, 0)
  IN Tested(LAMBDA r :
       <<CreateWin(win, 2 * n)>> \o Fetching(r, Fetch, Reads, win, reset_bufs(r), <<>>)
       \o <<FreeWin, Free(win), Free(res), Free(val)>>)
\* The origin buffer of each operation on everybody leaves its block at once.
fetch_and_op ==
  LET win == Ints("val_ptr", 2)
      res == Ints("res_ptr", 2)
      Fetch(t, d, k) == FetchAndOp(Val, Elem(res, k), MPI_INT, t, d, SUM)
      Reads(t) == InLock(t, <<FetchAndOp(Null, res, MPI_INT, t, 0, NO_OP)>>) \o <<Load(res)>>
      reset_vars(r) == InLock(r, <<Store(win), Store(res)>>) \o <<Barrier(WORLD)>>
  IN Tested(LAMBDA r :
       <<CreateWin(win, 2)>> \o Fetching(r, Fetch, Reads, win, reset_vars(r), <<Free(Val)>>)
       \o <<FreeWin, Free(win), Free(res)>>)
\* Six ways to read pairs on rank 0, in a loop of fences and a rank's own lock.
\* The rank that writes the pairs is the third.
atomic_get ==
  LET PAIR == "MPI_LONG_DOUBLE_INT"
      GACC_SZ == 2
      res == PairArray("result_buf", GACC_SZ, "longdouble", 16, 32)
      tar_buf == Chars("tar_buf", 32 * GACC_SZ)
      fetch(i) == FetchAndOp(Null, Plus(res, 32 * i), PAIR, 0, 0, NO_OP)
      get(n) == [GetAccumulate(Null, res, GACC_SZ, PAIR, 0, 0, NO_OP) EXCEPT !.count = n]
      Ways == <<<<fetch(0), fetch(1)>>, <<fetch(0), fetch(1)>>, <<get(GACC_SZ)>>, <<get(GACC_SZ)>>, <<get(0)>>, <<get(GACC_SZ)>>>>
  IN Tested(LAMBDA r :
       <<Window(tar_buf, 32 * GACC_SZ, 32)>>
       \o FlattenSeq([j \in 1..6 |->
            InLock(r, <<Store(tar_buf), Store(res)>>) \o <<Barrier(WORLD), Fence0>>
            \o OnlyOn(1, r, Ways[j]) \o <<Fence0>> \o OnlyOn(1, r, <<Load(res)>>)])
       \o <<FreeWin, Free(res)>>)
\* On other than three ranks they do nothing.
atomic_rmw_cas == Tested(LAMBDA r : <<>>)
atomic_rmw_fop == atomic_rmw_cas
atomic_rmw_gacc == atomic_rmw_cas
=============================================================================
