-------------------------- MODULE CorrectRmaCases --------------------------
(***************************************************************************)
(* The programs of micro-benches/0-level/correct/rma that synchronize by   *)
(* fences or by post, start, complete and wait, and those that only create *)
(* windows, each named after its file (but test1 to test5).  Arrays have   *)
(* SIZE elements for the hundreds to a million of the source.              *)
(***************************************************************************)
EXTENDS MtestOps

ForEach(n, body(_)) == FlattenSeq([i \in 1..n |-> body(i - 1)])
Elem(b, i) == Plus(b, 4 * i)                     \* &b[i] of ints
StoreAll(b, n) == ForEach(n, LAMBDA i : <<Store(Elem(b, i))>>)
LoadAll(b, n) == ForEach(n, LAMBDA i : <<Load(Elem(b, i))>>)
OnlyOn(r, me, code) == IF me = r THEN code ELSE <<>>
Winbuf == Ints("winbuf", SIZE)
CreateWin(b, n) == Window(b, n * 4, 4)           \* n ints, counted in ints
FreeWin == WinFree(WIN)
A == Ints("A", SIZE)
B == Ints("B", SIZE)
-----------------------------------------------------------------------------
(***************************************************************************)
(* Windows come and go.                                                    *)
(***************************************************************************)
getgroup ==
  OnIntracomms(LAMBDA c, me : <<WindowOn(Ints("buf", 10), 40, 4, c), FreeWin>>)
baseattrwin == Tested(LAMBDA r : <<Window(Ints("base", 256), 1024, 4), FreeWin>>)
wincall == Tested(LAMBDA r : Times(Repeats, <<Window(Ints("buf", 2), 8, 4), FreeWin>>))
\* The first is freed first; two of 1000 windows.
window_creation ==
  Tested(LAMBDA r :
    <<WinCreate(A, SIZE * 4, 1, "win1"), WinCreate(B, SIZE * 4, 1, "win2"), Barrier(WORLD),
      WinFree("win1"), Free(A), WinFree("win2"), Free(B)>>)
\* One byte on odd ranks, three times; then none at all, three times.
win_zero ==
  Tested(LAMBDA r :
    <<Split(WORLD, "shm_comm", <<0, 1>>)>>
    \o ForEach(3, LAMBDA i : <<IF r = 0 THEN NoMemory ELSE Window(Chars("win_buf", 1), 1, 1), FreeWin>>)
    \o Times(3, <<NoMemory, FreeWin>>) \o <<CommFree("shm_comm")>>)
\* while (MTestGetWin(&win, 1)) MTestFreeWin(&win): memory is freed before its window.
winname == Tested(LAMBDA r : ForEach(4, LAMBDA k : <<MTestWin(r, k)>> \o MTestFreeWin(r, k)))
-----------------------------------------------------------------------------
(***************************************************************************)
(* Fences.                                                                 *)
(***************************************************************************)
One == Ints("one", 1)
manyrma3 ==
  Tested(LAMBDA r :
    <<CreateWin(Ints("winbuf", 1), 1), Fence0>> \o Times(Repeats, <<Accumulate(One, 1, MPI_INT, 0, 0, SUM)>>)
    \o <<Fence0, FreeWin>>)
\* 100000 gets into one buffer in one epoch
manyget ==
  Tested01(<<CreateWin(Winbuf, SIZE), Fence0, Fence0, FreeWin>>,
           <<NoMemory, Fence0>> \o Times(Repeats, <<GetFrom(Ints("buf", SIZE), SIZE, MPI_INT, 0, 0)>>)
           \o <<Fence0, FreeWin>>)
\* The replacements of one rank are ordered.
large_small_acc ==
  LET Replace(v, n, d) == Accumulate(Array(v, "long", n), n, MPI_LONG, 1, d, REPLACE)
  IN Tested(LAMBDA r :
       Times(Repeats,
         <<Window(Array("buf", "long", 4), 32, 8), Fence0>>
         \o OnlyOn(0, r, <<Replace("orig_buf", 4, 0), Replace("small_orig_buf_1", 1, 0), Replace("small_orig_buf_2", 2, 1)>>)
         \o <<Fence0>> \o OnlyOn(1, r, ForEach(4, LAMBDA i : <<Load(Plus(Array("buf", "long", 4), 8 * i))>>))
         \o <<FreeWin>>))
\* Both ranks add to the window of rank 0 of the communicator; freed is what is
\* freed before and after the window.
Accfence(before, after) ==
  OnIntracomms(LAMBDA c, me :
    ForCounts(LAMBDA n :
      <<WindowOn(Winbuf, n * 4, 4, c), Fence0, Accumulate(Ints("sbuf", n), n, MPI_INT, 0, 0, SUM), Fence0>>
      \o OnlyOn(0, me, LoadAll(Winbuf, n)) \o before \o <<FreeWin>> \o after))
accfence2 == Accfence(<<Free(Winbuf)>>, <<>>)
accfence2_am == Accfence(<<>>, <<Free(Winbuf)>>)
\* A pair on rank 0, which both ranks update: between fences and then, when a
\* fence has asserted that no access succeeds it, in a lock.
acc_loc ==
  LET data == Ints("data", 2)
      mine == Ints("mine", 2)
      TWO_INTS == "MPI_2INT"
      Update(op) == Accumulate(mine, 1, TWO_INTS, 0, 0, op)
      Check(r) == OnlyOn(0, r, <<Load(data)>>)
      Reset(r) == OnlyOn(0, r, <<Store(data)>>)
      Locked(r, op) == Reset(r) \o <<FenceWith({NOSUCCEED}), Store(mine), LockShared(0), Update(op), Unlock(0),
                                     Barrier(WORLD)>> \o Check(r)
  IN Tested(LAMBDA r :
       <<IF r = 0 THEN Window(data, 8, 1) ELSE NoMemory, FenceWith({NOPRECEDE})>>
       \o Reset(r) \o <<Fence0, Store(mine), Update("MPI_MAXLOC"), Fence0>> \o Check(r)
       \o Reset(r) \o <<Fence0, Store(mine), Update("MPI_MINLOC"), Fence0>> \o Check(r)
       \o Locked(r, "MPI_MAXLOC") \o <<FenceWith({NOPRECEDE})>>
       \o Locked(r, "MPI_MINLOC") \o <<FreeWin, Free(data)>>)
\* The window of rank 1 is put to between fences, and then by itself in a lock.
fence_shm ==
  LET base == Ints("my_base", 1)
  IN Tested01(
       <<Split(WORLD, "shm_comm", <<0, 1>>), WindowOn(base, 4, 4, "shm_comm"),
         Fence0, PutTo(One, 1, MPI_INT, 1, 0), Fence0,
         FenceWith({NOPRECEDE}), GetFrom(Ints("result_data", 1), 1, MPI_INT, 1, 0), Fence0, Load(Ints("result_data", 1)),
         FreeWin, CommFree("shm_comm")>>,
       <<Split(WORLD, "shm_comm", <<0, 1>>), WindowOn(base, 4, 4, "shm_comm"),
         Store(base), Fence0, Fence0, Load(base),
         Lock(1), PutTo(One, 1, MPI_INT, 1, 0), Unlock(1), FenceWith({NOPRECEDE}), Fence0,
         FreeWin, CommFree("shm_comm")>>)
-----------------------------------------------------------------------------
(***************************************************************************)
(* test1 to test5, and their variants with memory of MPI_Alloc_mem: a      *)
(* communicator of two ranks, of which rank 0 accesses the memory of rank  *)
(* 1.                                                                      *)
(***************************************************************************)
Deuce == "CommDeuce"
OnDeuce(r, code) == <<Split(WORLD, Deuce, <<0, 1>>)>> \o code \o <<CommFree(Deuce)>>
Tested2(zero, one) == Tested(LAMBDA r : OnDeuce(r, IF r = 0 THEN zero ELSE one))
DeuceWin(b, n) == WindowOn(b, n * 4, 4, Deuce)
DeuceNone == WindowOn(Null, 0, 1, Deuce)

\* freed is what is freed at the end.
PutOrGet(freed) ==
  LET create == <<DeuceWin(B, SIZE), Fence0>>
  IN Tested2(create \o ForEach(SIZE - 1, LAMBDA i : <<PutTo(Elem(A, i), 1, MPI_INT, 1, i)>>)
             \o <<Fence0, Load(Elem(B, SIZE - 1)), FreeWin>> \o freed,
             create \o ForEach(SIZE - 1, LAMBDA i : <<GetFrom(Elem(A, i), 1, MPI_INT, 0, i)>>)
             \o <<Accumulate(Elem(A, SIZE - 1), 1, MPI_INT, 0, SIZE - 1, SUM), Fence0>>
             \o LoadAll(A, SIZE - 1) \o LoadAll(B, SIZE - 1) \o <<FreeWin>> \o freed)
test1 == PutOrGet(<<>>)
test1_am == PutOrGet(<<Free(A), Free(B)>>)
\* B of rank 1 has SIZE elements to put to and as many to get.  The memory is
\* freed, or goes out of scope, before the window is.
B2 == Ints("B", 2 * SIZE)
PutsAndGets ==
  ForEach(SIZE, LAMBDA i : <<PutTo(Elem(A, i), 1, MPI_INT, 1, i)>>)
  \o ForEach(SIZE, LAMBDA i : <<GetFrom(Elem(B2, i), 1, MPI_INT, 1, SIZE + i)>>)
OwnStores(b, n) == <<LockShared(1)>> \o StoreAll(b, n) \o <<Unlock(1)>>
test2 ==
  Tested2(<<DeuceNone, WinStart(<<1>>)>> \o PutsAndGets \o <<WinComplete>> \o LoadAll(B2, SIZE) \o <<Free(B2), FreeWin>>,
          <<DeuceWin(B2, 2 * SIZE)>> \o OwnStores(B2, 2 * SIZE) \o <<WinPost(<<0>>), WinWait>> \o LoadAll(B2, SIZE)
          \o <<Free(B2), FreeWin>>)
test2_am == test2
wintest == test2
\* A message comes between, which rank 0 sends after the epoch.
test3 ==
  Tested2(<<DeuceNone, WinStart(<<1>>), PutTo(A, SIZE, MPI_INT, 1, 0), WinComplete, Send(B, SIZE, MPI_INT, 1, 100, WORLD),
            Free(B), FreeWin>>,
          <<DeuceWin(B, SIZE)>> \o OwnStores(B, SIZE)
          \o <<WinPost(<<0>>), Recv(A, SIZE, MPI_INT, 0, 100, WORLD), WinWait>> \o LoadAll(B, SIZE) \o <<Free(B), FreeWin>>)
test3_am == test3
\* Every access has a lock of its own.
Locks(rounds) ==
  LET puts == ForEach(SIZE, LAMBDA i : <<LockShared(1), PutTo(Elem(A, i), 1, MPI_INT, 1, i), Unlock(1)>>)
      gets == ForEach(SIZE, LAMBDA i : <<LockShared(1), GetFrom(Elem(B2, i), 1, MPI_INT, 1, SIZE + i), Unlock(1)>>)
  IN Tested2(<<DeuceNone>> \o Times(rounds, puts \o gets) \o <<FreeWin>> \o LoadAll(B2, SIZE),
             <<DeuceWin(B2, 2 * SIZE), FreeWin>> \o LoadAll(B2, SIZE))
test4 == Locks(2)
test4_am == Locks(1)
\* Both ranks get from each other.
test5 ==
  LET Getting(mine, into, r) ==
        <<DeuceWin(mine, SIZE), Fence0>>
        \o ForEach(SIZE, LAMBDA i : <<Store(Elem(into, i)), GetFrom(Elem(into, i), 1, MPI_INT, Other(r), i)>>)
        \o <<Fence0>> \o LoadAll(into, SIZE) \o <<FreeWin>>
  IN Tested2(Getting(B, A, 0), Getting(A, B, 1))
test5_am == test5
-----------------------------------------------------------------------------
(***************************************************************************)
(* Post, start, complete and wait.                                         *)
(***************************************************************************)
nullpscw == Tested(LAMBDA r : <<NoMemory, WinPost(<<0, 1>>), WinStart(<<0, 1>>), WinComplete, WinWait, FreeWin>>)
\* Accesses of rank 0 to rank 1, by fences and then by a started epoch; stores of a
\* rank into its own window are in a lock.
at_complete ==
  LET win == Ints("win_buf", 1 + SIZE)
      get == GetFrom(Ints("orig_get_buf", SIZE), SIZE, MPI_INT, 1, 1)
      put == PutTo(Ints("orig_put_buf", 1), 1, MPI_INT, 1, 0)
      InLock(r, stores) == <<LockShared(r)>> \o stores \o <<Unlock(r)>>
      Reset(r) == <<Barrier(WORLD), Store(Ints("orig_put_buf", 1))>> \o StoreAll(Ints("orig_get_buf", SIZE), SIZE)
                  \o InLock(r, StoreAll(win, 1 + SIZE)) \o <<Barrier(WORLD)>>
      Checked(r) == IF r = 0 THEN LoadAll(Ints("orig_get_buf", SIZE), SIZE)
                    ELSE InLock(r, <<Store(Elem(win, SIZE))>>)
      Fences(r) == <<FenceWith({NOPRECEDE})>> \o OnlyOn(0, r, <<get, put>>) \o <<FenceWith({NOSUCCEED})>> \o Checked(r)
      Posting(r) == (IF r = 0 THEN <<WinStart(<<1>>), get, put, WinComplete>> ELSE <<WinPost(<<0>>), WinWait>>) \o Checked(r)
  IN Tested(LAMBDA r :
       <<CreateWin(win, 1 + SIZE)>> \o Times(Repeats, Fences(r) \o Reset(r) \o Posting(r) \o Reset(r)) \o <<FreeWin>>)
\* Even ranks start before they post in the first epoch, and post first in the
\* second; odd ranks the other way round.
pscw_ordering ==
  LET win == Ints("win_buf", 2)
      mine(r, t) == PutTo(Ints("rank", 1), 1, MPI_INT, t, r)
      Epochs(r) ==
        IF r = 0
        THEN <<WinStart(<<1>>), WinPost(<<1>>), mine(0, 1), WinComplete, WinWait,
               WinPost(<<0>>), WinStart(<<0>>), mine(0, 0), WinComplete, WinWait>>
        ELSE <<WinPost(<<0>>), WinStart(<<0>>), mine(1, 0), WinComplete, WinWait,
               WinPost(<<1>>), WinStart(<<1>>), mine(1, 1), WinComplete, WinWait>>
  IN Tested(LAMBDA r :
       <<CreateWin(win, 2), LockShared(r)>> \o StoreAll(win, 2) \o <<Unlock(r)>> \o Epochs(r) \o LoadAll(win, 2)
       \o <<FreeWin, Free(win)>>)
=============================================================================
