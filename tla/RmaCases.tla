------------------------------ MODULE RmaCases ------------------------------
(***************************************************************************)
(* The programs of micro-benches/0-level/rma, each named after its file:   *)
(* a window over 10 ints on each rank, counted in bytes (displacement unit *)
(* 1), in which rank 0 accesses the memory of rank 1 between two fences.   *)
(***************************************************************************)
EXTENDS PlainOps

Ten == 10                                  \* #define N 10
Malloced == Ints("buffer", Ten)
LocalBuf == Ints("local_buf", Ten)
Windowing(b, bytes, zero, one) ==
  LET create == <<WinCreate(b, bytes, 1, "win")>>
      free == <<WinFree("win"), Free(b)>>
  IN Each(create \o zero \o free, create \o one \o free)
OverTen(zero, one) == Windowing(Malloced, Ten * 4, zero, one)
F == Fence("win")
Fenced(calls) == OverTen(<<F>> \o calls \o <<F>>, <<F, F>>)
GetN(b, n, t, r, d, rn) == Get(b, n, t, r, d, rn, t, "win")
PutN(b, n, t, r, d, rn) == Put(b, n, t, r, d, rn, t, "win")
GoodGet == GetN(LocalBuf, Ten, MPI_INT, 1, 0, Ten)
GoodPut == PutN(LocalBuf, Ten, MPI_INT, 1, 0, Ten)

ArgErrorMPIGetSizeNotMatching == ArgError(Fenced(<<GetN(Ints("local_buf", 4), 5, MPI_INT, 1, 0, Ten)>>))
ArgErrorMPIGetbuffer == ArgError(Fenced(<<GetN(Null, Ten, MPI_INT, 1, 0, Ten)>>))
ArgErrorMPIGetinvalidAccess == ArgError(Fenced(<<GetN(LocalBuf, Ten, MPI_INT, 1, 5, Ten)>>))
ArgErrorMPIGetrank == ArgError(Fenced(<<GetN(LocalBuf, Ten, MPI_INT, -1, 0, Ten)>>))
\* Its closing fence asserts that no access came before.
ArgErrorMPIPutInvalidAccess ==
  ArgError(OverTen(<<F, PutN(LocalBuf, Ten, MPI_INT, 1, 5, Ten), FenceNoPrecede("win")>>, <<F, F>>))
ArgErrorMPIPutSizeNotMatching == ArgError(Fenced(<<PutN(LocalBuf, 15, MPI_INT, 1, 0, 15)>>))
ArgErrorMPIPutbuffer == ArgError(Fenced(<<PutN(Null, Ten, MPI_INT, 1, 0, Ten)>>))
ArgErrorMPIPutcount ==
  LET squares == <<PutN(LocalBuf, Ten * Ten, MPI_INT, 1, 0, Ten * Ten)>>
  IN ArgError(Windowing(Ints("buffer", Ten * Ten), Ten * Ten * 4, <<F>> \o squares \o <<F>>, <<F, F>>))
ArgErrorMPIPutrank == ArgError(Fenced(<<PutN(LocalBuf, Ten, MPI_INT, -1, 0, Ten)>>))
\* The assertion is 0, which asserts nothing.
ArgErrorMPIWinFenceassert == ArgError(Fenced(<<GoodPut>>))
ArgMismatchMPIGettype == ArgMismatch(Fenced(<<GetN(LocalBuf, Ten, MPI_LONG_LONG_INT, 1, 0, Ten)>>))
ArgMismatchMPIPuttype == ArgMismatch(Fenced(<<PutN(LocalBuf, Ten, MPI_LONG_LONG_INT, 1, 0, Ten)>>))
-----------------------------------------------------------------------------
Halves(first, second, freed) ==
  ArgError(Both(<<WinCreate(Malloced, (Ten \div 2) * 4, 1, first),
                  WinCreate(Plus(Malloced, (Ten \div 2) * 4), (Ten \div 2) * 4, 1, second)>> \o freed))
ArgErrorMPIWinCreateOverwriteWin == Halves("win1", "win1", <<WinFree("win1")>>)
\* buffer + N / 2 on an int pointer: the windows do not overlap.
ArgErrorMPIWinCreateoverlap == Halves("win1", "win2", <<WinFree("win1"), WinFree("win2")>>)
Creates(b, bytes, unit) == ArgError(Both(<<WinCreate(b, bytes, unit, "win"), WinFree("win")>>))
ArgErrorMPIWinCreatedispUnit == Creates(Malloced, Ten, -1)
ArgErrorMPIWinCreateinvalidBuffer1 == Creates(Nowhere, Ten * 2 * 4, 1)
\* get_win returns, and its buffer is gone.
ArgErrorMPIWinCreateinvalidBuffer2 ==
  ArgError(Both(<<WinCreate(Malloced, Ten * 4, 1, "win"), Free(Malloced), WinFree("win")>>))
ArgErrorMPIWinCreatesize == Creates(Malloced, -1, 1)
-----------------------------------------------------------------------------
MisplacedCallMPIGetbufferModification == MisplacedCall(Fenced(<<GoodGet, Store(LocalBuf)>>))
MisplacedCallMPIPutbufferModification == MisplacedCall(Fenced(<<GoodGet, Store(LocalBuf)>>))
MisplacedCallMPIWinFence1 == MisplacedCall(OverTen(<<GoodPut, F, F>>, <<F, F>>))
MisplacedCallMPIWinFence2 ==
  MisplacedCall(OverTen(<<F, Barrier(WORLD), GoodPut, F>>, <<Barrier(WORLD), F, F>>))
MisplacedCallMPIWinFreebufferFree ==
  MisplacedCall(Both(<<WinCreate(Malloced, Ten * 4, 1, "win"), Free(Malloced), WinFree("win")>>))
MisplacedCallMPIWinLock ==
  MisplacedCall(Fenced(<<Shared(WinLock(1, "win")), GoodPut, WinUnlock(1, "win")>>))
MissingCallMPIFence == MissingCall(OverTen(<<GoodPut>>, <<>>))
MissingCallMPIWinCreate ==
  MissingCall(Each(<<WinCreate(Malloced, Ten * 4, 4, "win"), WinFree("win")>>, <<>>))
MissingCallMPIWinFence1 == MissingCall(OverTen(<<F, F>>, <<F>>))
MissingCallMPIWinFence2 == MissingCall(OverTen(<<F, GoodPut>>, <<F>>))
MissingCallMPIWinFence3 == MissingCall(OverTen(<<GoodPut>>, <<>>))
=============================================================================
