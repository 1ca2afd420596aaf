-------------------------- MODULE ConfloRmaCases --------------------------
(***************************************************************************)
(* The programs of micro-benches/0-level/conflo/rma: the windows and       *)
(* accesses of rma, one of them decided by argc.                           *)
(***************************************************************************)
EXTENDS RmaCases

\* Rank 0 accesses from local_buf, and frees it before the closing fence.
FreedTooEarly(access) == ArgError(Fenced(<<access, Free(LocalBuf)>>))
ConfloArgErrorMPIGetSizeNotMatching ==
  Unless(FreedTooEarly(GetN(Ints("local_buf", 5), 5, MPI_INT, 1, 0, Ten)), FreedTooEarly(GoodGet))
\* The window is over the variable buffer, a pointer, not over what it points to.
OverPointer(zero) ==
  ArgError(Windowing(Array("buffer_variable", "pointer", 1), Ten * 4, <<F>> \o zero \o <<F>>, <<F, F>>))
ConfloArgErrorMPIGetbuffer ==
  Unless(OverPointer(<<GetN(Null, Ten, MPI_INT, 1, 0, Ten)>>), OverPointer(<<GoodGet, Free(LocalBuf)>>))
ConfloArgErrorMPIGetrank ==
  Unless(OverPointer(<<GetN(LocalBuf, Ten, MPI_INT, -1, 0, Ten)>>), OverPointer(<<GoodGet>>))
ConfloArgErrorMPIGetinvalidAccess ==
  Unless(ArgError(Fenced(<<GetN(LocalBuf, Ten, MPI_INT, 1, 5, Ten)>>)), ArgError(Fenced(<<GoodGet>>)))
ConfloArgErrorMPIGettype ==
  Unless(ArgError(Fenced(<<GetN(LocalBuf, Ten, MPI_LONG_LONG_INT, 1, 0, Ten)>>)), ArgError(Fenced(<<GoodGet>>)))
ConfloArgErrorMPIPutInvalidAccess ==
  Unless(ArgError(Fenced(<<PutN(LocalBuf, Ten, MPI_INT, 1, 5, Ten)>>)), ArgError(Fenced(<<GoodPut>>)))
ConfloArgErrorMPIPutSizeNotMatching ==
  Unless(FreedTooEarly(PutN(LocalBuf, Ten, MPI_INT, 1, 0, 5)),
         FreedTooEarly(PutN(Ints("local_buf", 5), 5, MPI_INT, 1, 0, 5)))
ConfloArgErrorMPIPutbuffer ==
  Unless(FreedTooEarly(PutN(Null, Ten, MPI_INT, 1, 0, Ten)), FreedTooEarly(GoodPut))
\* The count at the target stays N * N.
Squares(n) ==
  ArgError(Windowing(Ints("buffer", Ten * Ten), Ten * Ten * 4,
                     <<F, PutN(LocalBuf, n, MPI_INT, 1, 0, Ten * Ten), F>>, <<F, F>>))
ConfloArgErrorMPIPutcount == Unless(Squares(Ten * Ten), Squares(Ten))
ConfloArgErrorMPIPutrank ==
  Unless(ArgError(Fenced(<<PutN(LocalBuf, Ten, MPI_INT, -1, 0, Ten)>>)),
         ArgError(Fenced(<<PutN(LocalBuf, Ten, MPI_INT, 0, 0, Ten)>>)))
ConfloArgErrorMPIPuttype ==
  Unless(ArgError(Fenced(<<PutN(LocalBuf, Ten, MPI_LONG_LONG_INT, 1, 0, Ten)>>)), ArgError(Fenced(<<GoodPut>>)))
-----------------------------------------------------------------------------
HalvesOf(second, bytes) ==
  ArgError(Both(<<WinCreate(Malloced, (Ten \div 2) * 4, 1, "win1"),
                  WinCreate(Plus(Malloced, (Ten \div 2) * 4), bytes, 1, second),
                  WinFree("win1"), WinFree("win2")>>))
ConfloArgErrorMPIWinCreateOverwriteWin ==
  Unless(HalvesOf("win1", (Ten \div 2) * 4), HalvesOf("win2", (Ten \div 2) * 4))
\* buffer + N / 2 on an int pointer: the windows do not overlap.
ConfloArgErrorMPIWinCreateoverlap == Unless(HalvesOf("win2", (Ten \div 2) * 4), HalvesOf("win2", Ten \div 2))
ConfloArgErrorMPIWinCreatedispUnit == Unless(Creates(Malloced, Ten, -1), Creates(Malloced, Ten, 1))
CreatesFreed(b) ==
  ArgError(Both(<<WinCreate(b, Ten * 2 * 4, 1, "win"), WinFree("win"), Free(b)>>))
ConfloArgErrorMPIWinCreateinvalidBuffer1 == Unless(CreatesFreed(Nowhere), CreatesFreed(Ints("buffer", 2 * Ten)))
ConfloArgErrorMPIWinCreatesize == Unless(Creates(Malloced, -1, 1), Creates(Malloced, Ten, 1))
\* MPI_MODE_NOPRECEDE, or MPI_MODE_NOPUT, which is true: no put follows.
ConfloArgErrorMPIWinFenceassert ==
  Unless(ArgError(OverTen(<<F, GoodPut, FenceNoPrecede("win")>>, <<F, F>>)), ArgError(Fenced(<<GoodPut>>)))
-----------------------------------------------------------------------------
ConfloMisplacedCallMPIGetbufferModification ==
  Unless(MisplacedCall(Fenced(<<GoodGet, Store(LocalBuf)>>)), MisplacedCall(Fenced(<<GoodGet>>)))
ConfloMisplacedCallMPIPutbufferModification ==
  Unless(MisplacedCall(Fenced(<<GoodGet, Store(LocalBuf)>>)), MisplacedCall(Fenced(<<GoodGet>>)))
ConfloMisplacedCallMPIWinFence1 ==
  Unless(MisplacedCall(OverTen(<<GoodPut, F, F>>, <<F, F>>)),
         MisplacedCall(OverTen(<<F, GoodPut, F, F>>, <<F, F>>)))
ConfloMisplacedCallMPIWinFence2 ==
  Unless(MisplacedCall(OverTen(<<F, Barrier(WORLD), GoodPut, F>>, <<Barrier(WORLD), F, F>>)),
         MisplacedCall(OverTen(<<F, GoodPut, F>>, <<Barrier(WORLD), F, F>>)))
ConfloMisplacedCallMPIWinFreebufferFree ==
  LET create == WinCreate(Malloced, Ten * 4, 1, "win")
  IN Unless(MisplacedCall(Both(<<create, Free(Malloced), WinFree("win")>>)),
            MisplacedCall(Both(<<create, WinFree("win"), Free(Malloced)>>)))
\* Mutant: unlocks whatever argc is.
AlwaysUnlocks ==
  Unless(MisplacedCall(Fenced(<<Shared(WinLock(1, "win")), GoodPut, WinUnlock(1, "win")>>)),
         MisplacedCall(Fenced(<<GoodPut, WinUnlock(1, "win")>>)))
ConfloMisplacedCallMPIWinLock ==
  Unless(MisplacedCall(Fenced(<<Shared(WinLock(1, "win")), GoodPut, WinUnlock(1, "win")>>)),
         MisplacedCall(Fenced(<<GoodPut>>)))
ConfloMissingCallMPIFence == Unless(MissingCall(OverTen(<<GoodPut>>, <<>>)), MissingCall(Fenced(<<GoodPut>>)))
\* These do not look at argc; the displacement unit of the first is -1.
ConfloMissingCallMPIWinCreate == MissingCall(Each(<<WinCreate(Malloced, Ten * 4, -1, "win"), WinFree("win")>>, <<>>))
ConfloMissingCallMPIWinFence1 == MissingCallMPIWinFence1
ConfloMissingCallMPIWinFence2 == MissingCallMPIWinFence2
ConfloMissingCallMPIWinFence3 == MissingCallMPIWinFence3
=============================================================================
