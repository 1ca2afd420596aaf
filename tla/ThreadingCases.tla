--------------------------- MODULE ThreadingCases ---------------------------
(***************************************************************************)
(* micro-benches/0-level/openmp/threading: cases that ask MPI for a lower  *)
(* thread level than they use, or finalize it from the wrong thread or too *)
(* early.  All share one program: the team fills buffer_out (omp for, one  *)
(* part per thread), exchanges it in sections, a single or the master, and *)
(* main sends it once more.                                                *)
(***************************************************************************)
EXTENDS OmpMpiOps

TooLittle == {"level"}
Buffers == OnBoth(Buffer("buffer_out", Fresh) @@ Buffer("buffer_in", Fresh))
FillOut(t) == Store("buffer_out", Cell(t), 10) \o <<Bar>>

\* Rank 0 to rank 1, and back; each rank executes its end of it.
ToOne(r) == IF r = 0 THEN <<Send("buffer_out", Whole, 1, 123)>>
                     ELSE <<Recv("buffer_in", Whole, 0, 123)>>
ToZero(r) == IF r = 1 THEN <<Send("buffer_out", Whole, 0, 123)>>
                      ELSE <<Recv("buffer_in", Whole, 1, 123)>>

InSections(t, r) == Sections(1, ToOne(r), ToZero(r))
InSingle(t, r) == Single(1, ToOne(r))
InMaster(t, r) == Master(t, ToOne(r))
InNoThread(t, r) == <<>>

Exchange(level, label, Threads(_, _), report) ==
  Case(level, label, Buffers,
       Each(LAMBDA r : Region(<<>>, LAMBDA t : FillOut(t) \o Threads(t, r),
                              ToOne(r) \o report \o <<Finalize>>)))

MoreThanOneThread == <<Report(Always)>>    \* has_error_manifested(NUM_THREADS > 1)
Unsafe(level, Threads(_, _)) == Exchange(level, TooLittle, Threads, MoreThanOneThread)
Safe(level, Threads(_, _)) == Exchange(level, {}, Threads, <<>>)
-----------------------------------------------------------------------------
WrongThreadingLevel == Unsafe(SINGLE, InSections)
WrongThreadingLevel2 == GivesUpSilently(Unsafe(FUNNELED, InSections))
WrongThreadingLevel3 == Unsafe(SERIALIZED, InSections)
WrongThreadingLevel4 == Unsafe(SINGLE, InSingle)
WrongThreadingLevel5 == Unsafe(FUNNELED, InSingle)
WrongThreadingLevel6 == GivesUpSilently(Unsafe(SINGLE, InMaster))

MissingThreadingLevelCheck == NeverChecks(Unsafe(MULTIPLE, InSections))

\* MPI_Init provides MPI_THREAD_SINGLE.
MissingInitThread == NeverChecks(Unsafe(SINGLE, InNoThread))
MissingInitThread2 == NeverChecks(Unsafe(SINGLE, InMaster))
MissingInitThread3 == NeverChecks(Unsafe(SINGLE, InSingle))
MissingInitThread4 == NeverChecks(Unsafe(SINGLE, InSections))

CorrectThreadingLevel == Safe(MULTIPLE, InSections)
CorrectThreadingLevel2 == Safe(SERIALIZED, InSingle)
CorrectThreadingLevel3 == Safe(MULTIPLE, InSingle)
CorrectThreadingLevel4 == GivesUpSilently(Safe(FUNNELED, InMaster))
CorrectThreadingLevel5 == GivesUpSilently(Safe(SERIALIZED, InMaster))
CorrectThreadingLevel6 == GivesUpSilently(Safe(MULTIPLE, InMaster))

\* Without a parallel region any level will do.
Sequential(level) ==
  Case(level, {}, Buffers,
       Each(LAMBDA r : MainOnly(Store("buffer_out", Whole, 10) \o ToOne(r) \o ToZero(r) \o ToOne(r)
                                  \o <<Finalize>>)))
CorrectThreadingLevel7 == Sequential(SINGLE)
CorrectThreadingLevel8 == Sequential(FUNNELED)
CorrectThreadingLevel9 == Sequential(SERIALIZED)
CorrectThreadingLevel10 == Sequential(MULTIPLE)
-----------------------------------------------------------------------------
\* finalize_missuse*: nothing follows the region but the report.
Finalizing(label, Threads(_, _), after) ==
  Case(MULTIPLE, label, Buffers,
       Each(LAMBDA r : Region(<<>>, LAMBDA t : FillOut(t) \o Threads(t, r), after)))

OnThread(t, only, code) == IF t = only THEN code ELSE <<>>
WrongFinalize == {"finalize"}

FinalizeMissuse ==
  Finalizing(WrongFinalize, LAMBDA t, r : InSections(t, r) \o OnThread(t, 1, <<Finalize>>),
             <<Report(Always)>>)
FinalizeMissuse2 ==
  Finalizing(WrongFinalize, LAMBDA t, r : InSections(t, r) \o <<Finalize>>, MoreThanOneThread)

\* Sections with nowait: one thread may finalize while another communicates.
ReceiveIsCallA(t, r) ==
  IF r = 0 THEN SectionsNowait(1, ToOne(r), CallA(ToZero(r)))
           ELSE SectionsNowait(1, CallA(ToOne(r)), ToZero(r))
FinalizeMissuse3 ==
  Finalizing(WrongFinalize,
             LAMBDA t, r : ReceiveIsCallA(t, r) \o OnThread(t, 1, CallB(<<Finalize>>)), UnlessInOrder)
FinalizeMissuse5 ==
  GivesUpSilently(
    Finalizing(WrongFinalize,
               LAMBDA t, r : ReceiveIsCallA(t, r) \o Master(t, CallB(<<Finalize>>)), UnlessInOrder))

\* Communication in one section, MPI_Finalize in the other, which enters call A too.
FinalizeMissuse4 ==
  Finalizing(WrongFinalize,
             LAMBDA t, r : Sections(1, CallA(ToOne(r)), <<EnterA, Finalize, ExitB>>), UnlessInOrder)

CorrectFinalize ==
  Finalizing({}, LAMBDA t, r : InSections(t, r) \o Master(t, <<Finalize>>), <<>>)
=============================================================================
