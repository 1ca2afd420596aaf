--------------------------- MODULE DataRaceCases ---------------------------
(***************************************************************************)
(* micro-benches/0-level/openmp/data_race: the cases that let a thread     *)
(* store into a buffer, a request or an info object while MPI has it, and  *)
(* the corrected twin of each.  Threads that store one int, or fill one    *)
(* part of a buffer, have one cell of it; a fill of the whole buffer       *)
(* stores the cells one after the other.                                   *)
(***************************************************************************)
EXTENDS OmpMpiOps

Race == {"race"}
SendRecvBuffers(recv, send) == OnBoth(Buffer("recv", Pattern(recv)) @@ Buffer("send", Pattern(send)))
BarrierIf(b) == IF b THEN <<Bar>> ELSE <<>>

\* Region of the cases with a receive posted before it and awaited after it.
ExchangeRegion(r, body(_), last, cond) ==
  Region(<<Irecv("recv", Whole, Other(r), 1, <<"req", 0>>)>>, body,
         last \o <<Wait(<<"req", 0>>), Report(cond), Finalize>>)

SomeIsNot(v) == {{Lacks("recv", Whole, v)}}
SomeIs(v) == {{Holds("recv", Whole, v)}}
-----------------------------------------------------------------------------
DataRaceSend ==
  Case(MULTIPLE, Race,
       (0 :> Buffer("buffer", Pattern(6))) @@ (1 :> Buffer("buffer", Pattern(0))),
       (1 :> Region(<<>>,
               LAMBDA t : Sections(1, <<Send("buffer", Whole, 0, 123)>>,
                                      Store("buffer", Whole, Pattern(3))),
               <<Finalize>>)) @@
       (0 :> MainOnly(<<Recv("buffer", Whole, 1, 123),
                        Report({{Lacks("buffer", Whole, Pattern(0)),
                                 Has("buffer", Whole, Pattern(3))}}),
                        Finalize>>)))

\* data_race_send_2: the master sends what every thread has stored its int into.
StoreThenSend(label, barrier) ==
  Case(FUNNELED, label, SendRecvBuffers(6, 1),
       Each(LAMBDA r :
          ExchangeRegion(r, LAMBDA t : Store("send", Cell(t), -1) \o BarrierIf(barrier)
                                         \o Master(t, <<Send("send", Whole, Other(r), 1)>>),
                         <<>>, SomeIsNot(-1))))
DataRaceSend2 == StoreThenSend(Race, FALSE)
\* Mutant: the barrier is forgotten.
NoBarrierInSend2 == StoreThenSend({}, FALSE)
CorrectDataRaceSend2 == StoreThenSend({}, TRUE)

\* data_race_send_3: an MPI_Barrier by one thread does not order the threads.
StoreBarrierSend(label, SingleBarrier(_, _)) ==
  Case(MULTIPLE, label, SendRecvBuffers(6, 1),
       Each(LAMBDA r :
          ExchangeRegion(r, LAMBDA t : Store("send", Cell(t), -1) \o SingleBarrier(1, <<Barrier>>)
                                         \o Single(2, <<Send("send", Whole, Other(r), 1)>>),
                         <<>>, SomeIsNot(-1))))
DataRaceSend3 == StoreBarrierSend(Race, SingleNowait)
CorrectDataRaceSend3 == StoreBarrierSend({}, Single)

\* data_race_isend: the wait comes after the region, or right after the Isend.
IsendThenStore(label, waitInMaster) ==
  LET wait == <<Wait(<<"req_master", 0>>)>>
  IN Case(FUNNELED, label, SendRecvBuffers(6, 1),
       Each(LAMBDA r :
          ExchangeRegion(r, LAMBDA t :
                           Master(t, <<Isend("send", Whole, Other(r), 1, <<"req_master", 0>>)>>
                                       \o (IF waitInMaster THEN wait ELSE <<>>))
                             \o Store("send", Cell(t), -1),
                         IF waitInMaster THEN <<>> ELSE wait, SomeIs(-1))))
DataRaceIsend == IsendThenStore(Race, FALSE)
CorrectDataRaceIsend == IsendThenStore({}, TRUE)

\* data_race_isend_2: send_2 with a nonblocking send completed in the master.
StoreThenIsend(label, barrier) ==
  Case(FUNNELED, label, SendRecvBuffers(6, 1),
       Each(LAMBDA r :
          ExchangeRegion(r, LAMBDA t : Store("send", Cell(t), -1) \o BarrierIf(barrier)
                             \o Master(t, <<Isend("send", Whole, Other(r), 1, <<"req_master", 0>>),
                                            Wait(<<"req_master", 0>>)>>),
                         <<>>, SomeIsNot(-1))))
DataRaceIsend2 == StoreThenIsend(Race, FALSE)
CorrectDataRaceIsend2 == StoreThenIsend({}, TRUE)

\* data_race_isend_3: the threads' sends share req_send, or have one each.  The
\* send buffer is never filled, and the receive buffer is filled while posted.
SharedSendRequest(label, reqOf(_)) ==
  Case(MULTIPLE, label,
       OnBoth(Buffer("recv", Pattern(6)) @@ Buffer("send", Uninit)),
       Each(LAMBDA r :
          Region(<<>>,
                 LAMBDA t : <<Irecv("recv", Cell(t), Other(r), t, <<"req", t>>)>>
                              \o Store("recv", Cell(t), Pattern(1)) \o <<Bar>>
                              \o <<Isend("send", Cell(t), Other(r), t, <<"req_send", reqOf(t)>>),
                                   Wait(<<"req_send", reqOf(t)>>), Wait(<<"req", t>>)>>,
                 <<Report({{Lacks("recv", Whole, Pattern(1))}}), Finalize>>)))
DataRaceIsend3 == SharedSendRequest({"race", "request", "uninit"}, LAMBDA t : 0)
CorrectDataRaceIsend3 == SharedSendRequest({}, LAMBDA t : t)

\* data_race_bcast, data_race_ibcast: each thread fills its part, the master
\* broadcasts the first part, the one it has filled itself.
FillThenBcast(barrier, call) ==
  Case(FUNNELED, {}, OnBoth(Buffer("bcast", Uninit)),
       Each(LAMBDA r :
          Region(<<>>,
                 LAMBDA t : Store("bcast", Cell(t), Pattern(r)) \o BarrierIf(barrier)
                              \o Master(t, call),
                 <<Report({{Lacks("bcast", Whole, Pattern(0))}}), Finalize>>)))
BlockingBcast == <<Bcast("bcast", Cell(0), 0)>>
NonblockingBcast == <<Ibcast("bcast", Cell(0), 0, <<"req_master", 0>>), Wait(<<"req_master", 0>>)>>
DataRaceBcast == FillThenBcast(FALSE, BlockingBcast)
CorrectDataRaceBcast == FillThenBcast(TRUE, BlockingBcast)
DataRaceIbcast == FillThenBcast(FALSE, NonblockingBcast)
CorrectDataRaceIbcast == FillThenBcast(TRUE, NonblockingBcast)

\* data_race_reduce: an omp for with nowait, a single that reduces to rank 0.
AddThenReduce(label, barrier) ==
  Case(SERIALIZED, label, OnBoth(Buffer("reduced", Pattern(0)) @@ Buffer("local", Pattern(6))),
       Each(LAMBDA r :
          Region(<<>>,
                 LAMBDA t : Add("local", t, 5) \o BarrierIf(barrier)
                              \o Single(1, <<Reduce("local", Whole, "reduced", 0)>>),
                 (IF r = 0 THEN <<Report({{Lacks("reduced", Whole, 10)}})>> ELSE <<>>)
                   \o <<Finalize>>)))
DataRaceReduce == AddThenReduce(Race, FALSE)
\* Mutant: the barrier is forgotten.
NoBarrierInReduce == AddThenReduce({}, FALSE)
CorrectDataRaceReduce == AddThenReduce({}, TRUE)
-----------------------------------------------------------------------------
\* data_race_task_*: one task fills the buffer, another gives it to MPI; the
\* fix is depend(out) on the first and depend(in) on the second.
FillAndCall(depend, call) ==
  Tasks(1, <<Item(Store("send", Whole, Pattern(6))),
             IF depend THEN Depend(call, {1}) ELSE Item(call)>>)

TaskExchange(label, depend, callTo(_)) ==
  Case(MULTIPLE, label, SendRecvBuffers(3, 2),
       Each(LAMBDA r : ExchangeRegion(r, LAMBDA t : FillAndCall(depend, callTo(Other(r))), <<>>,
                                       SomeIsNot(Pattern(6)))))
TaskSendTo(d) == <<Send("send", Whole, d, 1)>>
TaskIsendTo(d) == <<Isend("send", Whole, d, 1, <<"req_task", 0>>), Wait(<<"req_task", 0>>)>>
DataRaceTaskSend == TaskExchange(Race, FALSE, TaskSendTo)
CorrectDataRaceTaskSend == TaskExchange({}, TRUE, TaskSendTo)
DataRaceTaskIsend == TaskExchange(Race, FALSE, TaskIsendTo)
CorrectDataRaceTaskIsend == TaskExchange({}, TRUE, TaskIsendTo)

\* Only rank 0 has a parallel region; rank 1 calls the broadcast from main.
TaskBroadcast(label, depend, call, wait) ==
  LET after == wait \o <<Report({{Lacks("send", Whole, Pattern(6))}}), Finalize>>
  IN Case(MULTIPLE, label, OnBoth(Buffer("send", Pattern(2))),
       (0 :> Region(<<>>, LAMBDA t : FillAndCall(depend, call), after)) @@
       (1 :> MainOnly(call \o after)))
TaskBcast == <<Bcast("send", Whole, 0)>>
TaskIbcast == <<Ibcast("send", Whole, 0, <<"req_bcast", 0>>)>>
DataRaceTaskBcast == TaskBroadcast(Race, FALSE, TaskBcast, <<>>)
CorrectDataRaceTaskBcast == TaskBroadcast({}, TRUE, TaskBcast, <<>>)
DataRaceTaskIbcast == TaskBroadcast(Race, FALSE, TaskIbcast, <<Wait(<<"req_bcast", 0>>)>>)
CorrectDataRaceTaskIbcast == TaskBroadcast({}, TRUE, TaskIbcast, <<Wait(<<"req_bcast", 0>>)>>)
-----------------------------------------------------------------------------
\* info_set: one info object for the team; all report after MPI_Finalize.
InfoSet ==
  Case(MULTIPLE, {"race", "finalize"}, OnBoth(Handles("info", Uninit)),
       OnBoth(Region(<<Create("info", 0)>>,
                     LAMBDA t : Bracketed(<<Use("info", 0)>>),
                     <<Free("info", 0), Finalize, Report({{Counted}})>>)))

\* info_set_2: private copies of the object, which nobody has created.
InfoSet2 ==
  Case(MULTIPLE, {"handle", "finalize"},
       OnBoth(Handles("info", Uninit) @@ Handles("info_private", Uninit)),
       OnBoth(Region(<<Create("info", 0)>>,
                     LAMBDA t : <<Use("info_private", t)>>,
                     <<Free("info", 0), Finalize, Report(Always)>>)))

CorrectInfoSet ==
  Case(MULTIPLE, {}, OnBoth(Handles("info_private", Uninit)),
       OnBoth(Region(<<>>,
                     LAMBDA t : <<Create("info_private", t), Use("info_private", t),
                                  Free("info_private", t)>>,
                     <<Finalize, Report(Always)>>)))
=============================================================================
