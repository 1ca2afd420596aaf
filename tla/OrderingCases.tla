--------------------------- MODULE OrderingCases ---------------------------
(***************************************************************************)
(* micro-benches/0-level/openmp/ordering and ordering/dependant: cases     *)
(* whose threads call MPI in an order nothing enforces (two collectives at *)
(* a time, a handle freed while it is used, a message probed by one thread *)
(* and received by another, waits that block each other), and their twins. *)
(***************************************************************************)
EXTENDS OmpMpiOps

Exclusive == {"overlap"}                  \* one collective at a time
OutOfOrder == {"overlap", "mismatch"}     \* and both ranks in the same order
Deadlock == {"deadlock"}                  \* some interleaving blocks for ever
IfCounted == <<Report({{Counted}})>>
NoError == <<Report(Never)>>
OnRank(r, only, code) == IF r = only THEN code ELSE <<>>

BcastInts == <<Bcast("buffer_int", Whole, 0)>>
BcastFloats == <<BcastFloat("buffer_float", Whole, 0)>>
\* Every thread creates two tasks; task i of thread t is item 2 * t + i.
TwoTasks(first, second) == Tasks(1, <<Item(first), Item(second), Item(first), Item(second)>>)

\* Both ranks run the region, or rank 0 does and rank 1 calls from main.
AllCall(label, memory, body(_), report) ==
  Case(MULTIPLE, label, memory, OnBoth(Region(<<>>, body, report \o <<Finalize>>)))
OneCalls(label, memory, body(_), inMain, report) ==
  Case(MULTIPLE, label, memory, (0 :> Region(<<>>, body, report \o <<Finalize>>)) @@
                             (1 :> MainOnly(inMain \o report \o <<Finalize>>)))
-----------------------------------------------------------------------------
TwoCollectives == AllCall(Exclusive, OnBoth(NoBuffers), LAMBDA t : Bracketed(<<Barrier>>), IfCounted)
CorrectTwoCollectives ==
  AllCall({}, OnBoth(NoBuffers), LAMBDA t : Critical(<<Barrier>>), <<>>)

\* Mutant: rank 1 takes part in one of the two barriers.
OneBarrierOfTwo ==
  OneCalls(Exclusive, OnBoth(NoBuffers), LAMBDA t : Bracketed(<<Barrier>>), <<Barrier>>, IfCounted)
TwoCollectives2 ==
  OneCalls(Exclusive, OnBoth(NoBuffers), LAMBDA t : Bracketed(<<Barrier>>), <<Barrier, Barrier>>, IfCounted)
\* Mutant: one barrier for the two of rank 0.
OneBarrier ==
  OneCalls({}, OnBoth(NoBuffers), LAMBDA t : Critical(<<Barrier>>), <<Barrier>>, <<>>)
CorrectTwoCollectives2 ==
  OneCalls({}, OnBoth(NoBuffers), LAMBDA t : Critical(<<Barrier>>), <<Barrier, Barrier>>, <<>>)

\* two_collectives_3 and _4 are the same program.  Each task that broadcasts has
\* a buffer of its own, whose content nobody looks at.
TwoCollectives3 ==
  AllCall(OutOfOrder, OnBoth(NoBuffers),
          LAMBDA t : TwoTasks(Bracketed(<<Barrier>>), Bracketed(<<Bcast("none", <<>>, 0)>>)), IfCounted)
CorrectTwoCollectives3 ==
  OneCalls({}, OnBoth(NoBuffers),
           LAMBDA t : Tasks(1, <<Item(<<Barrier>>), Depend(<<Bcast("none", <<>>, 0)>>, {1})>>),
           Critical(<<Barrier>>) \o Critical(<<Bcast("none", <<>>, 0)>>), <<>>)
CorrectTwoCollectives4 ==
  AllCall({}, OnBoth(NoBuffers), LAMBDA t : TwoTasks(<<Barrier>>, <<Bcast("none", <<>>, 0)>>), <<>>)

OneBcast == <<Bcast("none", <<>>, 0)>>
TwoCollectives5 ==
  OneCalls(Exclusive, OnBoth(NoBuffers),
           LAMBDA t : TwoTasks(Bracketed(OneBcast), Bracketed(OneBcast)), OneBcast \o OneBcast, IfCounted)
CorrectTwoCollectives5 ==
  OneCalls({}, OnBoth(NoBuffers),
           LAMBDA t : TwoTasks(Critical(OneBcast), Critical(OneBcast)), OneBcast \o OneBcast, <<>>)
TwoCollectives6 ==
  AllCall(Exclusive, OnBoth(NoBuffers),
          LAMBDA t : TwoTasks(Bracketed(OneBcast), Bracketed(OneBcast)), IfCounted)
CorrectTwoCollectives6 ==
  AllCall({}, OnBoth(NoBuffers), LAMBDA t : TwoTasks(Critical(OneBcast), Critical(OneBcast)), <<>>)

\* two_collectives_7 to _9: rank 0 fills its ints with pattern 0 and then with
\* pattern 2, and rank 1 looks for both at once.
IntsThenFloats(label, body(_), report) ==
  Case(MULTIPLE, label,
       (0 :> (Buffer("buffer_int", Pattern(2)) @@ Buffer("buffer_float", Fresh))) @@
       (1 :> (Buffer("buffer_int", Fresh) @@ Buffer("buffer_float", Fresh))),
       Each(LAMBDA r :
          Region(<<>>, body,
                 OnRank(r, 1, <<Report({{Lacks("buffer_int", Whole, Pattern(0))},
                                        {Lacks("buffer_int", Whole, Pattern(2))}})>>)
                   \o report \o <<Finalize>>)))
TwoCollectives7 ==
  IntsThenFloats({"overlap", "mismatch", "race"},
                 LAMBDA t : TwoTasks(Bracketed(BcastInts), Bracketed(BcastFloats)), IfCounted)
TwoCollectives8 ==
  IntsThenFloats({"mismatch"}, LAMBDA t : TwoTasks(Critical(BcastInts), Critical(BcastFloats)), <<>>)
TwoCollectives9 ==
  IntsThenFloats({"mismatch"}, LAMBDA t : Critical(BcastInts) \o Critical(BcastFloats), <<>>)
CorrectTwoCollectives7 ==
  IntsThenFloats({}, LAMBDA t : Critical(BcastInts \o BcastFloats), <<>>)
-----------------------------------------------------------------------------
\* Waits that block each other.  Every thread has a buffer of its own, which the
\* messages' contents do not matter to.
SendOne(dst) == <<Send("none", <<>>, dst, 123)>>
RecvOne(src) == <<Recv("none", <<>>, src, 123)>>

DeadlockBarrier ==
  Case(MULTIPLE, Deadlock, OnBoth(NoBuffers),
       (0 :> Region(<<>>, LAMBDA t : IF t = 0 THEN RecvOne(1) \o <<Bar>> \o SendOne(1)
                                              ELSE SendOne(1) \o <<Bar>> \o RecvOne(1),
                    NoError \o <<Finalize>>)) @@
       (1 :> Region(<<>>, LAMBDA t : RecvOne(0) \o <<Bar>> \o SendOne(0), NoError \o <<Finalize>>)))

Deadlock2 ==
  OneCalls(Deadlock, OnBoth(NoBuffers), LAMBDA t : SendOne(1) \o RecvOne(1), RecvOne(0) \o SendOne(0), <<>>)

DeadlockSendRecv ==
  Case(FUNNELED, {"deadlock", "finalize"}, OnBoth(NoBuffers),
       Each(LAMBDA r : Region(<<>>, LAMBDA t : Master(t, RecvOne(Other(r)) \o SendOne(Other(r))),
                              <<Finalize>> \o NoError)))

DeadlockTaskSendRecv ==
  Case(MULTIPLE, Deadlock, OnBoth(NoBuffers),
       Each(LAMBDA r : Region(<<>>, LAMBDA t : Tasks(1, <<Item(RecvOne(Other(r))), Item(SendOne(Other(r)))>>),
                              NoError \o <<Finalize>>)))

\* nondeterministic_deadlock: a task per iteration, in any order.  Bound: four
\* iterations, the fewest with which two threads can block on each rank for
\* messages the other's threads are not at.
NondeterministicDeadlock ==
  LET tasks(f(_)) == Tasks(1, <<Item(f(0)), Item(f(1)), Item(f(2)), Item(f(3))>>)
  IN Case(MULTIPLE, Deadlock, OnBoth(NoBuffers),
       (0 :> Region(<<>>, LAMBDA t : tasks(LAMBDA i : <<Recv("none", <<>>, 1, i)>>), NoError \o <<Finalize>>)) @@
       (1 :> Region(<<>>, LAMBDA t : tasks(LAMBDA i : <<Send("none", <<>>, 0, i)>>), NoError \o <<Finalize>>)))
-----------------------------------------------------------------------------
\* request_reuse: one pair of requests for the team, or one for each thread.
RequestReuse ==
  LET body(r, t) ==
        Bracketed(<<Irecv("recv", Cell(t), Other(r), t, <<"req", 0>>)>>
                    \o Store("send", Cell(t), -1) \o <<Bar>>
                    \o <<Isend("send", Cell(t), Other(r), t, <<"req_send", 0>>),
                         Wait(<<"req_send", 0>>), Wait(<<"req", 0>>)>>)
  IN Case(MULTIPLE, {"race", "request"}, OnBoth(Buffer("recv", Pattern(6)) @@ Buffer("send", Pattern(1))),
       Each(LAMBDA r : Region(<<>>, LAMBDA t : body(r, t), IfCounted \o <<Finalize>>)))
CorrectRequestReuse ==
  LET body(r, t) ==
        <<Irecv("recv", Cell(t), Other(r), t, <<"req", t>>)>>
          \o Store("send", Cell(t), -1) \o <<Bar>>
          \o <<Isend("send", Cell(t), Other(r), t, <<"req_send", t>>),
               Wait(<<"req_send", t>>), Wait(<<"req", t>>)>>
  IN Case(MULTIPLE, {}, OnBoth(Buffer("recv", Pattern(6)) @@ Buffer("send", Pattern(1))),
       Each(LAMBDA r : Region(<<>>, LAMBDA t : body(r, t), <<Finalize>> \o NoError)))

\* send_recv_same_buffer: rank 0 receives into the buffer it sends.
SameBuffer(received) ==
  LET race(r) == IF r = 1 THEN {{Lacks("recv", Whole, Pattern(1)), Lacks("recv", Whole, Pattern(2))}}
                          ELSE {{Lacks("send", Whole, Pattern(2))}}
      own(r) == Buffer("send", Pattern(1 + r)) @@ Buffer("recv", Pattern(6))
                  @@ Buffer("has_race", 0) @@ Buffer("has_error_m", 0)
  IN Case(MULTIPLE, {"race"}, Each(own),
       Each(LAMBDA r :
          Region(<<>>,
                 LAMBDA t : Sections(1, <<Send("send", Whole, Other(r), 0)>>,
                                     <<Recv(IF r = 0 THEN "send" ELSE "recv", received, Other(r), 0)>>),
                 Judge("has_race", 0, race(r)) \o <<Reduce("has_race", Cell(0), "has_error_m", 0)>>
                   \o OnRank(r, 0, <<Report({{Lacks("has_error_m", Cell(0), 0)}})>>) \o <<Finalize>>)))
\* Mutant: the receives are shorter than the messages.
HalfReceived == SameBuffer(Cell(0))
SendRecvSameBuffer == SameBuffer(Whole)
-----------------------------------------------------------------------------
\* A call that uses a handle and the call that frees it, in two singles of which
\* the first has a nowait clause or, in the fix, ends with a barrier.
UseThenFree(before, use, handle, last) ==
  Case(MULTIPLE, {"race", "handle"},
       OnBoth(Handles(handle, 1)),
       Each(LAMBDA r :
          Region(before[r], LAMBDA t : SingleNowait(1, CallA(use[r])) \o Single(2, CallB(<<Free(handle, 0)>>)),
                 last \o UnlessInOrder \o <<Finalize>>)))
CorrectUseThenFree(before, use, handle, last) ==
  Case(MULTIPLE, {}, OnBoth(Handles(handle, 1)),
       Each(LAMBDA r :
          Region(before[r], LAMBDA t : Single(1, use[r]) \o Single(2, <<Free(handle, 0)>>),
                 last \o NoError \o <<Finalize>>)))

Sendrecvs == Each(LAMBDA r : <<With(Sendrecv("none", "none", <<>>, Other(r), 1), "other_comm_world", 0)>>)
InfoSets == OnBoth(<<Use("info_obj", 0)>>)
TypedSends == Each(LAMBDA r : <<With(Send("none", <<>>, Other(r), 1), "mult_ints_dtype", 0)>>)
PostedRecvs == Each(LAMBDA r : <<Irecv("none", <<>>, Other(r), 1, <<"req", 0>>)>>)
Nothing == OnBoth(<<>>)

CommFree == UseThenFree(Nothing, Sendrecvs, "other_comm_world", <<>>)
CorrectCommFree == CorrectUseThenFree(Nothing, Sendrecvs, "other_comm_world", <<>>)
InfoFree == UseThenFree(Nothing, InfoSets, "info_obj", <<>>)
CorrectInfoFree == CorrectUseThenFree(Nothing, InfoSets, "info_obj", <<>>)
DerivedDatatype == UseThenFree(PostedRecvs, TypedSends, "mult_ints_dtype", <<Wait(<<"req", 0>>)>>)
CorrectDerivedDatatype ==
  CorrectUseThenFree(PostedRecvs, TypedSends, "mult_ints_dtype", <<Wait(<<"req", 0>>)>>)

\* The same two calls in tasks; the fix is depend(out) and depend(in).
TaskCommFree ==
  Case(MULTIPLE, {"race", "handle"}, OnBoth(Handles("other_comm_world", 1)),
       Each(LAMBDA r :
          Region(<<>>, LAMBDA t : Tasks(1, <<Item(CallA(Sendrecvs[r])),
                                             Item(CallB(<<Free("other_comm_world", 0)>>))>>),
                 UnlessInOrder \o <<Finalize>>)))
CorrectTaskCommFree ==
  Case(MULTIPLE, {}, OnBoth(Handles("other_comm_world", 1)),
       Each(LAMBDA r :
          Region(<<>>, LAMBDA t : Tasks(1, <<Item(Sendrecvs[r]),
                                             Depend(<<Free("other_comm_world", 0)>>, {1})>>),
                 NoError \o <<Finalize>>)))
-----------------------------------------------------------------------------
\* deadlock_probe: under one lock, a section probes for tag 2 and the other for
\* any tag; rank 0 sends tag 2 when it has been answered tag 1.
ProbeUnderLock(label, receive(_)) ==
  Case(MULTIPLE, label, OnBoth(Buffer("local_size", 0)),
       (0 :> MainOnly(<<Send("none", <<>>, 1, 1), Recv("none", <<>>, 1, 1), Send("none", <<>>, 1, 2)>>
                        \o NoError \o <<Finalize>>)) @@
       (1 :> Region(<<>>, LAMBDA t : Sections(1, Critical(receive(2)),
                                              Critical(receive(AnyTag)) \o <<Send("none", <<>>, 0, 1)>>),
                    NoError \o <<Finalize>>)))
DeadlockProbe ==
  ProbeUnderLock(Deadlock, LAMBDA tag : <<Probe(0, tag, "local_size", 0), Recv("none", <<>>, 0, tag)>>)
CorrectDeadlockProbe ==
  ProbeUnderLock({}, LAMBDA tag : <<Mprobe(0, tag, "local_size", 0), Mrecv("none", <<>>, 0)>>)

\* Rank 0 sends a pair of ints and a single one in two sections; each thread of
\* rank 1 receives what it has probed, or what matches it.
PairAndOne(label, tagOfOne, pair, one, receive(_), report) ==
  Case(MULTIPLE, label,
       (0 :> (Buffer("pair", pair) @@ Buffer("one", one) @@ Buffer("has_race", 0))) @@
       (1 :> (Buffer("count", 0) @@ Buffer("value0", Fresh) @@ Buffer("value1", Fresh)
                @@ Buffer("has_race", 0))),
       (0 :> Region(<<>>, LAMBDA t : Sections(1, <<Send("pair", Whole, 1, 0)>>,
                                              <<Send("one", Cell(0), 1, tagOfOne)>>),
                    report \o <<Finalize>>)) @@
       (1 :> Region(<<>>, receive, report \o <<Finalize>>)))

Value(t) == IF t = 0 THEN "value0" ELSE "value1"
ProbeRecv(t) == <<Probe(0, AnyTag, "count", t), RecvProbed(Value(t), Whole, 0)>>
MprobeMrecv(t) == <<Mprobe(0, AnyTag, "count", t), Mrecv(Value(t), Whole, 0)>>
DeadlockProbe2 == PairAndOne(Deadlock, 1, -1, -2, ProbeRecv, NoError)
CorrectDeadlockProbe2 == PairAndOne({}, 1, -1, -2, MprobeMrecv, NoError)

\* probe: both messages have tag 0, so what is received may be the other one.
ThreadRace(t) == {{Has("count", Cell(t), 1), Lacks(Value(t), Cell(0), -1)},
                  {Has("count", Cell(t), 2), Lacks(Value(t), Cell(0), -2)}}
ProbeRace(label, receive(_)) ==
  PairAndOne(label, 0, -2, -1,
             LAMBDA t : receive(t) \o Critical(Judge("has_race", 0, ThreadRace(t))),
             <<Report({{Has("has_race", Cell(0), 1)}})>>)
\* Mutant: rank 0 sends one value in both messages, and any is reported.
AlwaysARace ==
  PairAndOne({"stolen", "truncated"}, 0, -1, -1,
             LAMBDA t : ProbeRecv(t) \o Critical(Judge("has_race", 0, ThreadRace(t))),
             <<Report({{Has("has_race", Cell(0), 1)}})>>)
ProbeCase == ProbeRace({"stolen", "truncated"}, ProbeRecv)
CorrectProbe == ProbeRace({}, MprobeMrecv)
=============================================================================
