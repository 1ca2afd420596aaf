---------------------------- MODULE MemoryCases ----------------------------
(***************************************************************************)
(* micro-benches/0-level/openmp/memory: the master hands MPI its copy of a *)
(* variable that is private in the region and so uninitialized there; the  *)
(* twins make it firstprivate, or store into it before the call.           *)
(***************************************************************************)
EXTENDS OmpMpiOps

Unstored == {"uninit"}
\* The value a private copy, or a firstprivate one, of private_data = rank has.
Private(r) == Uninit
Firstprivate(r) == r

SendPrivate(label, Copy(_), body) ==
  Case(FUNNELED, label,
       (0 :> Buffer("private_data", Copy(0))) @@ (1 :> Buffer("recv_data", Pattern(1))),
       (0 :> Region(<<>>, LAMBDA t : Master(t, body), <<Finalize>>)) @@
       (1 :> MainOnly(<<Recv("recv_data", Cell(0), 0, 1),
                        Report({{Lacks("recv_data", Cell(0), 0)}}), Finalize>>)))

PrivateSendCall == <<Send("private_data", Cell(0), 1, 1)>>
PrivateIsendCall == <<Isend("private_data", Cell(0), 1, 1, <<"send_req", 0>>), Wait(<<"send_req", 0>>)>>
StoreRank == Store("private_data", Cell(0), 0)

PrivateSend == SendPrivate(Unstored, Private, PrivateSendCall)
CorrectPrivateSend == SendPrivate({}, Firstprivate, PrivateSendCall)
PrivateIsend == SendPrivate(Unstored, Private, PrivateIsendCall)
CorrectPrivateIsend == SendPrivate({}, Firstprivate, PrivateIsendCall)
PrivateAfterSend == SendPrivate(Unstored, Private, PrivateSendCall \o StoreRank)
CorrectPrivateAfterSend == SendPrivate({}, Private, StoreRank \o PrivateSendCall)

\* After the region main looks at its own private_data, which no copy changes.
BcastPrivate(label, Copy(_), call) ==
  LET own(r) == Buffer("own_private_data", r) @@ Buffer("private_data", Copy(r))
      look(r) == IF r = 1 THEN <<Report({{Lacks("own_private_data", Cell(0), 0)}})>> ELSE <<>>
  IN Case(FUNNELED, label, Each(own),
       Each(LAMBDA r : Region(<<>>, LAMBDA t : Master(t, call),
                              look(r) \o <<Report(Always), Finalize>>)))

PrivateBcastCall == <<Bcast("private_data", Cell(0), 0)>>
PrivateIbcastCall == <<Ibcast("private_data", Cell(0), 0, <<"req", 0>>), Wait(<<"req", 0>>)>>
PrivateBcast == BcastPrivate(Unstored, Private, PrivateBcastCall)
CorrectPrivateBcast == BcastPrivate({}, Firstprivate, PrivateBcastCall)
PrivateIbcast == BcastPrivate(Unstored, Private, PrivateIbcastCall)
CorrectPrivateIbcast == BcastPrivate({}, Firstprivate, PrivateIbcastCall)
=============================================================================
