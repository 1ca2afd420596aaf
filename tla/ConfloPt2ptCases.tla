-------------------------- MODULE ConfloPt2ptCases --------------------------
(***************************************************************************)
(* The programs of micro-benches/0-level/conflo/pt2pt: an argument, the    *)
(* order of two calls or a call itself depends on argc.                    *)
(***************************************************************************)
EXTENDS Pt2ptCases

GoodIsends == Isends(Buffer, N, MPI_INT, 1, TagA, WORLD)
GoodPair == Sending(Buffer, N, MPI_INT, 1, TagA, WORLD)

\* The receive is never waited for.
Started(rq) == ArgError(Each(<<GoodSend>>, <<Irecv(Buffer, N, MPI_INT, 0, TagA, WORLD, rq)>>))
ConfloArgErrorMPIIRecvReqest == Unless(Started(NoHandle), Started("real_req"))
ConfloArgErrorMPIISendBuffer == Unless(Isends(Null, N, MPI_INT, 1, TagA, WORLD), GoodIsends)
ConfloArgErrorMPIISendCommunicator1 == Unless(Isends(Buffer, N, MPI_INT, 1, TagA, NoHandle), GoodIsends)
\* In communicators of one rank each, or in one of both.
Rows(zero, one1) ==
  LET rows(both) == ArgError(Each(<<SplitRow(0, both)>> \o zero, <<SplitRow(1, both)>> \o one1))
  IN Unless(rows(FALSE), rows(TRUE))
IsendRow == Waited(Isend(Buffer, 1, MPI_INT, 1, TagA, ROW, "request"))
SendRow == <<Send(Buffer, 1, MPI_INT, 1, TagA, ROW)>>
RecvRow == <<Recv(Buf1204, 1204, MPI_INT, 0, TagA, ROW)>>
IrecvRow == Waited(Irecv(Buf1204, 1204, MPI_INT, 0, TagA, ROW, "request"))
ConfloArgErrorMPIISendCommunicator2 == Rows(IsendRow, RecvRow)
ConfloArgErrorMPIISendCommunicator3 == Rows(IsendRow, IrecvRow)
ConfloArgErrorMPIISendCount1 == Unless(Isends(Buffer, -1, MPI_INT, 1, TagA, WORLD), GoodIsends)
ConfloArgErrorMPIISendCount2 == Unless(Sending(Buffer, N + 1, MPI_INT, 1, TagA, WORLD), GoodPair)
ConfloArgErrorMPIISendCount4 == Unless(Sending(Buffer, N - (N + 1), MPI_INT, 1, TagA, WORLD), GoodPair)
ConfloArgErrorMPIISendRequest == Unless(ArgErrorMPIISendRequest1, GoodIsends)
ConfloArgErrorMPIISendTag == Unless(Isends(Buffer, N, MPI_INT, 1, -1, WORLD), GoodIsends)
ConfloArgErrorMPIISendTargetRank == Unless(Isends(Buffer, N, MPI_INT, 2, TagA, WORLD), GoodIsends)
ConfloArgErrorMPIISendType == Unless(Isends(Buffer, N, NoHandle, 1, TagA, WORLD), GoodIsends)
-----------------------------------------------------------------------------
ConfloArgErrorMPIRecvBuffer == Unless(Recvs(Null, N, MPI_INT, 0, TagA, WORLD), GoodPair)
ConfloArgErrorMPIRecvCommunicator == Unless(Recvs(Buffer, N, MPI_INT, 0, TagA, NoHandle), GoodPair)
ConfloArgErrorMPIRecvCount == Unless(Recvs(Buffer, -1, MPI_INT, 0, TagA, WORLD), GoodPair)
DoubleInto(v, b) == ArgError(Each(<<Send(Array("test", "double", 1), 1, MPI_DOUBLE, 1, TagA, WORLD)>>,
                                  <<Recv(Array(v, b, 1), 1, MPI_DOUBLE, 0, TagA, WORLD)>>))
ConfloArgErrorMPIRecvType1 == Unless(DoubleInto("c_recvbuffer", "char"), DoubleInto("d_recvbuffer", "double"))
IntAs(t) == ArgError(Each(<<Send(Ints("buffer", 10), 1, MPI_INT, 1, 0, WORLD)>>,
                          <<Recv(Ints("buffer", 10), 1, t, 0, 0, WORLD)>>))
ConfloArgErrorMPIRecvType2 == Unless(IntAs(MPI_CHAR), IntAs(MPI_INT))
ConfloArgErrorMPIRecvType3 == Unless(Recvs(Buffer, N, NoHandle, 0, TagA, WORLD), GoodPair)

ConfloArgErrorMPISendBuffer == Unless(Sending(Null, N, MPI_INT, 1, TagA, WORLD), GoodPair)
ConfloArgErrorMPISendCommunicator1 == Rows(SendRow, RecvRow)
ConfloArgErrorMPISendCommunicator2 == Rows(SendRow, IrecvRow)
ConfloArgErrorMPISendCommunicator3 == Unless(Sending(Buffer, N, MPI_INT, 1, TagA, NoHandle), GoodPair)
ConfloArgErrorMPISendCount1 == Unless(Sending(Buffer, 5 * N, MPI_INT, 1, TagA, WORLD), GoodPair)
ConfloArgErrorMPISendCount2 == Unless(Sending(Buffer, -1, MPI_INT, 1, TagA, WORLD), GoodPair)
ConfloArgErrorMPISendCount3 == Unless(Sending(Buffer, N + 1, MPI_INT, 1, TagA, WORLD), GoodPair)
ConfloArgErrorMPISendRank == Unless(Sending(Buffer, N, MPI_INT, 10, TagA, WORLD), GoodPair)
ConfloArgErrorMPISendTag1 == Unless(Sending(Buffer, N, MPI_INT, 1, -1, WORLD), GoodPair)
Tagged(tag) == ArgError(Each(<<Send(Buffer, N, MPI_INT, 1, tag, WORLD)>>, <<Recv(Buffer, N, MPI_INT, 0, tag, WORLD)>>))
ConfloArgErrorMPISendTag2 == Unless(Tagged(MPI_TAG_UB + 1), Tagged(MPI_TAG_UB))
ConfloArgErrorMPISendType2 == Unless(Sending(Buffer, N, NoHandle, 1, TagA, WORLD), GoodPair)
\* Receives into the pointer recvbuffer itself, with an argument too.
IntoPointer(t) == ArgError(Each(<<Send(Array("test", "char", 1), 1, t, 1, TagA, WORLD)>>,
                                <<Recv(Array("recvbuffer", "pointer", 1), 1, t, 0, TagA, WORLD)>>))
ConfloArgErrorMPISendType3 == Unless(IntoPointer(MPI_DOUBLE), IntoPointer(MPI_CHAR))
Tests(flag, status) == Testing(<<Test("request", flag, status), Wait("request")>>)
ConfloArgErrorMPITestFlag == Unless(Tests(FALSE, TRUE), Tests(TRUE, TRUE))
ConfloArgErrorMPITestStatus == Unless(Tests(TRUE, FALSE), Tests(TRUE, TRUE))
-----------------------------------------------------------------------------
QuadSend == <<Quad("send", 1, 0)>>
QuadRecv(tag) == <<Quad("recv", 0, tag)>>
QuadIrecv(tag) == Waited(Irecv(Buf4, 4, MPI_INT, 0, tag, WORLD, "mpi_request"))
QuadIsend == Waited(Isend(Buf4, 4, MPI_INT, 1, 0, WORLD, "mpi_request"))
ConfloArgMismatchMPIIRecvTag2 ==
  Unless(ArgMismatch(Each(QuadSend, QuadIrecv(1))), ArgMismatch(Each(QuadSend, QuadIrecv(0))))
ConfloArgMismatchMPIRecvTag1 ==
  Unless(ArgMismatch(Each(QuadSend, QuadRecv(1))), ArgMismatch(Each(QuadSend, QuadRecv(0))))
ConfloArgMismatchMPIRecvTag3 ==
  Unless(ArgMismatch(Each(QuadIsend, QuadRecv(1))), ArgMismatch(Each(QuadIsend, QuadRecv(0))))
TwoInto(second) ==
  ArgMismatch(Each(<<GoodSend, Send(Buffer, N \div 2, MPI_INT, 1, TagA, WORLD)>>,
                   <<Irecv(Buffer, N, MPI_INT, 0, TagA, WORLD, "mpi_request1"),
                     Irecv(second, N \div 2, MPI_INT, 0, TagA, WORLD, "mpi_request2"),
                     Wait("mpi_request1"), Wait("mpi_request2")>>))
ConfloArgMismatchMPIIrecvbufferoverlap ==
  Unless(TwoInto(Plus(Buffer, (N \div 2) * 4)), TwoInto(Ints("buffer2", N \div 2)))
-----------------------------------------------------------------------------
RankOne == <<Quad("recv", 0, 0), Quad("send", 0, 0)>>
ConfloMisplacedCallMPIRecvDeadlock1 ==
  Unless(MisplacedCall(Each(<<Quad("recv", 1, 0), Quad("send", 1, 0)>>, RankOne)),
         MisplacedCall(Each(<<Quad("send", 1, 0), Quad("recv", 1, 0)>>, RankOne)))
FromOne == Recv(Buffer, N, MPI_INT, 1, TagA, WORLD)
ToZero == Send(Buffer, N, MPI_INT, 0, TagA, WORLD)
ConfloMisplacedCallMPIRecvDeadlock4 ==
  Unless(MisplacedCall(Each(<<GoodSend, FromOne>>, <<ToZero, GoodRecv>>)),
         MisplacedCall(Each(<<FromOne, GoodSend>>, <<ToZero, GoodRecv>>)))
\* Both ranks send to rank 0 and receive from it; the first branch never initializes MPI.
ConfloMisplacedCallMPISend ==
  LET word == Ints("data", 1)
      toZero == Send(word, 1, MPI_INT, 0, 0, WORLD)
      fromZero == RecvNullStatus(word, 1, MPI_INT, 0, 0, WORLD)
  IN Unless(MisplacedCall([r \in Ranks |-> <<toZero, fromZero, Finalize>>]),
            MisplacedCall(Both(<<toZero, fromZero>>)))
ConfloMisplacedCallMPIWait ==
  LET big == Ints("buffer", BIG)
      start == Isend(big, BIG, MPI_INT, 1, 0, WORLD, "request")
      receive == Waited(Irecv(big, BIG, MPI_INT, 0, 0, WORLD, "request"))
  IN Unless(MisplacedCall(Each(<<start, Store(big), Wait("request")>>, receive)),
            MisplacedCall(Each(<<start, Wait("request")>>, receive)))
\* These do not look at argc.
ConfloMissingCallMPIFinalize == MissingCallMPIFinalize
ConfloMissingCallMPIRecv == MissingCallMPIRecv
ConfloMissingCallMPISendDeadlock == MissingCallMPISendDeadlock
ConfloMissingCallMPIWait == MissingCallMPIWait
=============================================================================
