----------------------------- MODULE Pt2ptCases -----------------------------
(***************************************************************************)
(* The programs of micro-benches/0-level/pt2pt, each named after its file. *)
(* In nearly all of them rank 0 sends N ints and rank 1 receives them, and *)
(* one of the two calls is wrong.                                          *)
(***************************************************************************)
EXTENDS PlainOps

N == 1000
BIG == 10                             \* elements of the arrays of 100000
TagA == 124523                        \* MSG_TAG_A, whatever its value in a file
Buffer == Ints("buffer", N)
Buffer2 == Ints("buffer2", N)
GoodSend == Send(Buffer, N, MPI_INT, 1, TagA, WORLD)
GoodRecv == Recv(Buffer, N, MPI_INT, 0, TagA, WORLD)
Waited(call) == <<call, Wait(call.req)>>

Irecvs(b, n, t, src, tag, c) ==
  ArgError(Each(<<GoodSend>>, Waited(Irecv(b, n, t, src, tag, c, "req"))))
ArgErrorMPIIRecvBuffer1 == Irecvs(Null, N, MPI_INT, 0, TagA, WORLD)
ArgErrorMPIIRecvCommunicator1 == Irecvs(Buffer, N, MPI_INT, 0, TagA, COMM_NULL)
ArgErrorMPIIRecvCommunicator2 == Irecvs(Buffer, N, MPI_INT, 0, TagA, NoHandle)
ArgErrorMPIIRecvCount1 == Irecvs(Buffer, 2 * N, MPI_INT, 0, TagA, WORLD)
ArgErrorMPIIRecvCount2 == Irecvs(Buffer, -1, MPI_INT, 0, TagA, WORLD)
ArgErrorMPIIRecvRank1 == Irecvs(Buffer, N, MPI_INT, 2, TagA, WORLD)
ArgErrorMPIIRecvRank2 == Irecvs(Buffer, N \div 2, MPI_INT, -1, TagA, WORLD)
ArgErrorMPIIRecvRequest ==
  ArgError(Each(<<GoodSend>>, Waited(Irecv(Buffer, N, MPI_INT, 0, TagA, WORLD, NoHandle))))
ArgErrorMPIIRecvTag == Irecvs(Buffer, N, MPI_INT, 0, -1, WORLD)
ArgErrorMPIIRecvType1 == Irecvs(Buffer, N, MPI_DOUBLE, 0, TagA, WORLD)
ArgErrorMPIIRecvType2 == Irecvs(Buffer, N, NoHandle, 0, TagA, WORLD)
UnsignedSend == Send(Array("ubuffer", "unsigned", N), N, MPI_UNSIGNED, 1, TagA, WORLD)
ArgErrorMPIIRecvType3 ==
  ArgError(Each(<<UnsignedSend>>, Waited(Irecv(Buffer, N, MPI_UNSIGNED, 0, TagA, WORLD, "req"))))
ArgErrorMPIIRecvType3a ==
  ArgError(Each(<<UnsignedSend>>, Waited(Irecv(Buffer, N, MPI_INT, 0, TagA, WORLD, "req"))))
-----------------------------------------------------------------------------
Isends(b, n, t, dst, tag, c) ==
  ArgError(Each(Waited(Isend(b, n, t, dst, tag, c, "request")), <<GoodRecv>>))
ArgErrorMPIISendBuffer == Isends(Null, N, MPI_INT, 1, TagA, WORLD)
ArgErrorMPIISendCommunicator1 == Isends(Buffer, N, MPI_INT, 1, TagA, NoHandle)
ArgErrorMPIISendCommunicator2 == Isends(Buffer, N, MPI_INT, 1, TagA, COMM_NULL)
ArgErrorMPIISendCount1 == Isends(Buffer, -1, MPI_INT, 1, TagA, WORLD)
ArgErrorMPIISendCount2 == Isends(Buffer, N + 1, MPI_INT, 1, TagA, WORLD)
ArgErrorMPIISendRank1 == Isends(Buffer, N, MPI_INT, -1, TagA, WORLD)
ArgErrorMPIISendRank2 == Isends(Buffer, N, MPI_INT, 2, TagA, WORLD)
\* Waits for a request that no call has set.
ArgErrorMPIISendRequest1 ==
  ArgError(Each(<<Isend(Buffer, N, MPI_INT, 1, TagA, WORLD, NoHandle), Wait("mpi_request")>>, <<GoodRecv>>))
ArgErrorMPIISendTag1 == Isends(Buffer, N, MPI_INT, 1, -1, WORLD)
ArgErrorMPIISendTag2 == Isends(Buffer, N, MPI_INT, 1, KeyvalTag, WORLD)
ArgErrorMPIISendType1 == Isends(Buffer, N, MPI_DOUBLE, 1, TagA, WORLD)
ArgErrorMPIISendType2 == Isends(Buffer, N, NoHandle, 1, TagA, WORLD)
ArgErrorMPIISendType3 == Isends(Buffer, N, MPI_UNSIGNED, 1, TagA, WORLD)
-----------------------------------------------------------------------------
Recvs(b, n, t, src, tag, c) == ArgError(Each(<<GoodSend>>, <<Recv(b, n, t, src, tag, c)>>))
ArgErrorMPIRecvBuffer == Recvs(Null, N, MPI_INT, 0, TagA, WORLD)
ArgErrorMPIRecvCommunicator1 == Recvs(Buffer, N, MPI_INT, 0, TagA, NoHandle)
ArgErrorMPIRecvCommunicator2 == Recvs(Buffer, N, MPI_INT, 0, TagA, COMM_NULL)
ArgErrorMPIRecvCount1 == Recvs(Buffer, -1, MPI_INT, 0, TagA, WORLD)
ArgErrorMPIRecvCount2 == Recvs(Buffer, 2 * N, MPI_INT, 0, TagA, WORLD)
ArgErrorMPIRecvRank1 == Recvs(Buffer, N, MPI_INT, -1, TagA, WORLD)
ArgErrorMPIRecvRank2 == Recvs(Buffer, N, MPI_INT, 2, TagA, WORLD)
ArgErrorMPIRecvTag == Recvs(Buffer, N, MPI_INT, 0, -1, WORLD)
ArgErrorMPIRecvType1 == Recvs(Buffer, N, NoHandle, 0, TagA, WORLD)
ArgErrorMPIRecvType2 == Recvs(Buffer, N, MPI_DOUBLE, 0, TagA, WORLD)
ArgErrorMPIRecvType3 == Recvs(Buffer, N, MPI_UNSIGNED, 0, TagA, WORLD)

Sending(b, n, t, dst, tag, c) == ArgError(Each(<<Send(b, n, t, dst, tag, c)>>, <<GoodRecv>>))
ArgErrorMPISendBuffer == Sending(Null, N, MPI_INT, 1, TagA, WORLD)
ArgErrorMPISendCommunicator1 == Sending(Buffer, N, MPI_INT, 1, TagA, COMM_NULL)
ArgErrorMPISendCommunicator2 == Sending(Buffer, N, MPI_INT, 1, TagA, NoHandle)
ArgErrorMPISendCount1 == Sending(Buffer, 5 * N, MPI_INT, 1, TagA, WORLD)
ArgErrorMPISendCount2 == Sending(Buffer, -1, MPI_INT, 1, TagA, WORLD)
\* Mutant: the size that fits.
SendFits == Sending(Buffer, N, MPI_INT, 1, TagA, WORLD)
ArgErrorMPISendCount3 == Sending(Buffer, N + 3, MPI_INT, 1, TagA, WORLD)
ArgErrorMPISendRank1 == Sending(Buffer, N, MPI_INT, 2, TagA, WORLD)
ArgErrorMPISendRank2 == Sending(Buffer, N, MPI_INT, -1, TagA, WORLD)
ArgErrorMPISendTag1 == Sending(Buffer, N, MPI_INT, 1, -1, WORLD)
ArgErrorMPISendTag2 ==
  ArgError(Each(<<Send(Buffer, N, MPI_INT, 1, KeyvalTag, WORLD)>>,
                <<Recv(Buffer, N, MPI_INT, 0, KeyvalTag, WORLD)>>))
ArgErrorMPISendType2 == Sending(Buffer, N, NoHandle, 1, TagA, WORLD)
\* Receives into the pointer recvbuffer itself.
ArgErrorMPISendType3 ==
  ArgError(Each(<<Send(Array("test", "char", 1), 1, MPI_DOUBLE, 1, TagA, WORLD)>>,
                <<Recv(Array("recvbuffer", "pointer", 1), 1, MPI_DOUBLE, 0, TagA, WORLD)>>))

\* The buffers of these and of some later cases have 1204 elements.
Buf1204 == Ints("buffer2", 1204)
\* while (flag == 0) MPI_Test(...) with a proper flag waits for the request.
Testing(calls) ==
  ArgError(Each(<<Send(Buf1204, N, MPI_INT, 1, TagA, WORLD)>>,
                <<Irecv(Ints("buffer", 1204), N, MPI_INT, 0, TagA, WORLD, "request")>> \o calls))
\* while (*flag == 0) reads through the null pointer.
ArgErrorMPITestFlagduplicate == Testing(<<Test("request", FALSE, TRUE), Store(Null)>>)
ArgErrorMPITestFlag == Testing(<<Test("request", FALSE, TRUE), Wait("request")>>)
ArgErrorMPITestStatus == Testing(<<Test("request", TRUE, FALSE), Wait("request")>>)
-----------------------------------------------------------------------------
\* determineReceiverTag: the fifth even iteration, i = 8, has the tag one too large.
DetermineReceiverTag(i) == IF i = 8 THEN i * 10 + 1 ELSE i * 10
OneInt(i) == Send(Ints("buffer", 10), 1, MPI_INT, 1, i * 10, WORLD)
ArgMismatchMPIIRecvTag1 ==
  ArgMismatch(Each([k \in 1..20 |-> IF k % 2 = 0 THEN Wait("request")
                      ELSE Isend(Ints("buffer", 10), 1, MPI_INT, 1, (k \div 2) * 10, WORLD, "request")],
                   [k \in 1..20 |-> IF k % 2 = 0 THEN Wait("request")
                      ELSE Irecv(Ints("buffer", 10), 1, MPI_INT, 0, DetermineReceiverTag(k \div 2), WORLD, "request")]))
ArgMismatchMPIRecvTag2 ==
  ArgMismatch(Each([k \in 1..10 |-> OneInt(k - 1)],
                   [k \in 1..10 |-> Recv(Ints("buffer", 10), 1, MPI_INT, 0, DetermineReceiverTag(k - 1), WORLD)]))
Buf4 == Ints("buffer", 4)
ArgMismatchMPIIRecvTag2 ==
  ArgMismatch(Each(<<Send(Buf4, 4, MPI_INT, 1, 0, WORLD)>>,
                   Waited(Irecv(Buf4, 4, MPI_INT, 0, 1, WORLD, "mpi_request"))))
ArgMismatchMPIRecvTag1 ==
  ArgMismatch(Each(<<Send(Buf4, 4, MPI_INT, 1, 0, WORLD)>>, <<Recv(Buf4, 4, MPI_INT, 0, 1, WORLD)>>))
ArgMismatchMPIRecvTag3 ==
  ArgMismatch(Each(Waited(Isend(Buf4, 4, MPI_INT, 1, 0, WORLD, "mpi_request")),
                   <<Recv(Buf4, 4, MPI_INT, 0, 1, WORLD)>>))

InRows(zero, one1) == ArgMismatch(Each(<<SplitRow(0, FALSE)>> \o zero, <<SplitRow(1, FALSE)>> \o one1))
ArgMismatchMPIISendCommunicator3 ==
  InRows(Waited(Isend(Buffer, 1, MPI_INT, 1, TagA, ROW, "request")), <<Recv(Buf1204, 1204, MPI_INT, 0, TagA, ROW)>>)
ArgMismatchMPISendCommunicator1 ==
  InRows(<<Send(Buffer, 1, MPI_INT, 1, TagA, ROW)>>, <<Recv(Buf1204, 1204, MPI_INT, 0, TagA, ROW)>>)
ArgMismatchMPISendCommunicator2 ==
  InRows(<<Send(Buffer, 1, MPI_INT, 1, TagA, ROW)>>, Waited(Irecv(Buf1204, 1204, MPI_INT, 0, TagA, ROW, "request")))

ArgMismatchMPIISendType ==
  ArgMismatch(Each(Waited(Isend(Buffer, N, NoHandle, 1, TagA, WORLD, "mpi_request")), <<GoodRecv>>))
ArgMismatchMPIIrecvbufferoverlap ==
  ArgMismatch(Each(<<GoodSend, Send(Buffer, N \div 2, MPI_INT, 1, TagA, WORLD)>>,
                   <<Irecv(Buffer, N, MPI_INT, 0, TagA, WORLD, "mpi_request1"),
                     Irecv(Plus(Buffer, (N \div 2) * 4), N \div 2, MPI_INT, 0, TagA, WORLD, "mpi_request2"),
                     Wait("mpi_request1"), Wait("mpi_request2")>>))
ArgMismatchMPIRecvType1 ==
  ArgMismatch(Each(<<Send(Array("test", "double", 1), 1, MPI_DOUBLE, 1, TagA, WORLD)>>,
                   <<Recv(Array("recvbuffer", "char", 1), 1, MPI_DOUBLE, 0, TagA, WORLD)>>))
CharForInt == ArgMismatch(Each(<<Send(Ints("buffer", 10), 1, MPI_INT, 1, 0, WORLD)>>,
                               <<Recv(Ints("buffer", 10), 1, MPI_CHAR, 0, 0, WORLD)>>))
ArgMismatchMPIRecvType2 == CharForInt
ArgMismatchMPIRecvType7 == CharForInt
-----------------------------------------------------------------------------
Quad(o, p, tag) == Transfer(o, Buf4, 4, MPI_INT, p, tag, WORLD)
MisplacedCallMPIRecvDeadlock1 ==
  MisplacedCall([r \in Ranks |-> Main(<<Quad("recv", Other(r), 0), Quad("send", Other(r), 0)>>)])
MisplacedCallMPIRecvDeadlock2 ==
  MisplacedCall(Each(<<Quad("send", 1, 0), Quad("send", 1, 1)>>, <<Quad("recv", 0, 1), Quad("recv", 0, 0)>>))
MisplacedCallMPIRecvDeadlock4 ==
  MisplacedCall([r \in Ranks |-> Main(<<Send(Buffer, N, MPI_INT, Other(r), TagA, WORLD),
                                        Recv(Buffer, N, MPI_INT, Other(r), TagA, WORLD)>>)])
MisplacedCallMPISend ==
  LET word == Ints("data", 1)
  IN MisplacedCall([r \in Ranks |-> <<Send(word, 1, MPI_INT, 0, 0, WORLD)>> \o
                                     Main(<<RecvNullStatus(word, 1, MPI_INT, 0, 0, WORLD)>>)])
MisplacedCallMPIWait ==
  LET big == Ints("buffer", BIG)
  IN MisplacedCall(Each(<<Isend(big, BIG, MPI_INT, 1, 0, WORLD, "request"), Store(big), Wait("request")>>,
                        Waited(Irecv(big, BIG, MPI_INT, 0, 0, WORLD, "request"))))
MissingCallMPIFinalize == MissingCall([r \in Ranks |-> <<Init1>>])
MissingCallMPIRecv == MissingCall(Each(<<Send(Buf4, 3, MPI_INT, 1, 123, WORLD)>>, <<>>))
\* Mutant: one element more than the buffer has.
RecvFiveOfFour == MissingCall(Each(<<>>, <<Recv(Buf4, 5, MPI_INT, 0, 0, WORLD)>>))
MissingCallMPISendDeadlock == MissingCall(Each(<<>>, <<Recv(Buf4, 3, MPI_INT, 0, 0, WORLD)>>))
MissingCallMPIWait ==
  MissingCall(Each(<<Isend(Ints("buffer2", 10), 10, MPI_INT, 1, 123, WORLD, "request"), RequestFree("request")>>,
                   <<Irecv(Ints("buffer", 10), 10, MPI_INT, 0, 123, WORLD, "request"), RequestFree("request")>>))
=============================================================================
