----------------------------- MODULE CollCases -----------------------------
(***************************************************************************)
(* The programs of micro-benches/0-level/coll, each named after its file:  *)
(* collectives of two ranks, nearly all called alike on both.              *)
(***************************************************************************)
EXTENDS PlainOps

LocalSum == Ints("local_sum", 1)
GlobalSum == Ints("global_sum", 1)
GlobalSum2 == Ints("global_sum", 2)
GlobalSum4 == Ints("global_sum", 4)
LocalSum2 == Ints("local_sum", 2)

Allgathers(sb, sn, st, rb, rn, rt, c) == ArgError(Both(<<Allgather(sb, sn, st, rb, rn, rt, c)>>))
ArgErrorMPIAllgatherCommunicator1 == Allgathers(LocalSum, 1, MPI_INT, GlobalSum4, 1, MPI_INT, COMM_NULL)
ArgErrorMPIAllgatherCommunicator2 == Allgathers(LocalSum, 1, MPI_INT, GlobalSum4, 1, MPI_INT, NoHandle)
ArgErrorMPIAllgatherCount1 == Allgathers(LocalSum, 2, MPI_INT, GlobalSum4, 2, MPI_INT, WORLD)
ArgErrorMPIAllgatherCount2 == Allgathers(LocalSum, 1, MPI_INT, GlobalSum2, 2, MPI_INT, WORLD)
ArgErrorMPIAllgatherCount3 == Allgathers(LocalSum, -1, MPI_INT, GlobalSum4, 2, MPI_INT, WORLD)
ArgErrorMPIAllgatherCount4 == Allgathers(LocalSum, 1, MPI_INT, GlobalSum4, -1, MPI_INT, WORLD)
ArgErrorMPIAllgatherRecvBuffer1 == Allgathers(LocalSum, 1, MPI_INT, GlobalSum, 1, MPI_INT, WORLD)
ArgErrorMPIAllgatherRecvBuffer2 == Allgathers(LocalSum, 1, MPI_INT, Null, 1, MPI_INT, WORLD)
ArgErrorMPIAllgatherSendBuffer == Allgathers(Null, 1, MPI_INT, GlobalSum2, 1, MPI_INT, WORLD)
ArgErrorMPIAllgatherType1 == Allgathers(LocalSum, 1, MPI_DOUBLE, GlobalSum4, 1, MPI_INT, WORLD)
ArgErrorMPIAllgatherType2 == Allgathers(LocalSum, 1, MPI_INT, GlobalSum4, 1, MPI_DOUBLE, WORLD)
ArgErrorMPIAllgatherType3 == Allgathers(LocalSum, 1, MPI_DOUBLE, GlobalSum4, 1, MPI_DOUBLE, WORLD)
ArgErrorMPIAllgatherType4 == Allgathers(LocalSum, 1, MPI_UNSIGNED, GlobalSum4, 1, MPI_UNSIGNED, WORLD)
-----------------------------------------------------------------------------
Gathers(sb, sn, st, rb, rn, rt, root, c) == ArgError(Both(<<Gather(sb, sn, st, rb, rn, rt, root, c)>>))
ArgErrorMPIGatherCommunicator1 == Gathers(LocalSum, 1, MPI_INT, GlobalSum2, 1, MPI_INT, 0, COMM_NULL)
ArgErrorMPIGatherCommunicator2 == Gathers(LocalSum, 1, MPI_INT, GlobalSum2, 1, MPI_INT, 0, NoHandle)
ArgErrorMPIGatherCount1 == Gathers(LocalSum, 1, MPI_INT, GlobalSum2, 2, MPI_INT, 0, WORLD)
ArgErrorMPIGatherCount2 == Gathers(LocalSum, 2, MPI_INT, GlobalSum2, 1, MPI_INT, 0, WORLD)
ArgErrorMPIGatherCount3 == Gathers(LocalSum, -1, MPI_INT, GlobalSum2, 1, MPI_INT, 0, WORLD)
ArgErrorMPIGatherDest1 == Gathers(LocalSum, 1, MPI_INT, GlobalSum2, 1, MPI_INT, -1, WORLD)
ArgErrorMPIGatherDest2 == Gathers(LocalSum, 1, MPI_INT, GlobalSum2, 1, MPI_INT, -1, WORLD)  \* unsigned int root = -1
ArgErrorMPIGatherRecvBuffer1 == Gathers(LocalSum, 1, MPI_INT, GlobalSum, 1, MPI_INT, 0, WORLD)
ArgErrorMPIGatherRecvBuffer2 == Gathers(LocalSum, 1, MPI_INT, Null, 1, MPI_INT, 0, WORLD)
ArgErrorMPIGatherSendBuffer == Gathers(Null, 1, MPI_INT, GlobalSum2, 1, MPI_INT, 0, WORLD)
ArgErrorMPIGatherType1 == Gathers(LocalSum, 1, MPI_DOUBLE, GlobalSum2, 1, MPI_INT, 0, WORLD)
ArgErrorMPIGatherType2 == Gathers(LocalSum, 1, MPI_INT, GlobalSum2, 1, MPI_DOUBLE, 0, WORLD)
ArgErrorMPIGatherType3 == Gathers(LocalSum, 1, MPI_DOUBLE, GlobalSum2, 1, MPI_DOUBLE, 0, WORLD)
ArgErrorMPIGatherType4 == Gathers(LocalSum, 1, MPI_UNSIGNED, GlobalSum2, 1, MPI_UNSIGNED, 0, WORLD)
ArgMismatchMPIGatherType1 ==
  ArgMismatch(Each(<<Gather(LocalSum, 1, MPI_INT, GlobalSum2, 1, MPI_INT, 0, WORLD)>>,
                   <<Gather(LocalSum, 1, MPI_CHAR, GlobalSum2, 1, MPI_CHAR, 0, WORLD)>>))
ArgMismatchMPIGatherType2 ==
  ArgMismatch(Both(<<Gather(LocalSum, 1, MPI_INT, GlobalSum, 4, MPI_CHAR, 0, WORLD)>>))
-----------------------------------------------------------------------------
Reduces(sb, rb, n, t, o, root, c) == ArgError(Both(<<Reduce(sb, rb, n, t, o, root, c)>>))
ArgErrorMPIReduceCommunicator1 == Reduces(LocalSum, GlobalSum, 1, MPI_INT, SUM, 0, NoHandle)
ArgErrorMPIReduceCommunicator2 == Reduces(LocalSum, GlobalSum, 1, MPI_INT, SUM, 0, COMM_NULL)
ArgErrorMPIReduceCount1 == Reduces(LocalSum, GlobalSum, -1, MPI_INT, SUM, 0, WORLD)
ArgErrorMPIReduceCount2 == Reduces(LocalSum, GlobalSum, 5, MPI_INT, SUM, 0, WORLD)
ArgErrorMPIReduceCount3 ==
  ArgError(Each(<<Reduce(Ints("local_sum", 5), Ints("global_sum", 5), 1, MPI_INT, SUM, 0, WORLD)>>,
                <<Reduce(Ints("local_sum", 5), Ints("global_sum", 5), 5, MPI_INT, SUM, 0, WORLD)>>))
ArgErrorMPIReduceCount3a == Reduces(LocalSum, GlobalSum, 5, MPI_INT, SUM, 0, WORLD)
ArgErrorMPIReduceOp1 == Reduces(LocalSum, GlobalSum, 1, MPI_INT, NoHandle, 0, WORLD)
ArgErrorMPIReduceOp2 == Reduces(LocalSum, GlobalSum, 1, MPI_INT, "MPI_REPLACE", 0, WORLD)
ArgErrorMPIReduceRecvBuffer == Reduces(LocalSum, Null, 1, MPI_INT, SUM, 0, WORLD)
ArgErrorMPIReduceRoot == Reduces(LocalSum, GlobalSum, 1, MPI_INT, SUM, -1, WORLD)
ArgErrorMPIReduceSendBuffer == Reduces(Null, GlobalSum, 1, MPI_INT, SUM, 0, WORLD)
ArgErrorMPIReduceType1 == Reduces(LocalSum, GlobalSum, 1, MPI_DOUBLE, SUM, 0, WORLD)
ArgErrorMPIReduceType2 == Reduces(LocalSum, GlobalSum, 1, NoHandle, SUM, 0, WORLD)
ArgErrorMPIReduceType3 == Reduces(LocalSum, GlobalSum, 1, MPI_UNSIGNED, SUM, 0, WORLD)
ArgMismatchMPIReduceCount ==
  ArgMismatch(Each(<<Reduce(LocalSum2, GlobalSum2, 1, MPI_INT, SUM, 0, WORLD)>>,
                   <<Reduce(LocalSum2, GlobalSum2, 2, MPI_INT, SUM, 0, WORLD)>>))
ArgMismatchMPIReduceOp ==
  ArgMismatch(Each(<<Reduce(LocalSum, GlobalSum, 1, MPI_INT, SUM, 0, WORLD)>>,
                   <<Reduce(LocalSum, GlobalSum, 1, MPI_INT, "MPI_MAX", 0, WORLD)>>))
ArgMismatchMPIReduceroot ==
  ArgMismatch(Each(<<Reduce(LocalSum, GlobalSum, 1, MPI_INT, SUM, 0, WORLD)>>,
                   <<Reduce(LocalSum, GlobalSum, 1, MPI_INT, SUM, 1, WORLD)>>))
-----------------------------------------------------------------------------
Scatters(sb, sn, st, rb, rn, rt, root, c) == ArgError(Both(<<Scatter(sb, sn, st, rb, rn, rt, root, c)>>))
ArgErrorMPIScatterCommunicator1 == Scatters(LocalSum2, 1, MPI_DOUBLE, GlobalSum, 1, MPI_INT, 0, COMM_NULL)
ArgErrorMPIScatterCommunicator2 == Scatters(LocalSum2, 1, MPI_DOUBLE, GlobalSum, 1, MPI_INT, 0, NoHandle)
ArgErrorMPIScatterCount1 == Scatters(LocalSum2, 2, MPI_INT, GlobalSum2, 2, MPI_INT, 0, WORLD)
ArgErrorMPIScatterCount1a == Scatters(Ints("local_sum", 4), 2, MPI_INT, GlobalSum, 1, MPI_INT, 0, WORLD)
ArgErrorMPIScatterCount2 == Scatters(LocalSum2, 1, MPI_INT, Ints("global_sum", 3), 3, MPI_INT, 0, WORLD)
ArgErrorMPIScatterCount3 == Scatters(LocalSum2, -1, MPI_INT, GlobalSum, 1, MPI_INT, 0, WORLD)
ArgErrorMPIScatterCount4 == Scatters(LocalSum2, 1, MPI_INT, GlobalSum, -1, MPI_INT, 0, WORLD)
ArgErrorMPIScatterRank == Scatters(LocalSum2, 1, MPI_INT, GlobalSum, 1, MPI_INT, -1, WORLD)
ArgErrorMPIScatterRecvBuffer == Scatters(LocalSum2, 1, MPI_INT, Null, 1, MPI_INT, 0, WORLD)
ArgErrorMPIScatterSendBuffer == Scatters(Null, 1, MPI_INT, GlobalSum, 1, MPI_INT, 0, WORLD)
ArgErrorMPIScatterType1 ==
  Scatters(LocalSum2, 1, MPI_DOUBLE, Array("global_sum", "double", 1), 1, MPI_DOUBLE, 0, WORLD)
ArgErrorMPIScatterType2 == Scatters(Array("local_sum", "double", 2), 1, MPI_DOUBLE, GlobalSum, 1, MPI_DOUBLE, 0, WORLD)
ArgErrorMPIScatterType3 ==
  Scatters(LocalSum2, 1, MPI_UNSIGNED, Array("global_sum", "unsigned", 1), 1, MPI_UNSIGNED, 0, WORLD)
-----------------------------------------------------------------------------
CastData == Bcast(Ints("data", 1), 1, MPI_INT, 0, WORLD)
MisplacedCallMPIBarrierDeadlock1 ==
  MisplacedCall(Each(<<Barrier(WORLD), CastData>>, <<CastData, Barrier(WORLD)>>))
MisplacedCallMPIBarrierDeadlock2 ==
  MisplacedCall(Each(<<Recv(Ints("buffer", 1000), 1000, MPI_INT, 1, 123, WORLD), Barrier(WORLD),
                       Recv(Ints("buffer2", 1000), 1000, MPI_INT, 1, 1234, WORLD)>>,
                     <<Send(Ints("buffer", 1000), 1000, MPI_INT, 0, 123, WORLD),
                       Send(Ints("buffer2", 1000), 1000, MPI_INT, 0, 1234, WORLD), Barrier(WORLD)>>))
\* Gathers an int as MPI_FLOAT.
MissingCallMPIGatherDeadlock ==
  LET numbers == Bcast(Ints("rand_nums", 4), 4, MPI_INT, 0, WORLD)
  IN MissingCall(Each(<<numbers, Gather(Ints("sub_add", 1), 1, MPI_FLOAT, Ints("sub_adds", 2), 1, MPI_FLOAT, 0, WORLD)>>,
                      <<numbers>>))
MissingCallMPIIBcast ==
  LET start == Ibcast(Ints("data", 1), 1, MPI_INT, 0, WORLD, "req")
  IN MissingCall(Both(<<start, start, Wait("req")>>))
MissingCallMPIReduceDeadlock == MissingCall(Each(<<>>, <<Reduce(LocalSum, GlobalSum, 1, MPI_INT, SUM, 0, WORLD)>>))
=============================================================================
