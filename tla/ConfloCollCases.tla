-------------------------- MODULE ConfloCollCases --------------------------
(***************************************************************************)
(* The programs of micro-benches/0-level/conflo/coll: which of two         *)
(* collectives is called depends on argc.                                  *)
(***************************************************************************)
EXTENDS CollCases

GoodGather == Gathers(LocalSum, 1, MPI_INT, GlobalSum2, 1, MPI_INT, 0, WORLD)
GoodReduce == Reduces(LocalSum, GlobalSum, 1, MPI_INT, SUM, 0, WORLD)

ConfloArgErrorMPIAllgatherSendCount ==
  Unless(Allgathers(LocalSum, 2, MPI_INT, GlobalSum2, 1, MPI_INT, WORLD),
         Allgathers(LocalSum, 1, MPI_INT, GlobalSum2, 1, MPI_INT, WORLD))
ConfloArgErrorMPIGatherDest ==
  Unless(Gathers(LocalSum, 1, MPI_INT, GlobalSum2, 1, MPI_INT, -1, WORLD), GoodGather)
ConfloArgErrorMPIGatherRecvBuffer ==
  Unless(Gathers(LocalSum, 1, MPI_INT, Null, 1, MPI_INT, 0, WORLD), GoodGather)
ConfloArgErrorMPIGatherRecvCount ==
  Unless(Gathers(LocalSum, 1, MPI_INT, GlobalSum2, 2, MPI_INT, 0, WORLD), GoodGather)
ConfloArgErrorMPIGatherRecvType ==
  Unless(Gathers(LocalSum, 1, MPI_INT, GlobalSum2, 1, MPI_CHAR, 0, WORLD), GoodGather)
ConfloArgErrorMPIGatherSendBuffer ==
  Unless(Gathers(Null, 1, MPI_INT, GlobalSum2, 1, MPI_INT, 0, WORLD), GoodGather)
ConfloArgErrorMPIGatherSendCount1 ==
  Unless(Gathers(LocalSum, -1, MPI_INT, GlobalSum2, 1, MPI_INT, 0, WORLD), GoodGather)
ConfloArgErrorMPIGatherSendCount2 ==
  Unless(Gathers(LocalSum, 2, MPI_INT, GlobalSum2, 1, MPI_INT, 0, WORLD), GoodGather)
ConfloArgErrorMPIGatherSendType ==
  Unless(Gathers(LocalSum, 1, MPI_CHAR, GlobalSum2, 1, MPI_INT, 0, WORLD), GoodGather)
-----------------------------------------------------------------------------
ConfloArgErrorMPIReduceCommunicator ==
  Unless(Reduces(LocalSum, GlobalSum, 1, MPI_INT, SUM, 0, NoHandle), GoodReduce)
ConfloArgErrorMPIReduceCount == Unless(Reduces(LocalSum, GlobalSum, -1, MPI_INT, SUM, 0, WORLD), GoodReduce)
ConfloArgErrorMPIReduceOp1 == Unless(Reduces(LocalSum, GlobalSum, 1, MPI_INT, NoHandle, 0, WORLD), GoodReduce)
ReducesFloat(o) == Reduces(Array("local_f", "float", 1), Array("global_sum", "float", 1), 1, MPI_FLOAT, o, 0, WORLD)
ConfloArgErrorMPIReduceOp2 == Unless(ReducesFloat("MPI_LXOR"), ReducesFloat(SUM))
\* The variables are ints, the type is MPI_C_BOOL.
ReducesBool(o) == Reduces(Ints("b_true", 1), Ints("b_false", 1), 1, MPI_C_BOOL, o, 0, WORLD)
ConfloArgErrorMPIReduceOp3 == Unless(ReducesBool("MPI_PROD"), ReducesBool("MPI_LOR"))
ConfloArgErrorMPIReduceOp4 ==
  Unless(Reduces(LocalSum, GlobalSum, 1, MPI_INT, "MPI_REPLACE", 0, WORLD), GoodReduce)
ConfloArgErrorMPIReduceRecvBuffer == Unless(Reduces(LocalSum, Null, 1, MPI_INT, SUM, 0, WORLD), GoodReduce)
ConfloArgErrorMPIReduceRoot == Unless(Reduces(LocalSum, GlobalSum, 1, MPI_INT, SUM, -1, WORLD), GoodReduce)
ConfloArgErrorMPIReduceSendBuffer == Unless(Reduces(Null, GlobalSum, 1, MPI_INT, SUM, 0, WORLD), GoodReduce)

\* local_sum is one int; the root has to send two, with an argument too.
ConfloArgErrorMPIScatterCount1 ==
  Unless(Scatters(LocalSum, 2, MPI_INT, GlobalSum, 1, MPI_INT, 0, WORLD),
         Scatters(LocalSum, 1, MPI_INT, GlobalSum, 1, MPI_INT, 0, WORLD))
ConfloArgErrorMPIScatterCount2 ==
  Unless(Scatters(LocalSum, 1, MPI_INT, GlobalSum, 3, MPI_INT, 0, WORLD),
         Scatters(LocalSum, 1, MPI_INT, GlobalSum, 1, MPI_INT, 0, WORLD))

\* Rank 1 reduces otherwise than rank 0.
OtherReduce(n, o, root) ==
  Unless(ArgMismatch(Each(<<Reduce(LocalSum, GlobalSum, 1, MPI_INT, SUM, 0, WORLD)>>,
                          <<Reduce(LocalSum, GlobalSum, n, MPI_INT, o, root, WORLD)>>)), GoodReduce)
ConfloArgMismatchMPIReduceCount == OtherReduce(2, SUM, 0)
ConfloArgMismatchMPIReduceOp == OtherReduce(1, "MPI_MAX", 0)
ConfloArgMismatchMPIReduceroot == OtherReduce(1, SUM, 1)
-----------------------------------------------------------------------------
ConfloMisplacedCallMPIBarrierDeadlock1 ==
  Unless(MisplacedCall(Each(<<Barrier(WORLD), CastData>>, <<CastData, Barrier(WORLD)>>)),
         MisplacedCall(Both(<<Barrier(WORLD)>>)))
\* These do not look at argc.
ConfloMissingCallMPIGatherDeadlock == MissingCallMPIGatherDeadlock
ConfloMissingCallMPIIBcast == MissingCallMPIIBcast
ConfloMissingCallMPIReduceDeadlock == MissingCallMPIReduceDeadlock
=============================================================================
