------------------------------ MODULE MCOpenMP ------------------------------
(***************************************************************************)
(* The programs of micro-benches/0-level/openmp for TLC, in the groups the *)
(* runs execute.                                                           *)
(***************************************************************************)
EXTENDS HybridMPI, DataRaceCases, OrderingCases, ThreadingCases, MemoryCases

\* Corrected twins that are correct.
FixedDataRaces ==
  [send_2 |-> CorrectDataRaceSend2, send_3 |-> CorrectDataRaceSend3,
   isend_2 |-> CorrectDataRaceIsend2, reduce |-> CorrectDataRaceReduce,
   task_send |-> CorrectDataRaceTaskSend, task_isend |-> CorrectDataRaceTaskIsend,
   task_bcast |-> CorrectDataRaceTaskBcast, task_ibcast |-> CorrectDataRaceTaskIbcast]

FixedOrdering ==
  [two_collectives |-> CorrectTwoCollectives, two_collectives_2 |-> CorrectTwoCollectives2,
   two_collectives_3 |-> CorrectTwoCollectives3, two_collectives_5 |-> CorrectTwoCollectives5,
   comm_free |-> CorrectCommFree, info_free |-> CorrectInfoFree,
   derived_datatype |-> CorrectDerivedDatatype, task_comm_free |-> CorrectTaskCommFree,
   probe |-> CorrectProbe, deadlock_probe_2 |-> CorrectDeadlockProbe2]

FixedThreading ==
  [level |-> CorrectThreadingLevel, level_2 |-> CorrectThreadingLevel2,
   level_3 |-> CorrectThreadingLevel3, level_4 |-> CorrectThreadingLevel4,
   level_5 |-> CorrectThreadingLevel5, level_6 |-> CorrectThreadingLevel6,
   level_7 |-> CorrectThreadingLevel7, level_8 |-> CorrectThreadingLevel8,
   level_9 |-> CorrectThreadingLevel9, level_10 |-> CorrectThreadingLevel10,
   finalize |-> CorrectFinalize]

FixedMemory ==
  [private_send |-> CorrectPrivateSend, private_isend |-> CorrectPrivateIsend,
   private_after_send |-> CorrectPrivateAfterSend]

Corrected == FixedDataRaces @@ FixedOrdering @@ FixedThreading @@ FixedMemory
-----------------------------------------------------------------------------
\* data_race_isend_3 alone has more than a million states and is left out.
DataRaces ==
  [send |-> DataRaceSend, send_2 |-> DataRaceSend2, send_3 |-> DataRaceSend3,
   isend |-> DataRaceIsend, isend_2 |-> DataRaceIsend2,
   bcast |-> DataRaceBcast, ibcast |-> DataRaceIbcast, reduce |-> DataRaceReduce,
   correct_bcast |-> CorrectDataRaceBcast, correct_ibcast |-> CorrectDataRaceIbcast,
   task_send |-> DataRaceTaskSend, task_isend |-> DataRaceTaskIsend,
   task_bcast |-> DataRaceTaskBcast, task_ibcast |-> DataRaceTaskIbcast,
   info_set |-> InfoSet, info_set_2 |-> InfoSet2]

\* A region in which nobody calls MPI, or at most one thread, still is one too
\* many when only MPI_THREAD_SINGLE is provided.
AlwaysTooLittle ==
  [level |-> WrongThreadingLevel, level_4 |-> WrongThreadingLevel4,
   level_6 |-> WrongThreadingLevel6, missing_init |-> MissingInitThread,
   missing_init_2 |-> MissingInitThread2, missing_init_3 |-> MissingInitThread3,
   missing_init_4 |-> MissingInitThread4]

SometimesWrong ==
  [level_2 |-> WrongThreadingLevel2, level_3 |-> WrongThreadingLevel3,
   level_5 |-> WrongThreadingLevel5, missing_check |-> MissingThreadingLevelCheck,
   finalize |-> FinalizeMissuse, finalize_2 |-> FinalizeMissuse2,
   finalize_3 |-> FinalizeMissuse3, finalize_4 |-> FinalizeMissuse4,
   finalize_5 |-> FinalizeMissuse5]

Memory ==
  [private_send |-> PrivateSend, private_isend |-> PrivateIsend,
   private_after_send |-> PrivateAfterSend, private_bcast |-> PrivateBcast,
   private_ibcast |-> PrivateIbcast]

OtherErrors == DataRaces @@ AlwaysTooLittle @@ SometimesWrong @@ Memory
-----------------------------------------------------------------------------
\* The cases whose report rests on the macros of nondeterminism.h.  Those in
\* which both ranks have four tasks (two_collectives_3, _4, _6, _7 and _8) and
\* request_reuse have millions of states each and are left out, and so is
\* two_collectives_5, which was checked alone (555,000 states).
ObservedByMacros ==
  [two_collectives |-> TwoCollectives, two_collectives_2 |-> TwoCollectives2,
   comm_free |-> CommFree, info_free |-> InfoFree,
   derived_datatype |-> DerivedDatatype, task_comm_free |-> TaskCommFree]

\* The cases whose report rests on the data that arrived.
ObservedByData == [probe |-> ProbeCase, same_buffer |-> SendRecvSameBuffer]

\* One that reports in every run.
Mismatched == [two_collectives_9 |-> TwoCollectives9]

\* The cases that can block.
MayBlock ==
  [deadlock |-> DeadlockBarrier, deadlock_2 |-> Deadlock2, send_recv |-> DeadlockSendRecv,
   task_send_recv |-> DeadlockTaskSendRecv, nondeterministic |-> NondeterministicDeadlock,
   deadlock_probe |-> DeadlockProbe, deadlock_probe_2 |-> DeadlockProbe2]

OrderingErrors == ObservedByMacros @@ ObservedByData @@ Mismatched @@ MayBlock

AllErrors == OtherErrors @@ OrderingErrors
Errors == AllErrors

\* What tells states apart: the rest of job follows from the name of the case.
View == <<job.name, job.provided, th, team, mem, calls, oracle, results, seen>>

\* The cases whose report must be right in one direction or the other; the
\* README says why it is not in the rest.
Watched == DOMAIN ObservedByMacros \cup DOMAIN AlwaysTooLittle
Truthful == DOMAIN AlwaysTooLittle \cup DOMAIN Memory \cup DOMAIN ObservedByData

(* The macros around the calls, or an unconditional report, miss no run in    *)
(* which MPI was misused.                                                     *)
WatchedMisuseIsReported == job.name \in Watched => MisuseIsReported

(* Data that could not have arrived without the misuse, or an unconditional   *)
(* report, accuse no run in which MPI was used as it must be.                 *)
TruthfulReportsAreTrue == job.name \in Truthful => ReportsAreTrue
-----------------------------------------------------------------------------
\* The cases the runs leave out, but for correct/two_collectives_4 and
\* correct/request_reuse, whose code does not rule out what they do wrong.
LeftOut ==
  [isend_3 |-> DataRaceIsend3, correct_isend_3 |-> CorrectDataRaceIsend3,
   correct_info_set |-> CorrectInfoSet,
   correct_private_bcast |-> CorrectPrivateBcast, correct_private_ibcast |-> CorrectPrivateIbcast,
   two_collectives_3 |-> TwoCollectives3, two_collectives_5 |-> TwoCollectives5,
   two_collectives_6 |-> TwoCollectives6, two_collectives_7 |-> TwoCollectives7,
   two_collectives_8 |-> TwoCollectives8,
   correct_two_collectives_6 |-> CorrectTwoCollectives6,
   correct_two_collectives_7 |-> CorrectTwoCollectives7, request_reuse |-> RequestReuse]

RulesOutTheRest(c) ==
  (\A r \in Ranks : IsTeam(c.code[r])) /\ SafelyLabelled(c) /\ OverlapWatched(c)

\* What the theorems of HybridMPI_proofs ask of the code of a case.
ASSUME CasesAssumption ==
  /\ \A n \in DOMAIN Corrected : RulesOutTheRest(Corrected[n])
  /\ \A n \in DOMAIN AllErrors : RulesOutTheRest(AllErrors[n])
  /\ \A n \in DOMAIN LeftOut : RulesOutTheRest(LeftOut[n])
  /\ \A n \in DOMAIN FixedThreading : QuietByDesign(FixedThreading[n])
  /\ \A n \in DOMAIN FixedOrdering \ {"probe"} : QuietByDesign(FixedOrdering[n])
  /\ \A n \in DOMAIN FixedThreading : RulesOutMisuse(FixedThreading[n])
  /\ \A n \in {"two_collectives", "two_collectives_2", "two_collectives_5"} : RulesOutMisuse(FixedOrdering[n])
  /\ \A n \in DOMAIN AlwaysTooLittle \cup DOMAIN SometimesWrong : RulesOutMisuse(AllErrors[n])
  /\ Cardinality({n \in DOMAIN AllErrors : RulesOutMisuse(AllErrors[n])}) = 32
-----------------------------------------------------------------------------
\* Cases whose findings the README lists, alone.
ReduceAlone == [reduce |-> DataRaceReduce]
CorrectIsendAlone == [correct_isend |-> CorrectDataRaceIsend]
CorrectDeadlockProbeAlone == [correct_deadlock_probe |-> CorrectDeadlockProbe]
SameBufferAlone == [same_buffer |-> SendRecvSameBuffer]
=============================================================================
