------------------------------ MODULE MCPlain ------------------------------
(***************************************************************************)
(* The single-threaded level-0 programs for TLC, and what their labels     *)
(* claim.  A program is erroneous when it is run without argument; those   *)
(* of conflo are meant to be correct when they are run with one, and those *)
(* of correct always.                                                      *)
(***************************************************************************)
EXTENDS PlainMpi, ConfloCollCases, ConfloPt2ptCases, ConfloRmaCases, ConfloTypeCases,
        CorrectCollCases, CorrectPt2ptCases, CorrectStridedCases

Coll ==
  [ArgErrorMPIAllgatherCommunicator1 |-> ArgErrorMPIAllgatherCommunicator1,
   ArgErrorMPIAllgatherCommunicator2 |-> ArgErrorMPIAllgatherCommunicator2,
   ArgErrorMPIAllgatherCount1 |-> ArgErrorMPIAllgatherCount1,
   ArgErrorMPIAllgatherCount2 |-> ArgErrorMPIAllgatherCount2,
   ArgErrorMPIAllgatherCount3 |-> ArgErrorMPIAllgatherCount3,
   ArgErrorMPIAllgatherCount4 |-> ArgErrorMPIAllgatherCount4,
   ArgErrorMPIAllgatherRecvBuffer1 |-> ArgErrorMPIAllgatherRecvBuffer1,
   ArgErrorMPIAllgatherRecvBuffer2 |-> ArgErrorMPIAllgatherRecvBuffer2,
   ArgErrorMPIAllgatherSendBuffer |-> ArgErrorMPIAllgatherSendBuffer,
   ArgErrorMPIAllgatherType1 |-> ArgErrorMPIAllgatherType1,
   ArgErrorMPIAllgatherType2 |-> ArgErrorMPIAllgatherType2,
   ArgErrorMPIAllgatherType3 |-> ArgErrorMPIAllgatherType3,
   ArgErrorMPIAllgatherType4 |-> ArgErrorMPIAllgatherType4,
   ArgErrorMPIGatherCommunicator1 |-> ArgErrorMPIGatherCommunicator1,
   ArgErrorMPIGatherCommunicator2 |-> ArgErrorMPIGatherCommunicator2,
   ArgErrorMPIGatherCount1 |-> ArgErrorMPIGatherCount1,
   ArgErrorMPIGatherCount2 |-> ArgErrorMPIGatherCount2,
   ArgErrorMPIGatherCount3 |-> ArgErrorMPIGatherCount3,
   ArgErrorMPIGatherDest1 |-> ArgErrorMPIGatherDest1,
   ArgErrorMPIGatherDest2 |-> ArgErrorMPIGatherDest2,
   ArgErrorMPIGatherRecvBuffer1 |-> ArgErrorMPIGatherRecvBuffer1,
   ArgErrorMPIGatherRecvBuffer2 |-> ArgErrorMPIGatherRecvBuffer2,
   ArgErrorMPIGatherSendBuffer |-> ArgErrorMPIGatherSendBuffer,
   ArgErrorMPIGatherType1 |-> ArgErrorMPIGatherType1,
   ArgErrorMPIGatherType2 |-> ArgErrorMPIGatherType2,
   ArgErrorMPIGatherType3 |-> ArgErrorMPIGatherType3,
   ArgErrorMPIGatherType4 |-> ArgErrorMPIGatherType4,
   ArgMismatchMPIGatherType1 |-> ArgMismatchMPIGatherType1,
   ArgMismatchMPIGatherType2 |-> ArgMismatchMPIGatherType2,
   ArgErrorMPIReduceCommunicator1 |-> ArgErrorMPIReduceCommunicator1,
   ArgErrorMPIReduceCommunicator2 |-> ArgErrorMPIReduceCommunicator2,
   ArgErrorMPIReduceCount1 |-> ArgErrorMPIReduceCount1,
   ArgErrorMPIReduceCount2 |-> ArgErrorMPIReduceCount2,
   ArgErrorMPIReduceCount3 |-> ArgErrorMPIReduceCount3,
   ArgErrorMPIReduceCount3a |-> ArgErrorMPIReduceCount3a,
   ArgErrorMPIReduceOp1 |-> ArgErrorMPIReduceOp1,
   ArgErrorMPIReduceOp2 |-> ArgErrorMPIReduceOp2,
   ArgErrorMPIReduceRecvBuffer |-> ArgErrorMPIReduceRecvBuffer,
   ArgErrorMPIReduceRoot |-> ArgErrorMPIReduceRoot,
   ArgErrorMPIReduceSendBuffer |-> ArgErrorMPIReduceSendBuffer,
   ArgErrorMPIReduceType1 |-> ArgErrorMPIReduceType1,
   ArgErrorMPIReduceType2 |-> ArgErrorMPIReduceType2,
   ArgErrorMPIReduceType3 |-> ArgErrorMPIReduceType3,
   ArgMismatchMPIReduceCount |-> ArgMismatchMPIReduceCount,
   ArgMismatchMPIReduceOp |-> ArgMismatchMPIReduceOp,
   ArgMismatchMPIReduceroot |-> ArgMismatchMPIReduceroot,
   ArgErrorMPIScatterCommunicator1 |-> ArgErrorMPIScatterCommunicator1,
   ArgErrorMPIScatterCommunicator2 |-> ArgErrorMPIScatterCommunicator2,
   ArgErrorMPIScatterCount1 |-> ArgErrorMPIScatterCount1,
   ArgErrorMPIScatterCount1a |-> ArgErrorMPIScatterCount1a,
   ArgErrorMPIScatterCount2 |-> ArgErrorMPIScatterCount2,
   ArgErrorMPIScatterCount3 |-> ArgErrorMPIScatterCount3,
   ArgErrorMPIScatterCount4 |-> ArgErrorMPIScatterCount4,
   ArgErrorMPIScatterRank |-> ArgErrorMPIScatterRank,
   ArgErrorMPIScatterRecvBuffer |-> ArgErrorMPIScatterRecvBuffer,
   ArgErrorMPIScatterSendBuffer |-> ArgErrorMPIScatterSendBuffer,
   ArgErrorMPIScatterType1 |-> ArgErrorMPIScatterType1,
   ArgErrorMPIScatterType2 |-> ArgErrorMPIScatterType2,
   ArgErrorMPIScatterType3 |-> ArgErrorMPIScatterType3,
   MisplacedCallMPIBarrierDeadlock1 |-> MisplacedCallMPIBarrierDeadlock1,
   MisplacedCallMPIBarrierDeadlock2 |-> MisplacedCallMPIBarrierDeadlock2,
   MissingCallMPIGatherDeadlock |-> MissingCallMPIGatherDeadlock,
   MissingCallMPIIBcast |-> MissingCallMPIIBcast,
   MissingCallMPIReduceDeadlock |-> MissingCallMPIReduceDeadlock]

Pt2pt ==
  [ArgErrorMPIIRecvBuffer1 |-> ArgErrorMPIIRecvBuffer1,
   ArgErrorMPIIRecvCommunicator1 |-> ArgErrorMPIIRecvCommunicator1,
   ArgErrorMPIIRecvCommunicator2 |-> ArgErrorMPIIRecvCommunicator2,
   ArgErrorMPIIRecvCount1 |-> ArgErrorMPIIRecvCount1,
   ArgErrorMPIIRecvCount2 |-> ArgErrorMPIIRecvCount2,
   ArgErrorMPIIRecvRank1 |-> ArgErrorMPIIRecvRank1,
   ArgErrorMPIIRecvRank2 |-> ArgErrorMPIIRecvRank2,
   ArgErrorMPIIRecvRequest |-> ArgErrorMPIIRecvRequest,
   ArgErrorMPIIRecvTag |-> ArgErrorMPIIRecvTag,
   ArgErrorMPIIRecvType1 |-> ArgErrorMPIIRecvType1,
   ArgErrorMPIIRecvType2 |-> ArgErrorMPIIRecvType2,
   ArgErrorMPIIRecvType3 |-> ArgErrorMPIIRecvType3,
   ArgErrorMPIIRecvType3a |-> ArgErrorMPIIRecvType3a,
   ArgErrorMPIISendBuffer |-> ArgErrorMPIISendBuffer,
   ArgErrorMPIISendCommunicator1 |-> ArgErrorMPIISendCommunicator1,
   ArgErrorMPIISendCommunicator2 |-> ArgErrorMPIISendCommunicator2,
   ArgErrorMPIISendCount1 |-> ArgErrorMPIISendCount1,
   ArgErrorMPIISendCount2 |-> ArgErrorMPIISendCount2,
   ArgErrorMPIISendRank1 |-> ArgErrorMPIISendRank1,
   ArgErrorMPIISendRank2 |-> ArgErrorMPIISendRank2,
   ArgErrorMPIISendRequest1 |-> ArgErrorMPIISendRequest1,
   ArgErrorMPIISendTag1 |-> ArgErrorMPIISendTag1,
   ArgErrorMPIISendTag2 |-> ArgErrorMPIISendTag2,
   ArgErrorMPIISendType1 |-> ArgErrorMPIISendType1,
   ArgErrorMPIISendType2 |-> ArgErrorMPIISendType2,
   ArgErrorMPIISendType3 |-> ArgErrorMPIISendType3,
   ArgErrorMPIRecvBuffer |-> ArgErrorMPIRecvBuffer,
   ArgErrorMPIRecvCommunicator1 |-> ArgErrorMPIRecvCommunicator1,
   ArgErrorMPIRecvCommunicator2 |-> ArgErrorMPIRecvCommunicator2,
   ArgErrorMPIRecvCount1 |-> ArgErrorMPIRecvCount1,
   ArgErrorMPIRecvCount2 |-> ArgErrorMPIRecvCount2,
   ArgErrorMPIRecvRank1 |-> ArgErrorMPIRecvRank1,
   ArgErrorMPIRecvRank2 |-> ArgErrorMPIRecvRank2,
   ArgErrorMPIRecvTag |-> ArgErrorMPIRecvTag,
   ArgErrorMPIRecvType1 |-> ArgErrorMPIRecvType1,
   ArgErrorMPIRecvType2 |-> ArgErrorMPIRecvType2,
   ArgErrorMPIRecvType3 |-> ArgErrorMPIRecvType3,
   ArgErrorMPISendBuffer |-> ArgErrorMPISendBuffer,
   ArgErrorMPISendCommunicator1 |-> ArgErrorMPISendCommunicator1,
   ArgErrorMPISendCommunicator2 |-> ArgErrorMPISendCommunicator2,
   ArgErrorMPISendCount1 |-> ArgErrorMPISendCount1,
   ArgErrorMPISendCount2 |-> ArgErrorMPISendCount2,
   ArgErrorMPISendCount3 |-> ArgErrorMPISendCount3,
   ArgErrorMPISendRank1 |-> ArgErrorMPISendRank1,
   ArgErrorMPISendRank2 |-> ArgErrorMPISendRank2,
   ArgErrorMPISendTag1 |-> ArgErrorMPISendTag1,
   ArgErrorMPISendTag2 |-> ArgErrorMPISendTag2,
   ArgErrorMPISendType2 |-> ArgErrorMPISendType2,
   ArgErrorMPISendType3 |-> ArgErrorMPISendType3,
   ArgErrorMPITestFlagduplicate |-> ArgErrorMPITestFlagduplicate,
   ArgErrorMPITestFlag |-> ArgErrorMPITestFlag,
   ArgErrorMPITestStatus |-> ArgErrorMPITestStatus,
   ArgMismatchMPIIRecvTag1 |-> ArgMismatchMPIIRecvTag1,
   ArgMismatchMPIRecvTag2 |-> ArgMismatchMPIRecvTag2,
   ArgMismatchMPIIRecvTag2 |-> ArgMismatchMPIIRecvTag2,
   ArgMismatchMPIRecvTag1 |-> ArgMismatchMPIRecvTag1,
   ArgMismatchMPIRecvTag3 |-> ArgMismatchMPIRecvTag3,
   ArgMismatchMPIISendCommunicator3 |-> ArgMismatchMPIISendCommunicator3,
   ArgMismatchMPISendCommunicator1 |-> ArgMismatchMPISendCommunicator1,
   ArgMismatchMPISendCommunicator2 |-> ArgMismatchMPISendCommunicator2,
   ArgMismatchMPIISendType |-> ArgMismatchMPIISendType,
   ArgMismatchMPIIrecvbufferoverlap |-> ArgMismatchMPIIrecvbufferoverlap,
   ArgMismatchMPIRecvType1 |-> ArgMismatchMPIRecvType1,
   ArgMismatchMPIRecvType2 |-> ArgMismatchMPIRecvType2,
   ArgMismatchMPIRecvType7 |-> ArgMismatchMPIRecvType7,
   MisplacedCallMPIRecvDeadlock1 |-> MisplacedCallMPIRecvDeadlock1,
   MisplacedCallMPIRecvDeadlock2 |-> MisplacedCallMPIRecvDeadlock2,
   MisplacedCallMPIRecvDeadlock4 |-> MisplacedCallMPIRecvDeadlock4,
   MisplacedCallMPISend |-> MisplacedCallMPISend,
   MisplacedCallMPIWait |-> MisplacedCallMPIWait,
   MissingCallMPIFinalize |-> MissingCallMPIFinalize,
   MissingCallMPIRecv |-> MissingCallMPIRecv,
   MissingCallMPISendDeadlock |-> MissingCallMPISendDeadlock,
   MissingCallMPIWait |-> MissingCallMPIWait]

Rma ==
  [ArgErrorMPIGetSizeNotMatching |-> ArgErrorMPIGetSizeNotMatching,
   ArgErrorMPIGetbuffer |-> ArgErrorMPIGetbuffer,
   ArgErrorMPIGetinvalidAccess |-> ArgErrorMPIGetinvalidAccess,
   ArgErrorMPIGetrank |-> ArgErrorMPIGetrank,
   ArgErrorMPIPutInvalidAccess |-> ArgErrorMPIPutInvalidAccess,
   ArgErrorMPIPutSizeNotMatching |-> ArgErrorMPIPutSizeNotMatching,
   ArgErrorMPIPutbuffer |-> ArgErrorMPIPutbuffer,
   ArgErrorMPIPutcount |-> ArgErrorMPIPutcount,
   ArgErrorMPIPutrank |-> ArgErrorMPIPutrank,
   ArgErrorMPIWinFenceassert |-> ArgErrorMPIWinFenceassert,
   ArgMismatchMPIGettype |-> ArgMismatchMPIGettype,
   ArgMismatchMPIPuttype |-> ArgMismatchMPIPuttype,
   ArgErrorMPIWinCreateOverwriteWin |-> ArgErrorMPIWinCreateOverwriteWin,
   ArgErrorMPIWinCreateoverlap |-> ArgErrorMPIWinCreateoverlap,
   ArgErrorMPIWinCreatedispUnit |-> ArgErrorMPIWinCreatedispUnit,
   ArgErrorMPIWinCreateinvalidBuffer1 |-> ArgErrorMPIWinCreateinvalidBuffer1,
   ArgErrorMPIWinCreateinvalidBuffer2 |-> ArgErrorMPIWinCreateinvalidBuffer2,
   ArgErrorMPIWinCreatesize |-> ArgErrorMPIWinCreatesize,
   MisplacedCallMPIGetbufferModification |-> MisplacedCallMPIGetbufferModification,
   MisplacedCallMPIPutbufferModification |-> MisplacedCallMPIPutbufferModification,
   MisplacedCallMPIWinFence1 |-> MisplacedCallMPIWinFence1,
   MisplacedCallMPIWinFence2 |-> MisplacedCallMPIWinFence2,
   MisplacedCallMPIWinFreebufferFree |-> MisplacedCallMPIWinFreebufferFree,
   MisplacedCallMPIWinLock |-> MisplacedCallMPIWinLock,
   MissingCallMPIFence |-> MissingCallMPIFence,
   MissingCallMPIWinCreate |-> MissingCallMPIWinCreate,
   MissingCallMPIWinFence1 |-> MissingCallMPIWinFence1,
   MissingCallMPIWinFence2 |-> MissingCallMPIWinFence2,
   MissingCallMPIWinFence3 |-> MissingCallMPIWinFence3]

Usertypes ==
  [ArgErrorMPISendType1 |-> ArgErrorMPISendType1,
   ArgErrorMPISendType4 |-> ArgErrorMPISendType4,
   ArgErrorMPITypeContiguousCount |-> ArgErrorMPITypeContiguousCount,
   ArgErrorMPITypeContiguousNewType |-> ArgErrorMPITypeContiguousNewType,
   ArgErrorMPITypeContiguousOldType |-> ArgErrorMPITypeContiguousOldType,
   ArgErrorMPITypeVectorBlocklength |-> ArgErrorMPITypeVectorBlocklength,
   ArgErrorMPITypeVectorCount |-> ArgErrorMPITypeVectorCount,
   ArgErrorMPITypeVectorNewType |-> ArgErrorMPITypeVectorNewType,
   ArgErrorMPITypeVectorOldType |-> ArgErrorMPITypeVectorOldType,
   ArgErrorMPITypeCreateHVectorStride |-> ArgErrorMPITypeCreateHVectorStride,
   ArgErrorMPITypeCreateStructBlocklengths |-> ArgErrorMPITypeCreateStructBlocklengths,
   ArgErrorMPITypeCreateStructCount1 |-> ArgErrorMPITypeCreateStructCount1,
   ArgErrorMPITypeCreateStructCount2 |-> ArgErrorMPITypeCreateStructCount2,
   ArgErrorMPITypeCreateStructCount3 |-> ArgErrorMPITypeCreateStructCount3,
   ArgErrorMPITypeCreateStructDatatype1 |-> ArgErrorMPITypeCreateStructDatatype1,
   ArgErrorMPITypeCreateStructDatatype2 |-> ArgErrorMPITypeCreateStructDatatype2,
   ArgErrorMPITypeCreateStructDisplacements1 |-> ArgErrorMPITypeCreateStructDisplacements1,
   ArgErrorMPITypeCreateStructDisplacements2 |-> ArgErrorMPITypeCreateStructDisplacements2,
   UserArgMismatchMPIRecvType2 |-> UserArgMismatchMPIRecvType2,
   UserArgMismatchMPIRecvType3 |-> UserArgMismatchMPIRecvType3,
   UserArgMismatchMPIRecvType4 |-> UserArgMismatchMPIRecvType4,
   UserArgMismatchMPIRecvType5 |-> UserArgMismatchMPIRecvType5,
   UserArgMismatchMPIRecvType6 |-> UserArgMismatchMPIRecvType6,
   MisplacedCallMPITypeCommit1 |-> MisplacedCallMPITypeCommit1,
   MissingCallMPITypeCommit |-> MissingCallMPITypeCommit]

ConfloColl ==
  [ConfloArgErrorMPIAllgatherSendCount |-> ConfloArgErrorMPIAllgatherSendCount,
   ConfloArgErrorMPIGatherDest |-> ConfloArgErrorMPIGatherDest,
   ConfloArgErrorMPIGatherRecvBuffer |-> ConfloArgErrorMPIGatherRecvBuffer,
   ConfloArgErrorMPIGatherRecvCount |-> ConfloArgErrorMPIGatherRecvCount,
   ConfloArgErrorMPIGatherRecvType |-> ConfloArgErrorMPIGatherRecvType,
   ConfloArgErrorMPIGatherSendBuffer |-> ConfloArgErrorMPIGatherSendBuffer,
   ConfloArgErrorMPIGatherSendCount1 |-> ConfloArgErrorMPIGatherSendCount1,
   ConfloArgErrorMPIGatherSendCount2 |-> ConfloArgErrorMPIGatherSendCount2,
   ConfloArgErrorMPIGatherSendType |-> ConfloArgErrorMPIGatherSendType,
   ConfloArgErrorMPIReduceCommunicator |-> ConfloArgErrorMPIReduceCommunicator,
   ConfloArgErrorMPIReduceCount |-> ConfloArgErrorMPIReduceCount,
   ConfloArgErrorMPIReduceOp1 |-> ConfloArgErrorMPIReduceOp1,
   ConfloArgErrorMPIReduceOp2 |-> ConfloArgErrorMPIReduceOp2,
   ConfloArgErrorMPIReduceOp3 |-> ConfloArgErrorMPIReduceOp3,
   ConfloArgErrorMPIReduceOp4 |-> ConfloArgErrorMPIReduceOp4,
   ConfloArgErrorMPIReduceRecvBuffer |-> ConfloArgErrorMPIReduceRecvBuffer,
   ConfloArgErrorMPIReduceRoot |-> ConfloArgErrorMPIReduceRoot,
   ConfloArgErrorMPIReduceSendBuffer |-> ConfloArgErrorMPIReduceSendBuffer,
   ConfloArgErrorMPIScatterCount1 |-> ConfloArgErrorMPIScatterCount1,
   ConfloArgErrorMPIScatterCount2 |-> ConfloArgErrorMPIScatterCount2,
   ConfloArgMismatchMPIReduceCount |-> ConfloArgMismatchMPIReduceCount,
   ConfloArgMismatchMPIReduceOp |-> ConfloArgMismatchMPIReduceOp,
   ConfloArgMismatchMPIReduceroot |-> ConfloArgMismatchMPIReduceroot,
   ConfloMisplacedCallMPIBarrierDeadlock1 |-> ConfloMisplacedCallMPIBarrierDeadlock1,
   ConfloMissingCallMPIGatherDeadlock |-> ConfloMissingCallMPIGatherDeadlock,
   ConfloMissingCallMPIIBcast |-> ConfloMissingCallMPIIBcast,
   ConfloMissingCallMPIReduceDeadlock |-> ConfloMissingCallMPIReduceDeadlock]

ConfloPt2pt ==
  [ConfloArgErrorMPIIRecvReqest |-> ConfloArgErrorMPIIRecvReqest,
   ConfloArgErrorMPIISendBuffer |-> ConfloArgErrorMPIISendBuffer,
   ConfloArgErrorMPIISendCommunicator1 |-> ConfloArgErrorMPIISendCommunicator1,
   ConfloArgErrorMPIISendCommunicator2 |-> ConfloArgErrorMPIISendCommunicator2,
   ConfloArgErrorMPIISendCommunicator3 |-> ConfloArgErrorMPIISendCommunicator3,
   ConfloArgErrorMPIISendCount1 |-> ConfloArgErrorMPIISendCount1,
   ConfloArgErrorMPIISendCount2 |-> ConfloArgErrorMPIISendCount2,
   ConfloArgErrorMPIISendCount4 |-> ConfloArgErrorMPIISendCount4,
   ConfloArgErrorMPIISendRequest |-> ConfloArgErrorMPIISendRequest,
   ConfloArgErrorMPIISendTag |-> ConfloArgErrorMPIISendTag,
   ConfloArgErrorMPIISendTargetRank |-> ConfloArgErrorMPIISendTargetRank,
   ConfloArgErrorMPIISendType |-> ConfloArgErrorMPIISendType,
   ConfloArgErrorMPIRecvBuffer |-> ConfloArgErrorMPIRecvBuffer,
   ConfloArgErrorMPIRecvCommunicator |-> ConfloArgErrorMPIRecvCommunicator,
   ConfloArgErrorMPIRecvCount |-> ConfloArgErrorMPIRecvCount,
   ConfloArgErrorMPIRecvType1 |-> ConfloArgErrorMPIRecvType1,
   ConfloArgErrorMPIRecvType2 |-> ConfloArgErrorMPIRecvType2,
   ConfloArgErrorMPIRecvType3 |-> ConfloArgErrorMPIRecvType3,
   ConfloArgErrorMPISendBuffer |-> ConfloArgErrorMPISendBuffer,
   ConfloArgErrorMPISendCommunicator1 |-> ConfloArgErrorMPISendCommunicator1,
   ConfloArgErrorMPISendCommunicator2 |-> ConfloArgErrorMPISendCommunicator2,
   ConfloArgErrorMPISendCommunicator3 |-> ConfloArgErrorMPISendCommunicator3,
   ConfloArgErrorMPISendCount1 |-> ConfloArgErrorMPISendCount1,
   ConfloArgErrorMPISendCount2 |-> ConfloArgErrorMPISendCount2,
   ConfloArgErrorMPISendCount3 |-> ConfloArgErrorMPISendCount3,
   ConfloArgErrorMPISendRank |-> ConfloArgErrorMPISendRank,
   ConfloArgErrorMPISendTag1 |-> ConfloArgErrorMPISendTag1,
   ConfloArgErrorMPISendTag2 |-> ConfloArgErrorMPISendTag2,
   ConfloArgErrorMPISendType2 |-> ConfloArgErrorMPISendType2,
   ConfloArgErrorMPISendType3 |-> ConfloArgErrorMPISendType3,
   ConfloArgErrorMPITestFlag |-> ConfloArgErrorMPITestFlag,
   ConfloArgErrorMPITestStatus |-> ConfloArgErrorMPITestStatus,
   ConfloArgMismatchMPIIRecvTag2 |-> ConfloArgMismatchMPIIRecvTag2,
   ConfloArgMismatchMPIRecvTag1 |-> ConfloArgMismatchMPIRecvTag1,
   ConfloArgMismatchMPIRecvTag3 |-> ConfloArgMismatchMPIRecvTag3,
   ConfloArgMismatchMPIIrecvbufferoverlap |-> ConfloArgMismatchMPIIrecvbufferoverlap,
   ConfloMisplacedCallMPIRecvDeadlock1 |-> ConfloMisplacedCallMPIRecvDeadlock1,
   ConfloMisplacedCallMPIRecvDeadlock4 |-> ConfloMisplacedCallMPIRecvDeadlock4,
   ConfloMisplacedCallMPISend |-> ConfloMisplacedCallMPISend,
   ConfloMisplacedCallMPIWait |-> ConfloMisplacedCallMPIWait,
   ConfloMissingCallMPIFinalize |-> ConfloMissingCallMPIFinalize,
   ConfloMissingCallMPIRecv |-> ConfloMissingCallMPIRecv,
   ConfloMissingCallMPISendDeadlock |-> ConfloMissingCallMPISendDeadlock,
   ConfloMissingCallMPIWait |-> ConfloMissingCallMPIWait]

ConfloRma ==
  [ConfloArgErrorMPIGetSizeNotMatching |-> ConfloArgErrorMPIGetSizeNotMatching,
   ConfloArgErrorMPIGetbuffer |-> ConfloArgErrorMPIGetbuffer,
   ConfloArgErrorMPIGetrank |-> ConfloArgErrorMPIGetrank,
   ConfloArgErrorMPIGetinvalidAccess |-> ConfloArgErrorMPIGetinvalidAccess,
   ConfloArgErrorMPIGettype |-> ConfloArgErrorMPIGettype,
   ConfloArgErrorMPIPutInvalidAccess |-> ConfloArgErrorMPIPutInvalidAccess,
   ConfloArgErrorMPIPutSizeNotMatching |-> ConfloArgErrorMPIPutSizeNotMatching,
   ConfloArgErrorMPIPutbuffer |-> ConfloArgErrorMPIPutbuffer,
   ConfloArgErrorMPIPutcount |-> ConfloArgErrorMPIPutcount,
   ConfloArgErrorMPIPutrank |-> ConfloArgErrorMPIPutrank,
   ConfloArgErrorMPIPuttype |-> ConfloArgErrorMPIPuttype,
   ConfloArgErrorMPIWinCreateOverwriteWin |-> ConfloArgErrorMPIWinCreateOverwriteWin,
   ConfloArgErrorMPIWinCreateoverlap |-> ConfloArgErrorMPIWinCreateoverlap,
   ConfloArgErrorMPIWinCreatedispUnit |-> ConfloArgErrorMPIWinCreatedispUnit,
   ConfloArgErrorMPIWinCreateinvalidBuffer1 |-> ConfloArgErrorMPIWinCreateinvalidBuffer1,
   ConfloArgErrorMPIWinCreatesize |-> ConfloArgErrorMPIWinCreatesize,
   ConfloArgErrorMPIWinFenceassert |-> ConfloArgErrorMPIWinFenceassert,
   ConfloMisplacedCallMPIGetbufferModification |-> ConfloMisplacedCallMPIGetbufferModification,
   ConfloMisplacedCallMPIPutbufferModification |-> ConfloMisplacedCallMPIPutbufferModification,
   ConfloMisplacedCallMPIWinFence1 |-> ConfloMisplacedCallMPIWinFence1,
   ConfloMisplacedCallMPIWinFence2 |-> ConfloMisplacedCallMPIWinFence2,
   ConfloMisplacedCallMPIWinFreebufferFree |-> ConfloMisplacedCallMPIWinFreebufferFree,
   ConfloMisplacedCallMPIWinLock |-> ConfloMisplacedCallMPIWinLock,
   ConfloMissingCallMPIFence |-> ConfloMissingCallMPIFence,
   ConfloMissingCallMPIWinCreate |-> ConfloMissingCallMPIWinCreate,
   ConfloMissingCallMPIWinFence1 |-> ConfloMissingCallMPIWinFence1,
   ConfloMissingCallMPIWinFence2 |-> ConfloMissingCallMPIWinFence2,
   ConfloMissingCallMPIWinFence3 |-> ConfloMissingCallMPIWinFence3]

ConfloUsertypes ==
  [ConfloArgErrorMPIRecvCount2 |-> ConfloArgErrorMPIRecvCount2,
   ConfloArgErrorMPISendType1 |-> ConfloArgErrorMPISendType1,
   ConfloArgErrorMPISendType4 |-> ConfloArgErrorMPISendType4,
   ConfloArgErrorMPITypeContiguousCount |-> ConfloArgErrorMPITypeContiguousCount,
   ConfloArgErrorMPITypeContiguousOldType |-> ConfloArgErrorMPITypeContiguousOldType,
   ConfloArgErrorMPITypeContiguousNewType |-> ConfloArgErrorMPITypeContiguousNewType,
   ConfloArgErrorMPITypeVectorNewType |-> ConfloArgErrorMPITypeVectorNewType,
   ConfloArgErrorMPITypeVectorBlocklength |-> ConfloArgErrorMPITypeVectorBlocklength,
   ConfloArgErrorMPITypeVectorCount |-> ConfloArgErrorMPITypeVectorCount,
   ConfloArgErrorMPITypeVectorOldType |-> ConfloArgErrorMPITypeVectorOldType,
   ConfloArgErrorMPITypeCreateHVectorStride |-> ConfloArgErrorMPITypeCreateHVectorStride,
   ConfloArgErrorMPITypeCreateStructCount1 |-> ConfloArgErrorMPITypeCreateStructCount1,
   ConfloArgErrorMPITypeCreateStructCount2 |-> ConfloArgErrorMPITypeCreateStructCount2,
   ConfloArgErrorMPITypeCreateStructDatatype |-> ConfloArgErrorMPITypeCreateStructDatatype,
   ConfloArgErrorMPITypeCreateStructDisplacements1 |-> ConfloArgErrorMPITypeCreateStructDisplacements1,
   ConfloArgErrorMPITypeCreateStructDisplacements2 |-> ConfloArgErrorMPITypeCreateStructDisplacements2,
   ConfloArgMismatchMPIRecvType3 |-> ConfloArgMismatchMPIRecvType3,
   ConfloArgMismatchMPIRecvType4 |-> ConfloArgMismatchMPIRecvType4,
   ConfloMisplacedCallMPITypeCommit1 |-> ConfloMisplacedCallMPITypeCommit1,
   ConfloMissingCallMPITypeCommit |-> ConfloMissingCallMPITypeCommit]

CorrectColl ==
  [allgather2 |-> allgather2,
   allgather3 |-> allgather3,
   allgatherv2 |-> allgatherv2,
   allgatherv3 |-> allgatherv3,
   allgather_struct |-> allgather_struct,
   allred2 |-> allred2,
   allred6 |-> allred6,
   allred3 |-> allred3,
   allred4 |-> allred4,
   allred5 |-> allred5,
   allredmany |-> allredmany,
   longuser |-> longuser,
   iallred |-> iallred,
   ibarrier |-> ibarrier,
   alltoall1 |-> alltoall1,
   alltoallv |-> alltoallv,
   alltoallw2 |-> alltoallw2,
   alltoallv0 |-> alltoallv0,
   alltoallw1 |-> alltoallw1,
   alltoallw_zeros |-> alltoallw_zeros,
   bcasttest |-> bcasttest,
   bcastzerotype |-> bcastzerotype,
   coll2 |-> coll2,
   coll3 |-> coll3,
   coll4 |-> coll4,
   coll5 |-> coll5,
   coll6 |-> coll6,
   coll7 |-> coll7,
   coll8 |-> coll8,
   coll9 |-> coll9,
   coll10 |-> coll10,
   coll11 |-> coll11,
   scantst |-> scantst,
   coll12 |-> coll12,
   coll13 |-> coll13,
   exscan |-> exscan,
   exscan2 |-> exscan2,
   gather |-> gather,
   gather2 |-> gather2,
   scattern |-> scattern,
   nonblocking |-> nonblocking,
   red3 |-> red3,
   red4 |-> red4,
   reduce |-> reduce,
   uoplong |-> uoplong,
   redscat |-> redscat,
   redscat2 |-> redscat2,
   redscat3 |-> redscat3,
   redscatblk3 |-> redscatblk3,
   red_scat_block2 |-> red_scat_block2,
   red_scat_block |-> red_scat_block,
   opmax |-> opmax,
   opmin |-> opmin,
   opsum |-> opsum,
   opprod |-> opprod,
   opmaxloc |-> opmaxloc,
   opminloc |-> opminloc,
   icbarrier |-> icbarrier]

CorrectPt2pt ==
  [anyall |-> anyall,
   bottom |-> bottom,
   bsend1 |-> bsend1,
   bsend2 |-> bsend2,
   bsend3 |-> bsend3,
   bsend4 |-> bsend4,
   bsendalign |-> bsendalign,
   bsendpending |-> bsendpending,
   cancelanysrc |-> cancelanysrc,
   rcancel |-> rcancel,
   scancel2 |-> scancel2,
   issendselfcancel |-> issendselfcancel,
   dtype_send |-> dtype_send,
   manylmt |-> manylmt,
   huge_anysrc |-> huge_anysrc,
   huge_dupcomm |-> huge_dupcomm,
   huge_underflow |-> huge_underflow,
   inactivereq |-> inactivereq,
   isendirecv |-> isendirecv,
   isendself |-> isendself,
   isendselfprobe |-> isendselfprobe,
   many_isend |-> many_isend,
   large_tag |-> large_tag,
   patterns |-> patterns,
   probe_unexp |-> probe_unexp,
   recv_any |-> recv_any,
   rqfreeb |-> rqfreeb,
   rqstatus |-> rqstatus,
   sendall |-> sendall,
   sendrecv |-> sendrecv,
   sendrecv3 |-> sendrecv3,
   srtest |-> srtest]

CorrectRma ==
  [getgroup |-> getgroup,
   baseattrwin |-> baseattrwin,
   wincall |-> wincall,
   window_creation |-> window_creation,
   win_zero |-> win_zero,
   winname |-> winname,
   manyrma3 |-> manyrma3,
   manyget |-> manyget,
   large_small_acc |-> large_small_acc,
   accfence2 |-> accfence2,
   accfence2_am |-> accfence2_am,
   acc_loc |-> acc_loc,
   fence_shm |-> fence_shm,
   test1 |-> test1,
   test1_am |-> test1_am,
   test2 |-> test2,
   test2_am |-> test2_am,
   wintest |-> wintest,
   test3 |-> test3,
   test3_am |-> test3_am,
   test4 |-> test4,
   test4_am |-> test4_am,
   test5 |-> test5,
   test5_am |-> test5_am,
   nullpscw |-> nullpscw,
   at_complete |-> at_complete,
   pscw_ordering |-> pscw_ordering]

CorrectLock ==
  [get_acc_local |-> get_acc_local,
   lock_nested |-> lock_nested,
   locknull |-> locknull,
   flush |-> flush,
   compare_and_swap |-> compare_and_swap,
   lockopts |-> lockopts,
   lockcontention2 |-> lockcontention2,
   rget_unlock |-> rget_unlock,
   req_example |-> req_example,
   racc_local_comp |-> racc_local_comp,
   rput_local_comp |-> rput_local_comp,
   reqops |-> reqops,
   rmazero |-> rmazero,
   mixedsync |-> mixedsync,
   get_accumulate |-> get_accumulate,
   fetch_and_op |-> fetch_and_op,
   atomic_get |-> atomic_get,
   atomic_rmw_cas |-> atomic_rmw_cas,
   atomic_rmw_fop |-> atomic_rmw_fop,
   atomic_rmw_gacc |-> atomic_rmw_gacc]

CorrectStrided ==
  [strided_acc_onelock |-> strided_acc_onelock,
   strided_acc_subarray |-> strided_acc_subarray,
   strided_acc_indexed |-> strided_acc_indexed,
   strided_putget_indexed |-> strided_putget_indexed,
   strided_getacc_indexed |-> strided_getacc_indexed,
   strided_putget_indexed_shared |-> strided_putget_indexed_shared,
   strided_getacc_indexed_shared |-> strided_getacc_indexed_shared,
   strided_get_indexed |-> strided_get_indexed,
   put_base |-> put_base,
   put_bottom |-> put_bottom,
   acc_pairtype |-> acc_pairtype,
   contig_displ |-> contig_displ,
   selfrma |-> selfrma,
   test1_dt |-> test1_dt,
   acc_ordering |-> acc_ordering,
   win_flavors |-> win_flavors,
   win_info |-> win_info,
   win_large_shm |-> win_large_shm,
   win_shared_query_null |-> win_shared_query_null]

Level0 == Coll @@ Pt2pt @@ Rma @@ Usertypes
          @@ ConfloColl @@ ConfloPt2pt @@ ConfloRma @@ ConfloUsertypes @@ CorrectColl @@ CorrectPt2pt
          @@ CorrectRma @@ CorrectLock @@ CorrectStrided
-----------------------------------------------------------------------------
\* Programs that are not as they are labelled; the README explains each.

\* Nothing is wrong with them.
Benign ==
  {"ArgErrorMPIIRecvTag", "ArgErrorMPIRecvTag", "ArgErrorMPITypeCreateStructCount3",
   "ArgErrorMPIWinCreateoverlap", "ArgErrorMPIWinFenceassert", "UserArgMismatchMPIRecvType2",
   "UserArgMismatchMPIRecvType3", "UserArgMismatchMPIRecvType6",
   "ConfloArgErrorMPITypeCreateStructCount1", "ConfloArgErrorMPIWinCreateoverlap"}
\* Nothing is wrong if -1 is MPI_PROC_NULL, if -1 is MPI_ANY_SOURCE, if a tag
\* may be as large as the key MPI_TAG_UB, if NULL is MPI_STATUS_IGNORE.
BenignIfProcNull == {"ArgErrorMPIGetrank", "ArgErrorMPIPutrank", "ConfloArgErrorMPIPutrank"}
BenignIfAnySource == {"ArgErrorMPIRecvRank1"}
BenignIfTagFits == {"ArgErrorMPISendTag2", "ConfloArgErrorMPISendTag2"}
BenignIfStatusIgnore == {"ArgErrorMPITestStatus", "ConfloArgErrorMPITestStatus"}
Harmless ==
  Benign \cup (IF job.lib.proc_null = -1 THEN BenignIfProcNull ELSE {})
         \cup (IF job.lib.any_source = -1 THEN BenignIfAnySource ELSE {})
         \cup (IF job.lib.keyval_tag_fits THEN BenignIfTagFits ELSE {})
         \cup (IF job.lib.null_status THEN BenignIfStatusIgnore ELSE {})

\* They block or not, as the library buffers messages and leaves collectives early.
Unsafe ==
  {"MisplacedCallMPIBarrierDeadlock2", "MisplacedCallMPIRecvDeadlock2", "MisplacedCallMPIRecvDeadlock4",
   "MisplacedCallMPIWinFence2", "ConfloMisplacedCallMPIRecvDeadlock4", "ConfloMisplacedCallMPIWinFence2"}

\* Erroneous also when they are run with an argument.
StillWrong ==
  {"ConfloArgErrorMPIReduceOp3", "ConfloArgErrorMPIScatterCount1", "ConfloArgErrorMPIScatterCount2",
   "ConfloArgErrorMPIIRecvReqest", "ConfloArgErrorMPISendType3", "ConfloMisplacedCallMPISend",
   "ConfloArgErrorMPIGetSizeNotMatching", "ConfloArgErrorMPIGetbuffer", "ConfloArgErrorMPIGetrank",
   "ConfloArgErrorMPIPutSizeNotMatching", "ConfloArgErrorMPIPutbuffer", "ConfloArgErrorMPIPutcount",
   "ConfloMisplacedCallMPIWinFence1", "ConfloMisplacedCallMPIWinFence2",
   "ConfloArgErrorMPISendType1", "ConfloArgErrorMPITypeContiguousNewType",
   "ConfloArgErrorMPITypeVectorNewType", "ConfloArgErrorMPITypeCreateStructCount1",
   "ConfloArgErrorMPITypeCreateStructCount2", "ConfloArgErrorMPITypeCreateStructDisplacements1",
   "ConfloArgMismatchMPIRecvType3", "ConfloMisplacedCallMPITypeCommit1"}
\* Erroneous though they are meant to be correct: an operation on MPI_CHAR that MPI
\* does not define, displacements of the wrong unit, communicators that are lost,
\* ints as characters, several receives or a receive and a send on one buffer at
\* once, a receive that is never completed; the memory of a window freed before
\* the window, several gets into one buffer at once, an origin buffer that leaves
\* its block too early, a lock while the epoch of a fence is open, stores to a
\* window whose fetches are completed only locally.
NotCorrect ==
  {"opmax", "opmin", "opsum", "opprod", "nonblocking", "alltoallv0",
   "recv_any", "dtype_send", "inactivereq", "patterns", "sendrecv3", "rqfreeb",
   "accfence2", "contig_displ", "fetch_and_op", "manyget", "mixedsync", "reqops", "test2", "test2_am",
   "test3", "test3_am", "winname", "wintest"}
StillWrongHere == StillWrong \cup NotCorrect \cup (IF job.lib.keyval_tag_fits THEN {} ELSE {"ConfloArgErrorMPISendTag2"})

\* The misuse is of another kind than the file name says.
Mislabelled ==
  {"ArgErrorMPIIRecvType3a", "ArgErrorMPIReduceCount3", "ArgErrorMPIIRecvRank2", "ArgErrorMPIISendRank1",
   "ArgErrorMPISendRank2", "ArgErrorMPIISendTag2", "ArgErrorMPIRecvRank1", "ArgErrorMPIWinCreateOverwriteWin",
   "ConfloArgErrorMPIWinCreateOverwriteWin", "ArgErrorMPIWinCreateinvalidBuffer2",
   "ConfloArgMismatchMPIRecvType4", "MisplacedCallMPITypeCommit1", "ConfloMisplacedCallMPITypeCommit1",
   "MissingCallMPIGatherDeadlock", "ConfloMissingCallMPIGatherDeadlock", "MissingCallMPITypeCommit",
   "ConfloMissingCallMPITypeCommit", "ConfloMissingCallMPIWinCreate"}

\* The ways in which a category of the file names misuses MPI.
Meant == [ArgError |-> {"argument"},
          ArgMismatch |-> {"argument", "mismatch", "busy", "stuck"},
          MisplacedCall |-> {"order", "busy", "stuck"},
          MissingCall |-> {"order", "lost", "busy", "unfinished", "stuck"}]
-----------------------------------------------------------------------------
Erroneous == job.argc = 1 /\ job.label # Correct

(* Under every library and in every interleaving, an erroneous program ends   *)
(* with a misuse of MPI, except for the harmless ones, which end without;     *)
(* only the unsafe ones may end either way.                                   *)
ErrorIsProvoked ==
  over /\ Erroneous /\ job.name \notin Unsafe => ((seen = {}) <=> (job.name \in Harmless))

(* A program of conflo that is run with an argument, and one of correct, uses *)
(* MPI correctly, except for those that are still wrong, which end with a     *)
(* misuse always.                                                             *)
GoodCaseIsGood ==
  over /\ ~Erroneous => ((seen # {}) <=> (job.name \in StillWrongHere))

(* The misuse is one that the category in the file name stands for.           *)
LabelTellsTheMisuse ==
  Erroneous /\ job.name \notin Mislabelled => seen \subseteq Meant[job.label]
=============================================================================
