SPECIFICATION Spec
CONSTANTS
  NumJobs = 2
  Cases = {"err", "corr"}
  Erroneous = {"err"}
  MaxKilled = 1
  MaxRequeued = 1
  BareRuns <- BareRunBound
  ToolRuns <- ToolRunBound
INVARIANTS
  TypeOK
  ResultsAreFinal
  ParsingJobIsComplete
  AbsentOnlyIfSignalled
  TableIsSum
  GatheringFailsOnlyAfterFailure
  VerdictIsStrongest
