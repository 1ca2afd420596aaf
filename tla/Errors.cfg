SPECIFICATION Spec
CONSTANT Program <- Errors
INVARIANTS TypeOK NoOverlapUncounted OnlyTheLabelledMisuse WatchedMisuseIsReported TruthfulReportsAreTrue DeadlockIsRecorded BlocksOnlyIfLabelled
CHECK_DEADLOCK FALSE
VIEW View
