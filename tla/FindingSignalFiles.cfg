SPECIFICATION Spec
CONSTANT Program <- ReduceAlone
INVARIANTS DeniedIsRecordedAbsent
VIEW View
