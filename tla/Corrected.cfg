SPECIFICATION Spec
CONSTANT Program <- Corrected
INVARIANTS OnlyTheLabelledMisuse CorrectNeverReported
PROPERTY Completes
CHECK_DEADLOCK FALSE
VIEW View
