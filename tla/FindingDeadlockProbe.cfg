SPECIFICATION Spec
CONSTANT Program <- CorrectDeadlockProbeAlone
PROPERTY Completes
CHECK_DEADLOCK FALSE
VIEW View
