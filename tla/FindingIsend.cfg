SPECIFICATION Spec
CONSTANT Program <- CorrectIsendAlone
INVARIANTS OnlyTheLabelledMisuse
VIEW View
