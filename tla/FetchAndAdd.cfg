SPECIFICATION Spec
CONSTANTS
  NProcs = 4
  Depth = 2
  Pow <- PowersOfTwo
  NTIMES = 2
INVARIANTS TypeOK MeetOnce
PROPERTIES ImplementsCounter EventuallyPasses
