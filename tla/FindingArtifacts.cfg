SPECIFICATION Spec
CONSTANTS
  Tools = {"MUST", "MPI-Checker"}
  GivenCategory = {"MUST"}
  Categories = {"coll", "correct"}
  Merged = {"coll"}
  CasesOf <- CaseLists
  Erroneous = {"reduce", "gather"}
  Measured = {"reduce"}
  MaxCalls = 2
  RunsOf <- RunBound
INVARIANT OnlyMissingAdded
CHECK_DEADLOCK FALSE
