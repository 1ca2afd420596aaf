SPECIFICATION Spec
CONSTANTS
  Threads = {t1, t2, t3}
  Calls = 2
INVARIANTS
  TypeOK
  FlagCountsBracketed
  NoOverlapUncounted
PROPERTY ObservesOverlap
CHECK_DEADLOCK FALSE
