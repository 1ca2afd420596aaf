SPECIFICATION FairSpec
CONSTANT Ranks = {0, 1}
INVARIANTS
  TypeOK
  RecordedAbsentOnlyIfOrdered
  OrderedRunBelieved
PROPERTIES
  ObservesOrder
  EventuallyRecorded
CHECK_DEADLOCK FALSE
