SPECIFICATION Spec
CONSTANTS
  Publisher = {"p", "q"}
  RingSize = 2
  MaxBacklog = 2
  MaxEvents = 4
  MaxBatch = 2
INVARIANTS
  DetectorHasNoGap
  BacklogIsNewest
PROPERTIES
  FeedCatchesUp
CHECK_DEADLOCK FALSE
