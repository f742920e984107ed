SPECIFICATION Spec
CONSTANTS
  Publisher = {"p", "q"}
  RingSize = 2
  MaxBacklog = 2
  MaxEvents = 4
  MaxBatch = 2
PROPERTIES
  DetectorCatchesUp
CHECK_DEADLOCK FALSE
