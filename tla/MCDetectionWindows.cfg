\* Thresholds of two and three, a window of two ticks, events up to one tick late, a TTL
\* of one tick for routes; times 0 to 3 and four events.
SPECIFICATION WindowsSpec
CONSTANTS
  None = None
  Key <- MCKey
  Item = {"/x", "/y"}
  Entity <- MCEntity
  Timestamp = {0, 1, 2, 3}
  Lateness = 1
  Window = 2
  ItemTtl = 1
  RiskTtl = 2
  Points = {}
  MaxScore = 100
  MaxTime = 1
  MaxHits = 4
  MaxAdds = 4
  EventKind <- MCEventKind
  Threshold <- MCThreshold
  DistinctThreshold = 2
  MaxEvaluated = 4
INVARIANTS
  SignalsFollowBursts
CHECK_DEADLOCK FALSE
