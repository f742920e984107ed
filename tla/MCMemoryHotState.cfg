\* Window of 2, lateness 1, TTLs of 2 on a clock 0..4, u32 of 0..3.
SPECIFICATION Spec
CONSTANTS
  k = k
  e = e
  i1 = i1
  Key = {k}
  Item = {i1}
  Entity = {e}
  Timestamp <- MCTimestamp
  Lateness = 1
  Window = 2
  ItemTtl = 2
  RiskTtl = 2
  Points <- MCPoints
  MaxScore = 3
  MaxTime = 4
  MaxHits = 4
  MaxAdds = 3
INVARIANTS
  WindowOffByLateness
  DistinctExact
  RiskIsStreak
