\* One key of each kind, two clients, three calls, one cut off; a window of 2, TTLs of 2.
SPECIFICATION Spec
CONSTANTS
  a = a
  b = b
  k = k
  s = s
  e = e
  i1 = i1
  Forever = Forever
  Client = {a, b}
  Key = {k}
  SetKey = {s}
  Entity = {e}
  Item = {i1}
  Points = {2}
  Timestamp <- MCTimestamp
  Window = 2
  KeyTtl = 2
  ItemTtl = 2
  RiskTtl = 2
  MaxScore = 4
  Resettable = {k}
  MaxCalls = 3
  MaxCuts = 1
INVARIANTS
  RecentIsCounted
  RecentRiskCounts
  LeakNeedsACut
PROPERTIES
  RiskFades
