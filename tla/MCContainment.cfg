\* Clock 0..4, a sweep every tick and up to one tick late, skew window of
\* two ticks, and a retention that is exactly window + stall.
SPECIFICATION SystemSpec
CONSTANTS
  a = a
  cap = cap
  None = None
  Name <- MCName
  Capability <- MCCapability
  Command = {c1, c2}
  DispatchRequest <- MCDispatchRequest
  SweepPeriod = 1
  SweepLag = 1
  DispatchStall = 1
  StartTime = 0
  MaxTime = 4
  LastDispatch = 1
  MaxEpoch = 1
  Offset <- MCOffset
  Request <- MCRequest
  Thread = {t1}
  TicksPerSecond = 1
  MaxSkew = 1
  Retention = 3
  GuardStall = 1
INVARIANTS
  EnforcedIsOnRecord
PROPERTIES
  OutcomeSettled
  EveryCommandEnds
  GuardSpec
