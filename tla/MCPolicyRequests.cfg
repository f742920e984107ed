\* Clock 0..2, a sweep every two ticks and dispatches at 0 only; a TTL of one tick, so
\* that an expired command waits for its sweep.
SPECIFICATION RequestSpec
CONSTANTS
  short = short
  long = long
  cap = cap
  app = app
  res = res
  None = None
  Any = Any
  Name <- MCName
  Capability <- MCCapability
  App <- MCApp
  Resource <- MCResource
  BundleId <- MCBundleId
  Bundle <- MCBundle
  Baseline <- MCBaseline
  Contained <- MCContained
  Question <- MCQuestion
  Client = {p1}
  Command = {c1, c2}
  DispatchRequest <- MCDispatchRequest
  SweepPeriod = 2
  SweepLag = 1
  DispatchStall = 1
  StartTime = 0
  MaxTime = 2
  LastDispatch = 0
  MaxEpoch = 1
INVARIANTS
  RevocationsAreCurrent
  DenyIsNeverMissed
CHECK_DEADLOCK FALSE
