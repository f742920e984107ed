\* One agent, two threads, two commands, clock 0..6.  Seconds of two ticks, a
\* skew of 0 whole seconds (so a window of one truncated second) and a
\* retention that exceeds window + stall by nothing at all.
SPECIFICATION RequestSpec
CONSTANTS
  a = a
  cap = cap
  k1 = k1
  k2 = k2
  None = None
  Name <- MCName
  Capability <- MCCapability
  Command = {c1, c2}
  Message <- MCMessage
  Request <- MCRequest
  Thread = {t1, t2}
  TrustedKey = k1
  TicksPerSecond = 2
  MaxSkew = 0
  Retention = 3
  MaxStall = 1
  StartTime = 0
  MaxTime = 6
INVARIANTS
  TypeOK
  NoReplay
  LiftedStaysLifted
  EntriesBacked
PROPERTIES
  NothingLivePassed
  LeaseSpec
