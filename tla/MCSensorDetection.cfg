\* Ten reports and twelve events of applications, any four of them; a window of 1.
SPECIFICATION SensorSpec
CONSTANTS
  None = None
  a1 = a1
  a2 = a2
  a3 = a3
  a4 = a4
  a5 = a5
  a6 = a6
  App = {a1, a2, a3, a4, a5, a6}
  HashLike = {"64d8f", "db01"}
  AliasKey <- MCAliasKey
  KindOf <- MCKindOf
  AppId <- MCAppId
  Window = 1
  MinStages = 3
  Report <- MCReport
  Telemetry <- MCTelemetry
  Event <- MCEvent
  MaxEvents = 4
INVARIANTS
  IdentityIsConnectivity
  GraphAgreesWithIdentity
  SightsSurviveMerges
  ChainsAreReported
  KnownShellsLeaveATrace
CHECK_DEADLOCK FALSE
