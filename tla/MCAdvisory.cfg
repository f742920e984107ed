SPECIFICATION Spec
CONSTANTS
  Any = Any
  None = None
  app = app
  other = other
  inner = inner
  meta = meta
  App = {app, other}
  Capability = {"connect", "revoke"}
  Resource = {inner, meta}
  BundleId = {"baseline", "extra"}
  Bundle <- MCBundle
  Baseline <- MCBaseline
  Task = {1, 2}
  Recommendation <- MCRecommendation
  DerivedFrom <- MCDerivedFrom
  Threshold = 70
  MaxRequests = 3
INVARIANTS
  RuledOutIsNotEnacted
  LogTellsWhatWasEnacted
CHECK_DEADLOCK FALSE
