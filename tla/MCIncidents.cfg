\* Three events and at most three signals, evidence of two, a u32 of 0..120.
SPECIFICATION Spec
CONSTANTS
  None = None
  alice = alice
  ip = ip
  app = app
  Event <- MCEvent
  Rules <- MCRules
  MaxEvidence = 2
  MaxScore = 120
  MaxEvents = 3
  MaxRaised = 3
INVARIANTS
  CopiesAgree
  EachSignalOnce
  EvidenceIsLatest
PROPERTIES
  NewOnlyAfterClosed
  SeverityFallsOnlyOnce
CHECK_DEADLOCK FALSE
