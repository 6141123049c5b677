\* The watchdog and a revocation of the device race; the revocation is repeated once.
SPECIFICATION Spec
CONSTANTS
  r1 = r1
  r2 = r2
  Runs <- OneRun
  SendWindow = 1
  MaxFrames = 0
  MaxReplays = 1
  MaxFaults = 0
  Environment = {"watchdog_stop", "revoke"}
CHECK_DEADLOCK FALSE
INVARIANTS
  TypeOK
PROPERTIES
  EvidenceMovesForward
  NothingSentAfterStop
