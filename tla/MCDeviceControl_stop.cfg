\* One run stopped by its owner or the watchdog, any one fault, a repeated request.
SPECIFICATION Spec
CONSTANTS
  r1 = r1
  r2 = r2
  Runs <- OneRun
  SendWindow = 2
  MaxFrames = 2
  MaxReplays = 1
  MaxFaults = 1
  Environment = {"project_stop", "watchdog_stop", "runner_crash", "disconnect", "commit_lost", "unreaped"}
CHECK_DEADLOCK FALSE
INVARIANTS
  ExitProofIsTrue
  EvidenceEndsRun
PROPERTIES
  RecordOutlivesReport
