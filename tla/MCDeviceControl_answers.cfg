\* A stopped run under fairness, any one loss.
SPECIFICATION FairSpec
CONSTANTS
  r1 = r1
  r2 = r2
  Runs <- OneRun
  SendWindow = 2
  MaxFrames = 1
  MaxReplays = 0
  MaxFaults = 1
  Environment = {"project_stop", "disconnect", "runner_crash", "server_crash"}
CHECK_DEADLOCK FALSE
PROPERTIES
  StopIsAnswered
  ExitIsRecorded
