\* Two runs on one device, one of them stopped.
SPECIFICATION Spec
CONSTANTS
  r1 = r1
  r2 = r2
  Runs <- TwoRuns
  SendWindow = 2
  MaxFrames = 0
  MaxReplays = 0
  MaxFaults = 0
  Environment = {"project_stop"}
CHECK_DEADLOCK FALSE
INVARIANTS
  WindowNeverStalls
