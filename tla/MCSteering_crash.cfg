\* One question, and one crash of the server.
SPECIFICATION FairSpec
CONSTANTS
  Pauses = {}
  Resumes = {}
  MaxWaits = 1
  MaxFaults = 0
  MaxCrashes = 1
CHECK_DEADLOCK FALSE
PROPERTY
  ClaimsSurviveCrash
