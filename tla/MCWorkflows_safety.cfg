\* Every workflow component with its faults: two workers, two conversations or pauses.
SPECIFICATION Spec
CONSTANTS
  Parts = {"debates", "review", "saves", "waivers", "kickoff", "kickoffs", "planning", "gateway", "turns", "restarts", "steering", "publication"}
  Workers = {w1, w2}
  Bodies = {b1, b2}
  Things = {t1, t2}
  Size = 2
  Crashes = 1
  Amount = 3
  Charges = {1, 2}
  MaxExcess = 1
SYMMETRY Symmetric
CHECK_DEADLOCK FALSE
INVARIANTS
  DebateBudgetHeld
  AmbiguityStopsTheRun
  ReviewAndRunAgree
  PlanMaterialisedOnce
  StaffingApplied
  
  RunHasOneWriter
  HoldsAreOutstanding
  SequentialOverrunBounded
  OneSpeaker
  SpendWithinPolicy
  SuspendedRunKeepsBudget
  StoppedRunWritesOnce
PROPERTIES
  PaidCallsAreLeasedWork
  StaleWorkerHarmless
  ApprovedForGood
  IntentsAreLeasedWork
  NewerWorkStands
  HeadMovesForward
