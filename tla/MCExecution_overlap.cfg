\* The scope gate: overlapping tasks never run at the same time.
SPECIFICATION Spec
CONSTANTS
  Tasks <- TwoTasks
  Predecessors <- Independent
  Conflicts <- Overlap
  Owners = {o1}
  None = None
  MaxConcurrentTasks = 2
  PhaseBudget = 2
  MaxDeliveries = 2
  MaxAttempts = 2
  MaxClaims = 2
  MaxFaults = 0
  SendWindow = 2
  Environment = {"retry"}
INVARIANTS
  ConflictingTasksExclude
