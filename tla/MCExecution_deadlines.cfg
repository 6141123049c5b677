\* Two attempts of one task: deadlines, human retries and rework.
SPECIFICATION Spec
CONSTANTS
  Tasks <- OneTask
  Predecessors <- Independent
  Conflicts <- Independent
  Owners = {o1}
  None = None
  MaxConcurrentTasks = 1
  PhaseBudget = 2
  MaxDeliveries = 2
  MaxAttempts = 2
  MaxClaims = 2
  MaxFaults = 0
  SendWindow = 2
  Environment = {"expiry", "retry", "rework"}
INVARIANTS
  LiveRunIsDesignated
  ParkedPhaseIsQuiet
PROPERTIES
  TerminalRunsFrozen
