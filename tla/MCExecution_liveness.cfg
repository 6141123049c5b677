\* One run, any two faults, a deadline and cancellation, under fairness.
SPECIFICATION FairSpec
CONSTANTS
  Tasks <- OneTask
  Predecessors <- Independent
  Conflicts <- Independent
  Owners = {o1}
  None = None
  MaxConcurrentTasks = 1
  PhaseBudget = 2
  MaxDeliveries = 2
  MaxAttempts = 1
  MaxClaims = 2
  MaxFaults = 2
  SendWindow = 2
  Environment = {"disconnect", "runner_crash", "server_crash", "slow_lease", "commit_lost", "expiry",
                 "cancel_phase", "emergency_stop"}
PROPERTIES
  RunSettles
  MoneyReturns
