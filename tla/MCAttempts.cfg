\* One task, two dispatchers, any one fault; the two scenarios give Environment.
SPECIFICATION SpecAny
CONSTANTS
  Tasks <- OneTask
  Predecessors <- Independent
  Conflicts <- Independent
  Owners = {o1, o2}
  None = None
  MaxConcurrentTasks = 1
  PhaseBudget = 2
  MaxDeliveries = 2
  MaxAttempts = 2
  MaxClaims = 2
  MaxFaults = 2
  SendWindow = 2
  Environment = {"expiry", "retry", "rework"}
INVARIANTS
  TypeOK
  TerminalCommandHoldsNoMoney
  CompletedTaskIsGreen
PROPERTIES
  ExecutedAtMostOnce
  DeliveryIsFinal
