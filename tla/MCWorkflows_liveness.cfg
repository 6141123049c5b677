\* What must eventually happen in these workflow components, under their fairness.
SPECIFICATION FairSpec
CONSTANTS
  Parts = {"debates", "review", "waived", "kickoff", "planning", "restarts", "steering"}
  Workers = {w1}
  Bodies = {b1, b2}
  Things = {t1}
  Size = 1
  Crashes = 0
  Amount = 3
  Charges = {1, 2}
  MaxExcess = 1
CHECK_DEADLOCK FALSE
PROPERTIES
  WorkSettles
  TurnsSettle
  AnswersReachAgent
