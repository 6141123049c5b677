\* One review that is parked at two gates in a row.
SPECIFICATION Spec
CONSTANTS
  Parts = {"review"}
  Workers = {w1}
  Bodies = {b1, b2}
  Things = {t1}
  Size = 2
  Crashes = 0
  Amount = 3
  Charges = {1, 2}
  MaxExcess = 1
CHECK_DEADLOCK FALSE
PROPERTY
  ParkKeepsPlan
