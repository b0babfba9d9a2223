SPECIFICATION Spec
CONSTANTS
  c1 = c1
  c2 = c2
  w1 = w1
  Nobody = Nobody
  Coordinators = {c1, c2}
  Workers = {w1}
  Existing = {w1}
  Gestures = {"attach"}
  MaxCalls = 2
  MaxAttaches = 2
  MaxQueue = 1
  MaxRestarts = 0
PROPERTIES NeverStolen
CHECK_DEADLOCK FALSE
