SPECIFICATION Spec
CONSTANTS
  c1 = c1
  c2 = c2
  w1 = w1
  Nobody = Nobody
  Coordinators = {c1, c2}
  Workers = {w1}
  Existing = {w1}
  Gestures = {"attach", "restart"}
  MaxCalls = 1
  MaxAttaches = 1
  MaxQueue = 1
  MaxRestarts = 1
INVARIANTS SoleOwner
CHECK_DEADLOCK FALSE
