SPECIFICATION Spec
CONSTANTS
  c1 = c1
  w1 = w1
  Nobody = Nobody
  Coordinators = {c1}
  Workers = {w1}
  Existing = {}
  Gestures = {"spawn", "disconnect", "stop"}
  MaxCalls = 1
  MaxAttaches = 1
  MaxQueue = 1
  MaxRestarts = 0
INVARIANTS BeliefRight
CHECK_DEADLOCK FALSE
