SPECIFICATION Spec
CONSTANTS
  c1 = c1
  w1 = w1
  w2 = w2
  Nobody = Nobody
  Coordinators = {c1}
  Workers = {w1, w2}
  Existing = {}
  Gestures = {"spawn", "disconnect", "retire", "seedfail", "stop", "fail", "lag", "restart"}
  MaxCalls = 1
  MaxAttaches = 1
  MaxQueue = 1
  MaxRestarts = 1
INVARIANTS FleetOnDisk
SYMMETRY Symmetry
CHECK_DEADLOCK FALSE
