SPECIFICATION Spec
CONSTANTS
  c1 = c1
  c2 = c2
  w1 = w1
  w2 = w2
  Nobody = Nobody
  Coordinators = {c1, c2}
  Workers = {w1, w2}
  Existing = {w2}
  Gestures = {"spawn", "attach", "disconnect", "retire", "restart"}
  MaxCalls = 2
  MaxAttaches = 1
  MaxQueue = 1
  MaxRestarts = 1
SYMMETRY Symmetry
CONSTRAINT ContestOrGrowth
INVARIANTS LinksControlled OneFeeder
PROPERTIES NeverStolen
CHECK_DEADLOCK FALSE
