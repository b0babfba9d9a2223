SPECIFICATION FairSpec
CONSTANTS
  c1 = c1
  w1 = w1
  w2 = w2
  Nobody = Nobody
  Coordinators = {c1}
  Workers = {w1, w2}
  Existing = {}
  Gestures = {"spawn", "disconnect", "retire", "seedfail"}
  MaxCalls = 1
  MaxAttaches = 1
  MaxQueue = 1
  MaxRestarts = 0
INVARIANTS TypeOK BeliefRight
PROPERTIES CoordinatorHears FeederKeepsLinks
CHECK_DEADLOCK FALSE
