SPECIFICATION Spec
CONSTANTS
  m1 = m1
  m2 = m2
  NoRun = NoRun
  Users = {m1, m2}
  Notices = {}
  Retries = {}
  GoNows = {}
  MaxOps = 1
  MaxEsc = 1
  MaxIter = 1
  MaxBatch = 1
  MaxCalls = 1
  Asks = TRUE
  Faults = {}
INVARIANTS ShapeOK
CHECK_DEADLOCK FALSE
