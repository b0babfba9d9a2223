SPECIFICATION Spec
CONSTANTS
  m1 = m1
  m2 = m2
  NoRun = NoRun
  Users = {m1, m2}
  Notices = {}
  Retries = {}
  GoNows = {}
  MaxOps = 2
  MaxEsc = 0
  MaxIter = 1
  MaxBatch = 1
  MaxCalls = 1
  Asks = TRUE
  Faults = {}
INVARIANTS SingleLoop
CHECK_DEADLOCK FALSE
