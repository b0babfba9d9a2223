SPECIFICATION FairSpec
CONSTANTS
  m1 = m1
  m2 = m2
  n = n
  NoRun = NoRun
  Users = {m1, m2}
  Notices = {n}
  Retries = {}
  GoNows = {}
  MaxOps = 1
  MaxEsc = 1
  MaxIter = 1
  MaxBatch = 1
  MaxCalls = 1
  Asks = TRUE
  Faults = {}
INVARIANTS LoopReachable
PROPERTIES TurnsEnd
CHECK_DEADLOCK FALSE
