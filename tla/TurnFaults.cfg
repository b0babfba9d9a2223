SPECIFICATION Spec
CONSTANTS
  m1 = m1
  m2 = m2
  x = x
  NoRun = NoRun
  Users = {m1, m2}
  Notices = {}
  Retries = {x}
  GoNows = {}
  MaxOps = 1
  MaxEsc = 0
  MaxIter = 2
  MaxBatch = 1
  MaxCalls = 1
  Asks = TRUE
  Faults = {"provider"}
INVARIANTS RetryRepairs
CHECK_DEADLOCK FALSE
