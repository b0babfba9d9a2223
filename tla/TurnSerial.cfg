SPECIFICATION FairSpec
CONSTANTS
  m1 = m1
  m2 = m2
  NoRun = NoRun
  Users = {m1, m2}
  Notices = {}
  Retries = {}
  GoNows = {}
  MaxOps = 1
  MaxEsc = 0
  MaxIter = 3
  MaxBatch = 2
  MaxCalls = 3
  Asks = TRUE
  Faults = {}
INVARIANTS TypeOK ChatWellFormed DiskFollows
PROPERTIES QueuedIsServed
CHECK_DEADLOCK FALSE
