SPECIFICATION Spec
CONSTANTS
  m1 = m1
  m2 = m2
  NoRun = NoRun
  Users = {m1, m2}
  Notices = {}
  Retries = {}
  GoNows = {m1, m2}
  MaxOps = 2
  MaxEsc = 1
  MaxIter = 1
  MaxBatch = 1
  MaxCalls = 1
  Asks = TRUE
  Faults = {"disk"}
SYMMETRY Symmetry
INVARIANTS Conserved SlotOwned
CHECK_DEADLOCK FALSE
