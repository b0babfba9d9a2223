SPECIFICATION SubSpec
CONSTANTS
  s1 = s1
  s2 = s2
  First = First
  NoOne = NoOne
  Steers = {s1, s2}
  Orders = {}
  SubIters = 2
  SubBatch = 1
  SubOps = 1
  SubFaults = {{"stop"}}
INVARIANTS ResumedWellFormed
CHECK_DEADLOCK FALSE
