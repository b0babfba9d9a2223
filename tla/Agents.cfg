SPECIFICATION AgentsSpec
CONSTANTS
  s1 = s1
  s2 = s2
  First = First
  NoOne = NoOne
  Steers = {s1, s2}
  Orders = {}
  SubIters = 1
  SubBatch = 1
  SubOps = 2
  SubFaults = {{"stop"}, {"provider", "folder"}}
  t1 = t1
  t2 = t2
  ParentTurn = ParentTurn
  Tasks = {t1, t2}
  MaxTurns = 1
  MaxSettling = 2
  TaskFaults = {"provider", "cap", "stop", "delete", "restart"}
INVARIANTS SubagentOK TasksOK ReportOnce UserIsTold
PROPERTIES AgentsSettle
CHECK_DEADLOCK FALSE
