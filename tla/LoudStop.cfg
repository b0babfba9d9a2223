SPECIFICATION TaskSpec
CONSTANTS
  t1 = t1
  t2 = t2
  ParentTurn = ParentTurn
  Tasks = {t1, t2}
  MaxTurns = 1
  MaxSettling = 2
  TaskFaults = {"stop"}
INVARIANTS StoppedIsSilent
CHECK_DEADLOCK FALSE
