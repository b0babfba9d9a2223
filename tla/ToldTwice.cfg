SPECIFICATION BridgeSpec
CONSTANTS
  k1 = k1
  s1 = s1
  Conns = {1}
  Calls = {k1}
  Streams = {s1}
  MaxEvents = 1
INVARIANTS AnsweredOnce
CHECK_DEADLOCK FALSE
