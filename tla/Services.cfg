SPECIFICATION ServicesSpec
CONSTANTS
  Conns = {1}
  k1 = k1
  o1 = o1
  Calls = {k1}
  Streams = {o1}
  MaxEvents = 1
  r1 = r1
  r2 = r2
  Requests = {r1}
  Rpc = {{}}
  Procs = {r1}
  Stops = {k1, o1}
  BgRaces = {{}, {"twice", "cleanup"}}
  Sessions = {r1, r2}
  MaxTurns = 2
  MaxConns = 2
  Grace = 1
  McpEvents = {{"dies", "late"}, {"disable"}}
  Desktops = {r1, r2}
  Calling = {r1}
  MaxLinks = 2
  LinkTroubles = {{"cut", "double"}}
  Asks = {k1}
  MaxHandshakes = 3
  MaxRestarts = 2
  MaxOverlap = 1
  PhoneTroubles = {{}, {"lost"}}
  s1 = s1
  s2 = s2
  Agents = {s1, s2}
  Bustles = {{"closes"}}
  Roots = {s1, s2}
  FirstRoot = s1
  MaxOps = 3
  Whims = {{"replace"}}
  MaxClicks = 1
  MaxKeys = 1
  MaxWrites = 1
  MaxReloads = 1
  Hands = {{"keys"}}
PROPERTIES ServicesSettle
CHECK_DEADLOCK FALSE
