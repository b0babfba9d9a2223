SPECIFICATION PartsSpec
CONSTANTS
  Keep = 1
  BatchSize = 2
  MaxIds = 6
  Profiles = {{"kill"}, {"compact", "resume"}}
  MaxLines = 4
  Races = {{"usage", "revert"}, {"usage", "crash", "revert"}, {"delete"}}
  a = a
  b = b
  c = c
  Uploads = {a, b}
  Trips = {{}, {"crash", "offline"}}
  Readers = {a, b}
  Commands = {c}
  TTL = 2
  MaxClock = 4
  Unlocked = Unlocked
  Callers = {a, b}
  MaxServers = 3
  MaxClosers = 2
  SpawnRaces = {{}, {"lag", "early"}}
  MaxEdits = 3
  MaxRespawns = 1
  Overlaps = {{"late"}}
  Requests = {a, b}
  Rpc = {{"unarmed", "garbled"}, {"late"}, {"mute"}}
  Conns = {1, 2}
  Calls = {a}
  Streams = {b}
  MaxEvents = 1
  Procs = {a, b}
  Stops = {a, b}
  BgRaces = {{}, {"twice", "cleanup"}}
  Sessions = {a, b}
  MaxTurns = 2
  MaxConns = 3
  Grace = 1
  McpEvents = {{"dies", "late"}, {"delete", "disable"}, {"flip"}}
  Desktops = {a, b}
  Calling = {a}
  MaxLinks = 4
  LinkTroubles = {{}}
  Asks = {a, b}
  MaxHandshakes = 5
  MaxRestarts = 2
  MaxOverlap = 1
  PhoneTroubles = {{}, {"lost"}}
  Window = 3
  Receivers = {a, b}
  MaxNumber = 6
  Agents = {a, b, c}
  Bustles = {{}, {"closes"}, {"closes", "fails"}}
  Roots = {a, b}
  FirstRoot = a
  MaxOps = 3
  Whims = {{}, {"replace", "mkdir"}, {"replace", "rename"}, {"busy"}}
  MaxClicks = 1
  MaxKeys = 2
  MaxWrites = 1
  MaxReloads = 1
  Hands = {{"keys", "hidden"}, {"stale"}, {"late"}}
INVARIANTS
  ChatKept FitToAsk FileWhole SyncOK CacheOK LspOK RpcOK BridgeOK BackgroundOK McpOK
  AttachOK CompanionOK WindowOK TerminalsOK WatcherOK BuffersOK
PROPERTIES WakesRight
CHECK_DEADLOCK FALSE
