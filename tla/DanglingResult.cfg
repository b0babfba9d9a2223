SPECIFICATION TranscriptSpec
CONSTANTS
  Keep = 1
  BatchSize = 2
  MaxIds = 5
  Profiles = {{"kill", "compact"}}
INVARIANTS FitToAsk
CHECK_DEADLOCK FALSE
