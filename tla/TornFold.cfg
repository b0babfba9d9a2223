SPECIFICATION LogSpec
CONSTANTS
  MaxLines = 4
  Races = {{"usage", "crash", "torn"}}
INVARIANTS NothingVanishes
CHECK_DEADLOCK FALSE
