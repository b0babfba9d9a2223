SPECIFICATION McpSpec
CONSTANTS
  s1 = s1
  Sessions = {s1}
  MaxTurns = 2
  MaxConns = 3
  Grace = 1
  McpEvents = {{}}
PROPERTIES GraceKept
CHECK_DEADLOCK FALSE
