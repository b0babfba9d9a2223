SPECIFICATION HubSpec
CONSTANTS
  u1 = u1
  Uploads = {u1}
  Trips = {{"overlap"}}
INVARIANTS NeverTorn
CHECK_DEADLOCK FALSE
