SPECIFICATION DeskFairSpec
CONSTANTS
  Users = {u1}
  Nobody = Nobody
  Fetches = {x1, x2}
  MaxChanges = 1
  MaxTroubles = 0
PROPERTY FallbackAlwaysWorks
CHECK_DEADLOCK FALSE
