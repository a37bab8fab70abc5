SPECIFICATION FollowUpSpec
CONSTANTS
  Users = {u1}
  Nobody = Nobody
  Fetches = {x1, x2}
  MaxChanges = 1
  MaxTroubles = 1
  Handlers = {h1, h2}
  Phones = {"agent"}
  MaxUpdates = 1
  MaxOutages = 1
INVARIANTS FollowUpTypeOK
PROPERTIES DeskIsSound DeskRecovers DirectoryFollowsAccount
CHECK_DEADLOCK FALSE
