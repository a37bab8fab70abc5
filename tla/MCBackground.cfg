SPECIFICATION BackgroundSpec
CONSTANTS
  MaxSize = 2
  MaxEvents = 5
  MaxConnects = 3
  MaxFailures = 2
  MaxFaults = 2
  MaxMishaps = 1
  Runs = {f1, f2}
  MaxClaims = 2
  AgentPhones = {p1}
  SupervisorPhones = {s1}
  MaxMoves = 3
  MaxFailedRuns = 1
INVARIANTS BackgroundTypeOK EventsInOrder NoSilentGap MediaWinsIfKnown
PROPERTIES ListenerRecovers ToneEnds RecordingsAreJudged AgentsAreShownAsTheyAre
CHECK_DEADLOCK FALSE
