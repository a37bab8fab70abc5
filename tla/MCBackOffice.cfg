SPECIFICATION BackOfficeSpec
CONSTANTS
  Calls = {c1}
  Agents = {a1}
  Contacts = {k1, k2}
  NoAgent = NoAgent
  NoContact = NoContact
  Causes = {"normal", "canceled", "busy", "no_answer", "error"}
  ChannelEvents <- AllChannelEvents
  DetectsVoicemail = TRUE
  ManualOutcomes = {"failed", "agent_canceled", "answered"}
  Sessions = {s1, s2}
  Legs = {l1, l2}
  Tabs = {t1, t2}
  Nothing = Nothing
  MaxDoubts = 1
  MaxMishaps = 1
  Runs = {f1}
  MaxClaims = 1
  Requests = {q1, q2, q3}
  NoRequest = NoRequest
  Sweeps = {w1}
  NoSweep = NoSweep
  Recordings = {r1, r2, r3}
  Admins = {t1, t2}
  Dials = {c1}
  NoRecording = NoRecording
  MaxLost = 1
  Effects = {e1, e2}
  Invitations = {i1, i2}
  NoPhone = NoPhone
  Mounts = {m1, m2}
  LegInvites = {i1, i2}
  Monitored = {s1, s2}
  NoLeg = NoLeg
  Jobs = {j1, j2}
  Numbers = {1, 2, 3}
  Values = {v1, v2}
  NoValue = NoValue
  Lists = {"campaign"}
  Files <- ImportedFiles
  ChunkSize = 2
  MaxEdits = 2
  Handlers = {h1, h2}
  Phones = {"supervisor"}
  MaxUpdates = 2
  MaxOutages = 0
  Settings = {a, b, c}
  Environment = a
  Refused = {c}
  MaxAttempts = 2
  MaxSaves = 2
  MaxSlips = 2
  CallIds = {1, 2, 3}
  Times = {1, 2}
  PageSize = 1
  MaxRows = 2
  MaxChanges = 3
  Callers = {a1, a2}
  Leads = {k1, k2}
  NoLead = NoLead
  MaxDials = 1
  MaxReforms = 2
  Asks = {h1, h2}
  PhoneNumbers = {n1}
  AuditRequests = {h1, h2}
  MaxAuditFaults = 2
  Collectors = {o1, o2}
  NoCollector = NoCollector
  UploadEvery = 2
  MaxSamples = 2
  Queries = 3
  MaxDbChanges = 2
  MaxRefreshes = 2
INVARIANTS
  BackOfficeTypeOK OutcomeIsEarned OneMediaRole NoHiddenChannel OneCaptureOperation
  BrowserPhonesAreSound ImportsAreExact RevokedSessionStaysOut SettingsHold LeadsAreSafe
  ExportsAreTrue ListedNumbersAreNotDialed RecordsAreTrue
PROPERTIES ImplementsLedger FirstOutcomeWins LeadFollowsOutcome FilesAndRowsAgree
CHECK_DEADLOCK FALSE
