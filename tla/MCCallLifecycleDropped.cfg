CONSTANTS
  Calls = {c1}
  Agents = {a1}
  Contacts = {k1}
  NoAgent = NoAgent
  NoContact = NoContact
  Requests = {r1}
  FaultKinds = {}
  MaxFaults = 0
  MaxBacklog = 2
SPECIFICATION Spec
INVARIANT DroppedMeansHeard
