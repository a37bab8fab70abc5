CONSTANTS
  Calls = {c1}
  Agents = {a1}
  Contacts = {k1}
  NoAgent = NoAgent
  NoContact = NoContact
  Requests = {r1, r2}
  FaultKinds = {"command", "statement"}
  MaxFaults = 1
  MaxBacklog = 2
SPECIFICATION Spec
SYMMETRY Symmetric
INVARIANTS
  ReleasedAgentIsOffTheLine
  NoDoubleTransfer
