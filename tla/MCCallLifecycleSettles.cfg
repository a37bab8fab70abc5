CONSTANTS
  Calls = {c1}
  Agents = {a1}
  Contacts = {k1}
  NoAgent = NoAgent
  NoContact = NoContact
  Requests = {r1}
  FaultKinds = {"connection", "crash"}
  MaxFaults = 1
  MaxBacklog = 1
SPECIFICATION FairSpec
INVARIANT TypeOK
PROPERTY Settles
