CONSTANTS
  Calls = {c1, c2}
  Agents = {a1}
  Contacts = {k1}
  NoAgent = NoAgent
  NoContact = NoContact
  Causes = {}
  ChannelEvents <- CustomerAnswers
  DetectsVoicemail = TRUE
  ManualOutcomes = {"answered"}
SPECIFICATION Spec
SYMMETRY Symmetric
INVARIANTS
  OneInteractiveCallPerAgent
  OneActiveCallPerContact
  InteractiveAgentIsBusy
  NoLeakedReservation
  OpenLeadIsNotCallable
  ReleasedStaysBackground
  ReportsAgree
CONSTRAINT OneIsMarked
