SPECIFICATION SuppressionSpec
CONSTANTS
  Asks = {h1, h2}
  PhoneNumbers = {n1, n2}
INVARIANT EvidenceIsComplete
CHECK_DEADLOCK FALSE
