SPECIFICATION Spec
CONSTANTS
  x = x
  y = y
  i = i
  Statements = {x, y}
  Identities = {i}
  Signals <- OneIdentity
  Callers = {c1, c2}
  Aggregates = TRUE
  AcceptThreshold = 2
  MaxEvidenceIds = 2
  MaxDeliveries = 3
  MaxFaults = 0
  None = None
INVARIANTS
  CountsStoredEvidence
CHECK_DEADLOCK FALSE
