SPECIFICATION Spec
CONSTANTS
  x = x
  y = y
  i = i
  Statements = {x, y}
  Identities = {i}
  Signals <- SomeSignals
  Callers = {c1}
  Aggregates = TRUE
  AcceptThreshold = 2
  MaxEvidenceIds = 2
  MaxDeliveries = 5
  MaxFaults = 1
  None = None
INVARIANTS
  TypeOK
  CountsStoredEvidence
  NothingIsUncounted
  RetainedIsStored
  SupersessionIsDone
PROPERTIES
  SupersededStaysOut
CHECK_DEADLOCK FALSE
