SPECIFICATION Spec
CONSTANTS
  x = x
  i = i
  None = None
  Unusable = Unusable
  Options <- SomeOptions
  Contexts <- SomeContexts
  Payloads <- SomePayloads
  Statements = {x}
  Identities = {i}
  Callers = {c1, c2}
  Aggregates = TRUE
  AcceptThreshold = 2
  MaxEvidenceIds = 2
  MaxDeliveries = 3
  MaxFaults = 1
  MaxAttached = 2
SYMMETRY Symmetry
INVARIANTS
  TypeOK
  ToolCallsCountOnce
  ApplicationRunsFirst
  PublishedIsEarned
  
CHECK_DEADLOCK FALSE
