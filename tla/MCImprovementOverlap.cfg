SPECIFICATION Spec
CONSTANTS
  Proposals = {p1, p2}
  Skills = {s1}
  Callers = {c1, c2}
  Operations <- AllOperations
  Autonomy = 4
  Evaluations <- PassOrFail
  EvaluatorModes = {TRUE, FALSE}
  HasApproval = TRUE
  HasPublisher = TRUE
  CandidateTraits <- OrdinaryOrSensitive
  MaxFaults = 1
  None = None
INVARIANTS
  AcceptedOnlyPassed
  StoreTrailsPublisher
  CommitOwnsPending
PROPERTIES
  PublishedIsNotUndone
