SPECIFICATION Spec
CONSTANTS
  Proposals = {p1, p2}
  Skills = {s1}
  Callers = {c1}
  Operations <- AllOperations
  Autonomy = 3
  Evaluations <- SomeEvaluations
  EvaluatorModes = {TRUE, FALSE}
  HasApproval = TRUE
  HasPublisher = TRUE
  CandidateTraits <- SomeTraits
  MaxFaults = 2
  None = None
INVARIANTS
  TypeOK
PROPERTIES
  CompletedIsTerminal
  PublishedOnlyAccepted
