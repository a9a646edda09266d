SPECIFICATION Spec
CONSTANTS
  Proposals = {p1, p2}
  Skills = {s1}
  Callers = {c1}
  Operations <- AllOperations
  Autonomy = 3
  Evaluations <- OnlyPass
  EvaluatorModes = {TRUE, FALSE}
  HasApproval = TRUE
  HasPublisher = TRUE
  CandidateTraits <- OnlyOrdinary
  MaxFaults = 1
  None = None
INVARIANTS
  RejectedIsUnpublished
