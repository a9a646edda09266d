SPECIFICATION FairSpec
CONSTANTS
  Proposals = {p1, p2}
  Skills = {s1}
  Callers = {c1}
  Operations = {"propose", "promote", "rollback"}
  Autonomy = 4
  Evaluations <- OnlyPass
  EvaluatorModes = {TRUE}
  HasApproval = TRUE
  HasPublisher = TRUE
  CandidateTraits <- OnlyOrdinary
  MaxFaults = 2
  None = None
PROPERTIES
  StartedIsPublished
CHECK_DEADLOCK FALSE
