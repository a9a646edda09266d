SPECIFICATION Spec
CONSTANTS
  Lessons = {l1, l2}
  Proposals = {p1, p2, p3}
  Skills = {s1}
  Callers = {c1}
  Operations = {"propose", "promote", "reject", "rollback"}
  Autonomy = 4
  Evaluations <- SomeEvaluations
  EvaluatorModes = {TRUE}
  HasApproval = TRUE
  HasPublisher = TRUE
  CandidateTraits <- OnlyOrdinary
  MaxFaults = 1
  None = None
INVARIANTS
  RememberedIsSettled
