--------------------------- MODULE AssemblyProofs ---------------------------
(***************************************************************************)
(* Theorems about Assembly: what an improvement runtime may publish with   *)
(* nobody asked, for every runtime, and for every option and preset that   *)
(* leaves the evaluator to the adapters.                                   *)
(***************************************************************************)
EXTENDS Assembly, TLAPS

\* What Then lets through, both of its policies let through.
LEMMA BothPublish ==
  ASSUME NEW p, NEW q, Then(p, q) = "publish"
  PROVE  p = "publish" /\ q = "publish"
BY DEF Then

\* approvalAutonomyPolicy: publishing takes an autonomy of at least 4 and a
\* verdict on more than structure.
LEMMA AutonomyPublishes ==
  ASSUME NEW t \in Traits, NEW e \in Evaluation, NEW a \in AutonomyLevels,
         approvalAutonomyPolicy(t, e, a) = "publish"
  PROVE  a \in 4..5 /\ ~e.structural
<1>1. a \in 0..2 \/ a = 3 \/ a \in 4..5
  BY DEF AutonomyLevels
<1>2. CASE a \in 0..2
  BY <1>2 DEF approvalAutonomyPolicy, promotionDecisionForAutonomy
<1>3. CASE a = 3
  BY <1>3 DEF approvalAutonomyPolicy, promotionDecisionForAutonomy
<1>4. CASE a \in 4..5
  BY <1>4 DEF approvalAutonomyPolicy
<1>5. QED
  BY <1>1, <1>2, <1>3, <1>4

\* The enterprise policy always asks.
LEMMA EnterpriseAsks ==
  ASSUME NEW t, NEW e, NEW a, NEW n
  PROVE  defaultEnterprisePromotionPolicy(t, e, a, n) # "publish"
BY BothPublish DEF defaultEnterprisePromotionPolicy

\* Whatever policy a runtime has, its autonomy and its evaluation decide.
LEMMA DecisionIsEarned ==
  ASSUME NEW r \in ImprovementRuntime, NEW t \in Traits, NEW e \in Evaluation,
         policyDecision(r, t, e) = "publish"
  PROVE  r.autonomy \in 4..5 /\ ~e.structural /\ e.verdict = "pass" /\ ~e.regressions
<1>1. r.autonomy \in AutonomyLevels
  BY DEF ImprovementRuntime
<1>2. r.policy # "enterprise"
  BY EnterpriseAsks DEF policyDecision
<1>3. defaultPolicyFor(t, e, r.autonomy, 0) = "publish"
  BY <1>2 DEF policyDecision
<1>4. defaultHobbyPromotionPolicy(t, e, r.autonomy, 0) = "publish"
  BY <1>3, EnterpriseAsks DEF defaultPolicyFor
<1>5. regressionPolicy(e) = "publish" /\ approvalAutonomyPolicy(t, e, r.autonomy) = "publish"
  BY <1>4, BothPublish DEF defaultHobbyPromotionPolicy
<1>6. e.verdict = "pass" /\ ~e.regressions
  BY <1>5 DEF regressionPolicy
<1>7. QED
  BY <1>1, <1>5, <1>6, AutonomyPublishes

\* Every evaluator answers an evaluation.
LEMMA AnswersAreEvaluations ==
  ASSUME NEW r \in ImprovementRuntime
  PROVE  Evaluations(r) \subseteq Evaluation
BY DEF Evaluations, Answers, ImprovementRuntime

\* Whatever runtime an application or a preset hands over: what promote
\* publishes with nobody asked passed without regressions, on more than its
\* structure, at an autonomy of at least 4, and there is a publisher.
THEOREM AloneIsEarned ==
  ASSUME NEW r \in ImprovementRuntime, NEW t \in Traits, NEW e \in Evaluations(r),
         PublishesAlone(r, t, e)
  PROVE  /\ r.autonomy >= HOBBY_SKILL_AUTONOMY
         /\ e.verdict = "pass" /\ ~e.regressions /\ ~e.structural
         /\ r.publisher # None
<1>1. e \in Evaluation
  BY AnswersAreEvaluations
<1>2. policyDecision(r, t, e) = "publish" /\ r.publisher # None
  BY DEF PublishesAlone
<1>3. r.autonomy \in 4..5 /\ ~e.structural /\ e.verdict = "pass" /\ ~e.regressions
  BY <1>1, <1>2, DecisionIsEarned
<1>4. r.autonomy >= HOBBY_SKILL_AUTONOMY
  BY <1>3 DEF HOBBY_SKILL_AUTONOMY
<1>5. QED
  BY <1>2, <1>3, <1>4

\* A runtime built by constructImprovement is one.
LEMMA ConstructedIsRuntime ==
  ASSUME NEW a \in AutonomyLevels, NEW p \in Directories \cup {None},
         NEW q \in {"default", "enterprise"}, NEW c \in Config
  PROVE  constructImprovement(a, p, q, c) \in ImprovementRuntime
<1>1. resolveDefaultEvaluator(a, c.evaluator) \in {"validator", "experiments", "external"}
  BY DEF resolveDefaultEvaluator, OrElse, Config
<1>2. OrElse(c.experimentsAvailable, c.evaluator # None \/ a >= HOBBY_SKILL_AUTONOMY) \in BOOLEAN
  BY DEF OrElse, Config
<1>3. c.approval \in BOOLEAN
  BY DEF Config
<1>4. QED
  BY <1>1, <1>2, <1>3 DEF constructImprovement, ImprovementRuntime

\* Without an evaluator of the application's own, nothing is ever published
\* with nobody asked: the default evaluators judge structure or cannot tell.
THEOREM DefaultsAlwaysAsk ==
  ASSUME NEW a \in AutonomyLevels, NEW p \in Directories \cup {None},
         NEW q \in {"default", "enterprise"}, NEW c \in Config, c.evaluator = None,
         NEW t \in Traits, NEW e \in Evaluations(constructImprovement(a, p, q, c))
  PROVE  ~PublishesAlone(constructImprovement(a, p, q, c), t, e)
<1> DEFINE r == constructImprovement(a, p, q, c)
<1>1. r \in ImprovementRuntime
  BY ConstructedIsRuntime
<1>2. r.evaluator \in {"validator", "experiments"}
  BY DEF constructImprovement, resolveDefaultEvaluator, OrElse
<1>3. e.structural \/ e.verdict = "inconclusive"
  BY <1>2 DEF Evaluations, Answers
<1>4. SUFFICES ASSUME PublishesAlone(r, t, e) PROVE FALSE
  OBVIOUS
<1>5. ~e.structural /\ e.verdict = "pass"
  BY <1>1, <1>4, AloneIsEarned
<1>6. QED
  BY <1>3, <1>5
=============================================================================
