------------------------------ MODULE Policies ------------------------------
(***************************************************************************)
(* The built-in promotion policies (packages/core/src/improvement/         *)
(* policies.ts) and the write guard of the proposal stores                 *)
(* (packages/core/src/proposal-write.ts), as operators.  A decision is its *)
(* kind; the reasons, which only explain it, are left out.                 *)
(***************************************************************************)
EXTENDS Naturals

AutonomyLevels == 0..5
DefaultIndependentSources == 2

Targets   == {"skill", "instructions", "workflow", "tool-policy"}
Verdicts  == {"pass", "fail", "inconclusive"}
Decisions == {"publish", "request-approval", "reject"}

\* What the policies read of a proposal: its target, whether its scope is
\* the organization's, and whether its reason or artifact has sensitive text.
Traits == [target : Targets, organization : BOOLEAN, sensitive : BOOLEAN]

\* regressions: the list is not empty; error: there is an error text.
Evaluation == [verdict     : Verdicts,
               regressions : BOOLEAN,
               structural  : BOOLEAN,
               error       : BOOLEAN]

\* composePromotionPolicies, two at a time: the first that does not publish.
Then(first, second) == IF first = "publish" THEN second ELSE first

scopePolicy(proposal, sources) ==
  IF proposal.organization /\ sources < DefaultIndependentSources
  THEN "reject" ELSE "publish"

regressionPolicy(evaluation) ==
  IF evaluation.verdict # "pass" \/ evaluation.regressions
  THEN "reject" ELSE "publish"

securityPolicy(proposal) ==
  IF proposal.target # "skill" \/ proposal.sensitive THEN "reject" ELSE "publish"

promotionDecisionForAutonomy(proposal, autonomy) ==
  CASE autonomy \in 0..2 -> "reject"
    [] autonomy = 3 -> "request-approval"
    [] autonomy \in 4..5 -> IF proposal.target # "skill" THEN "reject" ELSE "publish"

\* Mutant: a structural verdict publishes by itself.
approvalAutonomyByLevel(proposal, evaluation, autonomy) ==
  promotionDecisionForAutonomy(proposal, autonomy)

approvalAutonomyPolicy(proposal, evaluation, autonomy) ==
  IF evaluation.structural /\ autonomy >= 4
  THEN "request-approval"
  ELSE promotionDecisionForAutonomy(proposal, autonomy)

defaultHobbyPromotionPolicy(proposal, evaluation, autonomy, sources) ==
  Then(regressionPolicy(evaluation),
    Then(securityPolicy(proposal),
      Then(scopePolicy(proposal, sources),
           approvalAutonomyPolicy(proposal, evaluation, autonomy))))

defaultEnterprisePromotionPolicy(proposal, evaluation, autonomy, sources) ==
  Then(regressionPolicy(evaluation),
    Then(securityPolicy(proposal),
      Then(scopePolicy(proposal, sources), "request-approval")))

\* defaultPolicyFor: hobby from 'auto-promote-bounded' (4) on.
defaultPolicyFor(proposal, evaluation, autonomy, sources) ==
  IF autonomy >= 4
  THEN defaultHobbyPromotionPolicy(proposal, evaluation, autonomy, sources)
  ELSE defaultEnterprisePromotionPolicy(proposal, evaluation, autonomy, sources)

requiresEvaluation(autonomy) == autonomy \in 3..5

\* Mutant: only a second publication conflicts.
proposalUpsertConflictsByStatus(existing, next) ==
  /\ existing.status = "published"
  /\ next.status = "published"
  /\ existing.version = next.version

\* The guard of every putProposal, and of the upsert in SQL.
proposalUpsertConflicts(existing, next) ==
  \/ existing.version > next.version
  \/ /\ existing.status = "published"
     /\ next.status = "published"
     /\ existing.version = next.version
=============================================================================
