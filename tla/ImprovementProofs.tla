-------------------------- MODULE ImprovementProofs --------------------------
(***************************************************************************)
(* Safety theorems of Improvement, for every set of proposals and of       *)
(* overlapping callers, every evaluator, autonomy level and configuration. *)
(***************************************************************************)
EXTENDS Improvement, TLAPS

-----------------------------------------------------------------------------
(* The built-in policies. *)

\* A composed policy publishes only if both parts do.
LEMMA ThenPublishes ==
  ASSUME NEW first, NEW second
  PROVE  /\ Then(first, second) = "publish" => first = "publish" /\ second = "publish"
         /\ Then(first, second) # "reject" => first # "reject"
         /\ first = "publish" => Then(first, second) = second
  BY DEF Then

\* No built-in policy accepts a proposal that did not pass.
LEMMA DefaultPolicyAccepts ==
  ASSUME NEW t \in Traits, NEW e \in Evaluation, NEW sources \in Nat,
         NEW autonomy \in AutonomyLevels,
         defaultPolicyFor(t, e, autonomy, sources) # "reject"
  PROVE  /\ e.verdict = "pass"
         /\ ~e.regressions
         /\ t.target = "skill"
         /\ ~t.sensitive
<1>1. regressionPolicy(e) # "reject" => e.verdict = "pass" /\ ~e.regressions
  BY DEF regressionPolicy
<1>2. securityPolicy(t) # "reject" => t.target = "skill" /\ ~t.sensitive
  BY DEF securityPolicy
<1>3. regressionPolicy(e) \in {"publish", "reject"} /\ securityPolicy(t) \in {"publish", "reject"}
  BY DEF regressionPolicy, securityPolicy
<1>4. \A rest : Then(regressionPolicy(e), Then(securityPolicy(t), rest)) # "reject" =>
        regressionPolicy(e) # "reject" /\ securityPolicy(t) # "reject"
  BY <1>3, ThenPublishes
<1>5. regressionPolicy(e) # "reject" /\ securityPolicy(t) # "reject"
  BY <1>4 DEF defaultPolicyFor, defaultHobbyPromotionPolicy, defaultEnterprisePromotionPolicy
<1> QED
  BY <1>1, <1>2, <1>5

\* Below "validate" autonomy everything is rejected.
LEMMA LowAutonomyRejects ==
  ASSUME NEW t, NEW autonomy \in AutonomyLevels, ~requiresEvaluation(autonomy)
  PROVE  promotionDecisionForAutonomy(t, autonomy) = "reject"
<1>1. autonomy \in 0..2 /\ autonomy # 3 /\ autonomy \notin 4..5
  BY DEF AutonomyLevels, requiresEvaluation
<1> QED
  BY <1>1 DEF promotionDecisionForAutonomy

-----------------------------------------------------------------------------
(* The records a call writes. *)

LEMMA WithStatusFacts ==
  ASSUME NEW q \in Proposal, NEW status \in Statuses
  PROVE  /\ WithStatus(q, status) \in Proposal
         /\ WithStatus(q, status).status = status
         /\ WithStatus(q, status).id = q.id
         /\ WithStatus(q, status).version = q.version
         /\ WithStatus(q, status).traits = q.traits
         /\ WithStatus(q, status).evaluation = q.evaluation
  BY DEF WithStatus, Proposal

LEMMA PublishedFormFacts ==
  ASSUME NEW q \in Proposal
  PROVE  /\ PublishedForm(q) \in Proposal
         /\ PublishedForm(q).status = "published"
         /\ PublishedForm(q).id = q.id
         /\ PublishedForm(q).version = q.version + 1
         /\ PublishedForm(q).traits = q.traits
         /\ PublishedForm(q).evaluation = q.evaluation
<1> DEFINE n == q.version + 1
<1>1. n \in Nat
  BY DEF Proposal
<1> HIDE DEF n
<1>2. LET r == [q EXCEPT !.status = "published", !.version = n]
      IN /\ r \in Proposal
         /\ r.status = "published" /\ r.id = q.id /\ r.version = n
         /\ r.traits = q.traits /\ r.evaluation = q.evaluation
  BY <1>1 DEF Proposal, Statuses
<1> QED
  BY <1>2 DEF PublishedForm, n

LEMMA EvaluatedFacts ==
  ASSUME NEW q \in Proposal, NEW e \in Evaluation
  PROVE  /\ Evaluated(q, e) \in Proposal
         /\ Evaluated(q, e).status \in {"draft", "evaluating"}
         /\ Evaluated(q, e).id = q.id
         /\ Evaluated(q, e).version = q.version
         /\ Evaluated(q, e).evaluation = e
  BY DEF Evaluated, Proposal, Statuses

\* Passing is a matter of traits and evaluation only.
LEMMA PassedFacts ==
  ASSUME NEW q, NEW r, r.traits = q.traits, r.evaluation = q.evaluation
  PROVE  Passed(r) <=> Passed(q)
  BY DEF Passed

\* What a call may become.
CallOK(k) == k \in Call /\ CallFits(k)

LEMMA IdleOK == CallOK(Idle)
  BY DEF CallOK, Call, CallFits, Idle, Steps

\* A rejection may be written from any unpublished copy.
LEMMA RejectionOK ==
  ASSUME NEW q \in Proposal, q.version = 0
  PROVE  CallOK(Putting(WithStatus(q, "rejected"), "idle"))
<1> DEFINE r == WithStatus(q, "rejected")
<1>1. r \in Proposal /\ r.status = "rejected" /\ r.version = 0
  BY WithStatusFacts DEF Statuses
<1> HIDE DEF r
<1>2. Sound(r)
  BY <1>1 DEF Sound
<1>3. r # None
  BY <1>1, NoneAssumption
<1>4. CallOK(Putting(r, "idle"))
  BY <1>1, <1>2, <1>3 DEF CallOK, Call, CallFits, Putting, Steps
<1> QED
  BY <1>4 DEF r

\* publishApproved goes on with an approved copy, or rejects.
LEMMA PublishingOK ==
  ASSUME NEW q \in Proposal, q.version = 0, Passed(q)
  PROVE  CallOK(Publishing(q))
<1> DEFINE r == WithStatus(q, "approved")
<1>1. /\ r \in Proposal /\ r.status = "approved" /\ r.version = 0
      /\ r.traits = q.traits /\ r.evaluation = q.evaluation
  BY WithStatusFacts DEF Statuses
<1> HIDE DEF r
<1>2. Sound(r)
  BY <1>1, PassedFacts DEF Sound
<1>3. r # None
  BY <1>1, NoneAssumption
<1>4. CallOK(Putting(r, "idle"))
  BY <1>1, <1>2, <1>3 DEF CallOK, Call, CallFits, Putting, Steps
<1>5. CallOK(At("publish", r))
  BY <1>1, <1>2, <1>3 DEF CallOK, Call, CallFits, At, Steps
<1>6. q.traits.target = "skill"
  BY DEF Passed
<1> QED
  BY <1>4, <1>5, <1>6 DEF Publishing, r

\* applyDecision: only a passed copy is accepted.
LEMMA AppliedOK ==
  ASSUME NEW q \in Proposal, q.version = 0, NEW decision,
         decision # "reject" => Passed(q)
  PROVE  CallOK(Applied(q, decision))
<1>1. CASE decision = "reject"
  BY <1>1, RejectionOK DEF Applied
<1>2. CASE decision = "request-approval"
  <2> DEFINE r == WithStatus(q, "awaiting-approval")
             after == IF HasApproval THEN "approval" ELSE "idle"
  <2>1. /\ r \in Proposal /\ r.status = "awaiting-approval" /\ r.version = 0
        /\ r.traits = q.traits /\ r.evaluation = q.evaluation
    BY WithStatusFacts DEF Statuses
  <2>2. after \in {"approval", "idle"}
    OBVIOUS
  <2> HIDE DEF r, after
  <2>3. Sound(r) /\ r # None
    BY <1>2, <2>1, PassedFacts, NoneAssumption DEF Sound
  <2>4. CallOK(Putting(r, after))
    BY <2>1, <2>2, <2>3 DEF CallOK, Call, CallFits, Putting, Steps
  <2> QED
    BY <1>2, <2>4 DEF Applied, r, after
<1>3. CASE decision # "reject" /\ decision # "request-approval"
  BY <1>3, PublishingOK DEF Applied
<1> QED
  BY <1>1, <1>2, <1>3

-----------------------------------------------------------------------------
(* The steps, by what they change. *)

\* A step that moves one call to a well-formed place and leaves the store.
Moves == \E c \in Callers : \E k : CallOK(k) /\ GoOn(c, k)

LEMMA MovesCalls ==
  ASSUME IInv, Moves
  PROVE  call' \in [Callers -> Call] /\ \A c \in Callers : CallFits(call'[c])
  BY DEF Moves, GoOn, CallOK, IInv, TypeOK

\* A copy of a stored proposal that is not completed.
LEMMA OpenCopy ==
  ASSUME IInv, NEW p \in Proposals, store[p] # None
  PROVE  /\ store[p] \in Proposal
         /\ store[p].id = p
         /\ Sound(store[p])
         /\ store[p].status \notin Completed => store[p].version = 0
  BY DEF IInv, TypeOK, Sound, Completed

\* The copy of a call in flight.
LEMMA HeldCopy ==
  ASSUME IInv, NEW c \in Callers, call[c].pc # "idle"
  PROVE  /\ call[c].proposal \in Proposal
         /\ Sound(call[c].proposal)
         /\ CallFits(call[c])
         /\ call[c] \in Call
  BY DEF IInv, TypeOK, CallFits, Call

\* evaluateProposal, called by itself or inside promote.
LEMMA BeginEvaluationMoves ==
  ASSUME IInv, NEW c \in Callers, NEW p \in Proposals, store[p] # None,
         NEW after \in {"idle", "decide"}, BeginEvaluation(c, p, after)
  PROVE  Moves
<1> DEFINE q == store[p]
<1>1. q \in Proposal /\ Sound(q) /\ (q.status \notin Completed => q.version = 0) /\ q # None
  BY OpenCopy
<1>2. CASE GoOn(c, Idle)
  BY <1>2, IdleOK DEF Moves
<1>3. CASE q.status \notin Completed
           /\ GoOn(c, [pc |-> "evaluator", after |-> after, proposal |-> q])
  <2> HIDE DEF q
  <2>1. CallOK([pc |-> "evaluator", after |-> after, proposal |-> q])
    BY <1>1, <1>3 DEF CallOK, Call, CallFits, Steps
  <2> QED
    BY <1>3, <2>1 DEF Moves
<1>4. CASE q.status \notin Completed
           /\ GoOn(c, Putting(Evaluated(q, MissingEvaluator), after))
  <2> DEFINE r == Evaluated(q, MissingEvaluator)
  <2>1. MissingEvaluator \in Evaluation
    BY DEF MissingEvaluator, Evaluation, Verdicts
  <2>2. /\ r \in Proposal /\ r.status \in {"draft", "evaluating"}
        /\ r.version = 0 /\ r.evaluation # None
    BY <1>1, <1>4, <2>1, EvaluatedFacts, NoneAssumption
  <2> HIDE DEF q, r
  <2>3. CallOK(Putting(r, after))
    BY <2>2, NoneAssumption DEF CallOK, Call, CallFits, Putting, Steps, Sound
  <2> QED
    BY <1>4, <2>3 DEF Moves, r
<1> QED
  BY <1>2, <1>3, <1>4 DEF BeginEvaluation

\* Each step of a call other than its write moves the call.
LEMMA BeginMoves ==
  ASSUME IInv, NEW c \in Callers, Begin(c) PROVE Moves
<1> PICK p \in Proposals : \/ Propose(c, p) \/ PutDraft(c, p)
                           \/ Evaluate(c, p) \/ Promote(c, p)
                           \/ Rollback(c, p) \/ Reject(c, p)
  BY DEF Begin
<1>1. CASE Propose(c, p) \/ PutDraft(c, p)
  <2>1. PICK s \in Skills, t \in CandidateTraits :
          GoOn(c, Putting(NewProposal(p, s, t), "idle"))
    BY <1>1 DEF Propose, PutDraft, Drafting
  <2> DEFINE r == NewProposal(p, s, t)
  <2>2. t \in Traits
    BY SettingsAssumption
  <2>3. r \in Proposal /\ r.status = "draft" /\ r.version = 0
    BY <2>2 DEF NewProposal, Proposal, Statuses
  <2> HIDE DEF r
  <2>4. CallOK(Putting(r, "idle"))
    BY <2>3, NoneAssumption DEF CallOK, Call, CallFits, Putting, Steps, Sound
  <2> QED
    BY <2>1, <2>4 DEF Moves, r
<1>2. CASE Evaluate(c, p)
  BY <1>2, BeginEvaluationMoves DEF Evaluate
<1>3. CASE Promote(c, p)
  <2> DEFINE q == store[p]
  <2>1. q \in Proposal /\ Sound(q) /\ q.version = 0 /\ q # None
    BY <1>3, OpenCopy DEF Promote
  <2>2. CASE ~requiresEvaluation(Autonomy)
    <3>1. promotionDecisionForAutonomy(q.traits, Autonomy) = "reject"
      BY <2>2, LowAutonomyRejects, SettingsAssumption
    <3>2. GoOn(c, Applied(q, "reject"))
      BY <1>3, <2>2, <3>1 DEF Promote
    <3>3. CallOK(Applied(q, "reject"))
      BY <2>1, AppliedOK
    <3> QED
      BY <3>2, <3>3 DEF Moves
  <2>3. CASE requiresEvaluation(Autonomy) /\ q.evaluation = None
    <3>1. GoOn(c, At("reread", q))
      BY <1>3, <2>3 DEF Promote
    <3> HIDE DEF q
    <3>2. CallOK(At("reread", q))
      BY <2>1 DEF CallOK, Call, CallFits, At, Steps
    <3> QED
      BY <3>1, <3>2 DEF Moves
  <2>4. CASE requiresEvaluation(Autonomy) /\ q.evaluation # None
    <3>1. GoOn(c, At("decide", q))
      BY <1>3, <2>4 DEF Promote
    <3> HIDE DEF q
    <3>2. CallOK(At("decide", q))
      BY <2>1, <2>4 DEF CallOK, Call, CallFits, At, Steps
    <3> QED
      BY <3>1, <3>2 DEF Moves
  <2> QED
    BY <2>2, <2>3, <2>4
<1>4. CASE Rollback(c, p)
  <2> DEFINE q == store[p]
  <2>1. q \in Proposal /\ Sound(q) /\ q.status = "published" /\ q # None
    BY <1>4, OpenCopy DEF Rollback
  <2>2. GoOn(c, At("revert", q))
    BY <1>4 DEF Rollback
  <2> HIDE DEF q
  <2>3. CallOK(At("revert", q))
    BY <2>1 DEF CallOK, Call, CallFits, At, Steps
  <2> QED
    BY <2>2, <2>3 DEF Moves
<1>5. CASE Reject(c, p)
  <2>1. store[p] \in Proposal /\ store[p].version = 0
    BY <1>5, OpenCopy DEF Reject, Sound
  <2> QED
    BY <1>5, <2>1, RejectionOK DEF Reject, Moves
<1> QED
  BY <1>1, <1>2, <1>3, <1>4, <1>5

\* The publisher answered: the copy is published, and written next.
LEMMA PublishedMoves ==
  ASSUME IInv, NEW c \in Callers, call[c].pc \in {"publish", "commit"},
         GoOn(c, Putting(PublishedForm(call[c].proposal), "idle"))
  PROVE  Moves
<1> DEFINE q == call[c].proposal
           r == PublishedForm(q)
<1>1. q \in Proposal /\ Sound(q) /\ q.status = "approved"
  BY HeldCopy DEF CallFits
<1>2. /\ r \in Proposal /\ r.status = "published" /\ r.version = q.version + 1
      /\ r.traits = q.traits /\ r.evaluation = q.evaluation
  BY <1>1, PublishedFormFacts
<1>3. q.version = 0 /\ Passed(q)
  BY <1>1 DEF Sound
<1> HIDE DEF q, r
<1>4. r.version = 1 /\ Passed(r) /\ r # None
  BY <1>2, <1>3, PassedFacts, NoneAssumption
<1>5. CallOK(Putting(r, "idle"))
  BY <1>2, <1>4 DEF CallOK, Call, CallFits, Putting, Steps, Sound
<1> QED
  BY <1>5 DEF Moves, q, r

LEMMA ContinueMoves ==
  ASSUME IInv, NEW c \in Callers, Continue(c), ~Put(c) PROVE Moves
<1> DEFINE q == call[c].proposal
<1>1. CASE EvaluatorAnswers(c)
  <2>1. PICK e \in Evaluations : GoOn(c, Putting(Evaluated(q, e), call[c].after))
    BY <1>1 DEF EvaluatorAnswers
  <2> DEFINE r == Evaluated(q, e)
             after == call[c].after
  <2>2. e \in Evaluation /\ e # None
    BY SettingsAssumption, NoneAssumption
  <2>3. q \in Proposal /\ q.version = 0 /\ after \in {"idle", "decide"}
    BY <1>1, HeldCopy DEF EvaluatorAnswers, CallFits
  <2>4. r \in Proposal /\ r.status \in {"draft", "evaluating"} /\ r.version = 0 /\ r.evaluation = e
    BY <2>2, <2>3, EvaluatedFacts
  <2> HIDE DEF r, q, after
  <2>5. CallOK(Putting(r, after))
    BY <2>2, <2>3, <2>4, NoneAssumption DEF CallOK, Call, CallFits, Putting, Steps, Sound
  <2> QED
    BY <2>1, <2>5 DEF Moves, r, after
<1>2. CASE Reread(c)
  <2>1. q \in Proposal /\ q.id \in Proposals
    BY <1>2, HeldCopy DEF Reread, Proposal
  <2> QED
    BY <1>2, <2>1, BeginEvaluationMoves DEF Reread
<1>3. CASE Decide(c)
  <2>1. q \in Proposal /\ q.version = 0 /\ q.evaluation # None
    BY <1>3, HeldCopy DEF Decide, CallFits
  <2>2. CASE GoOn(c, Idle)
    BY <2>2, IdleOK DEF Moves
  <2>3. ASSUME NEW sources \in 0..DefaultIndependentSources,
               GoOn(c, Applied(q, defaultPolicyFor(q.traits, q.evaluation, Autonomy, sources)))
        PROVE  Moves
    <3> DEFINE d == defaultPolicyFor(q.traits, q.evaluation, Autonomy, sources)
    <3>1. q.traits \in Traits /\ q.evaluation \in Evaluation /\ sources \in Nat
      BY <2>1 DEF Proposal, DefaultIndependentSources
    <3>2. d # "reject" => Passed(q)
      BY <2>1, <3>1, DefaultPolicyAccepts, SettingsAssumption DEF Passed
    <3> HIDE DEF d
    <3>3. CallOK(Applied(q, d))
      BY <2>1, <3>2, AppliedOK
    <3> QED
      BY <2>3, <3>3 DEF Moves, d
  <2> QED
    BY <1>3, <2>2, <2>3 DEF Decide
<1>4. CASE ApprovalGiven(c) \/ ApprovalRefused(c)
  <2>1. q \in Proposal /\ q.version = 0 /\ Passed(q)
    BY <1>4, HeldCopy DEF ApprovalGiven, ApprovalRefused, CallFits, Sound
  <2> QED
    BY <1>4, <2>1, PublishingOK, RejectionOK DEF ApprovalGiven, ApprovalRefused, Moves
<1>5. CASE PublishExisting(c) \/ PublishCommit(c)
  BY <1>5, PublishedMoves DEF PublishExisting, PublishCommit
<1>6. CASE PublishRefused(c) \/ RevertRefused(c)
  BY <1>6, IdleOK DEF PublishRefused, RevertRefused, Moves
<1>7. CASE PublishReserve(c) \/ PublishResume(c)
  <2>1. q \in Proposal /\ Sound(q) /\ q.status = "approved" /\ q # None
    BY <1>7, HeldCopy, NoneAssumption DEF PublishReserve, PublishResume, CallFits
  <2>2. GoOn(c, At("commit", q))
    BY <1>7 DEF PublishReserve, PublishResume
  <2> HIDE DEF q
  <2>3. CallOK(At("commit", q))
    BY <2>1 DEF CallOK, Call, CallFits, At, Steps
  <2> QED
    BY <2>2, <2>3 DEF Moves
<1>8. CASE RevertDone(c)
  <2>1. q \in Proposal /\ Sound(q) /\ q.status = "published"
    BY <1>8, HeldCopy DEF RevertDone, CallFits
  <2> DEFINE r == RolledBackForm(q)
  <2>2. /\ r \in Proposal /\ r.status = "rolled-back" /\ r.version = q.version
        /\ r.traits = q.traits /\ r.evaluation = q.evaluation
    BY <2>1, WithStatusFacts DEF RolledBackForm, Statuses
  <2>3. GoOn(c, Putting(r, "idle"))
    BY <1>8 DEF RevertDone
  <2> HIDE DEF q, r
  <2>4. Sound(r) /\ r # None
    BY <2>1, <2>2, PassedFacts, NoneAssumption DEF Sound
  <2>5. CallOK(Putting(r, "idle"))
    BY <2>2, <2>4 DEF CallOK, Call, CallFits, Putting, Steps
  <2> QED
    BY <2>3, <2>5 DEF Moves
<1> QED
  BY <1>1, <1>2, <1>3, <1>4, <1>5, <1>6, <1>7, <1>8 DEF Continue

\* A write puts the call's copy into the store, or changes nothing there; the
\* call goes on with the copy it wrote.
LEMMA PutMoves ==
  ASSUME IInv, NEW c \in Callers, Put(c)
  PROVE  /\ Moves
         /\ \/ UNCHANGED store
            \/ LET q == call[c].proposal
               IN /\ q \in Proposal /\ Sound(q) /\ ~Conflicts(q)
                  /\ store' = [store EXCEPT ![q.id] = q]
<1> DEFINE q == call[c].proposal
           after == call[c].after
<1>1. /\ q \in Proposal /\ Sound(q) /\ CallFits(call[c]) /\ call[c].pc = "put"
      /\ call[c] \in Call
  BY HeldCopy DEF Put
<1>2. ASSUME GoOn(c, Idle) PROVE Moves
  BY <1>2, IdleOK DEF Moves
<1>3. ASSUME after # "idle", GoOn(c, At(after, q)) PROVE Moves
  <2>1. /\ after \in {"decide", "approval"} /\ q # None
        /\ after = "decide" => q.version = 0 /\ q.evaluation # None
        /\ after = "approval" => q.status = "awaiting-approval"
    BY <1>1, <1>3 DEF CallFits
  <2> HIDE DEF q, after
  <2>2. CallOK(At(after, q))
    BY <1>1, <2>1 DEF CallOK, Call, CallFits, At, Steps
  <2> QED
    BY <1>3, <2>2 DEF Moves
<1>4. Moves
  BY <1>2, <1>3 DEF Put
<1>5. \/ UNCHANGED store
      \/ ~Conflicts(q) /\ store' = [store EXCEPT ![q.id] = q]
  BY DEF Put
<1> QED
  BY <1>1, <1>4, <1>5

\* What a step does to the store: nothing, or one write that the guard let by.
Writes(q) ==
  /\ q \in Proposal /\ Sound(q) /\ ~Conflicts(q)
  /\ store' = [store EXCEPT ![q.id] = q]

LEMMA StoreSteps ==
  ASSUME IInv, [Next]_vars
  PROVE  UNCHANGED store \/ \E q : Writes(q)
<1>1. ASSUME NEW c \in Callers, Put(c) PROVE UNCHANGED store \/ \E q : Writes(q)
  BY <1>1, PutMoves DEF Writes
<1>2. ASSUME NEW c \in Callers, Begin(c) PROVE UNCHANGED store
  BY <1>2 DEF Begin, Propose, PutDraft, Drafting, Evaluate, Promote, Rollback, Reject
<1>3. ASSUME NEW c \in Callers, Continue(c), ~Put(c) PROVE UNCHANGED store
  BY <1>3 DEF Continue, EvaluatorAnswers, Reread, Decide, ApprovalGiven, ApprovalRefused,
     PublishExisting, PublishRefused, PublishReserve, PublishResume, PublishCommit,
     RevertDone, RevertRefused
<1>4. ASSUME NEW c \in Callers, CallFails(c) PROVE UNCHANGED store
  BY <1>4 DEF CallFails
<1>5. CASE Crash
  BY <1>5 DEF Crash
<1>6. CASE UNCHANGED vars
  BY <1>6 DEF vars
<1> QED
  BY <1>1, <1>2, <1>3, <1>4, <1>5, <1>6 DEF Next

\* The calls stay well formed in every step.
LEMMA CallSteps ==
  ASSUME IInv, [Next]_vars
  PROVE  call' \in [Callers -> Call] /\ \A c \in Callers : CallFits(call'[c])
<1>1. CASE \E c \in Callers : Begin(c)
  BY <1>1, BeginMoves, MovesCalls
<1>2. CASE \E c \in Callers : Continue(c)
  BY <1>2, ContinueMoves, PutMoves, MovesCalls
<1>3. CASE \E c \in Callers : CallFails(c)
  BY <1>3, IdleOK, MovesCalls DEF CallFails, Moves
<1>4. CASE Crash
  BY <1>4, IdleOK DEF Crash, CallOK
<1>5. CASE UNCHANGED vars
  BY <1>5 DEF vars, IInv, TypeOK
<1> QED
  BY <1>1, <1>2, <1>3, <1>4, <1>5 DEF Next

-----------------------------------------------------------------------------
(* The publisher's variables. *)

PublisherOK == /\ writer \in Callers \cup {None}
               /\ log \in Seq(H!Revision)
               /\ reserved \in H!Reservation \cup {None}

\* Each of the publisher's steps keeps its history well typed.
LEMMA HistorySteps ==
  ASSUME PublisherOK
  PROVE  /\ \A p \in Proposals, s \in Skills : H!Reserve(p, s) =>
              log' = log /\ reserved' \in H!Reservation
         /\ H!Commit => log' \in Seq(H!Revision) /\ reserved' = None
         /\ \A i \in DOMAIN log : H!Revert(i) =>
              log' \in Seq(H!Revision) /\ reserved' = reserved
<1>1. ASSUME NEW p \in Proposals, NEW s \in Skills, H!Reserve(p, s)
      PROVE  log' = log /\ reserved' \in H!Reservation
  BY <1>1 DEF H!Reserve, H!Reservation
<1>2. ASSUME H!Commit PROVE log' \in Seq(H!Revision) /\ reserved' = None
  <2>1. reserved \in H!Reservation
    BY <1>2 DEF H!Commit, PublisherOK
  <2> DEFINE r == [proposal |-> reserved.proposal, skill |-> reserved.skill,
                   reverted |-> FALSE]
  <2>2. r \in H!Revision
    BY <2>1 DEF H!Reservation, H!Revision
  <2>3. log' = Append(log, r) /\ reserved' = None
    BY <1>2 DEF H!Commit
  <2> HIDE DEF r
  <2> QED
    BY <2>2, <2>3 DEF PublisherOK
<1>3. ASSUME NEW i \in DOMAIN log, H!Revert(i)
      PROVE  log' \in Seq(H!Revision) /\ reserved' = reserved
  <2> DEFINE r == [log[i] EXCEPT !.reverted = TRUE]
  <2>1. log[i] \in H!Revision
    BY DEF PublisherOK
  <2>2. r \in H!Revision
    BY <2>1 DEF H!Revision
  <2>3. log' = [log EXCEPT ![i] = r] /\ reserved' = reserved
    BY <1>3 DEF H!Revert
  <2> HIDE DEF r
  <2> QED
    BY <2>2, <2>3 DEF PublisherOK
<1> QED
  BY <1>1, <1>2, <1>3

LEMMA PublisherSteps ==
  ASSUME IInv, [Next]_vars PROVE PublisherOK'
<1>1. PublisherOK
  BY DEF IInv, TypeOK, PublisherOK
<1>2. ASSUME NEW c \in Callers, PublishReserve(c) PROVE PublisherOK'
  <2>1. call[c].proposal.id \in Proposals /\ call[c].proposal.skill \in Skills
    BY <1>2, HeldCopy DEF PublishReserve, Proposal
  <2> QED
    BY <1>1, <1>2, <2>1, HistorySteps DEF PublishReserve, PublisherOK
<1>3. ASSUME NEW c \in Callers, PublishCommit(c) PROVE PublisherOK'
  BY <1>1, <1>3, HistorySteps DEF PublishCommit, PublisherOK
<1>4. ASSUME NEW c \in Callers, RevertDone(c) PROVE PublisherOK'
  BY <1>1, <1>4, HistorySteps DEF RevertDone, PublisherOK
<1>5. ASSUME NEW c \in Callers, PublishResume(c) PROVE PublisherOK'
  BY <1>1, <1>5 DEF PublishResume, PublisherOK
<1>6. ASSUME NEW c \in Callers, CallFails(c) PROVE PublisherOK'
  BY <1>1, <1>6 DEF CallFails, PublisherOK
<1>7. CASE Crash
  BY <1>1, <1>7 DEF Crash, PublisherOK
<1>8. ASSUME NEW c \in Callers, Begin(c) PROVE PublisherOK'
  BY <1>1, <1>8 DEF Begin, Propose, PutDraft, Drafting, Evaluate, Promote, Rollback, Reject, PublisherOK, publisher
<1>9. ASSUME NEW c \in Callers,
             \/ EvaluatorAnswers(c) \/ Reread(c) \/ Decide(c) \/ ApprovalGiven(c)
             \/ ApprovalRefused(c) \/ PublishExisting(c) \/ PublishRefused(c)
             \/ RevertRefused(c) \/ Put(c)
      PROVE  PublisherOK'
  BY <1>1, <1>9 DEF EvaluatorAnswers, Reread, Decide, ApprovalGiven, ApprovalRefused,
     PublishExisting, PublishRefused, RevertRefused, Put, PublisherOK, publisher
<1>10. CASE UNCHANGED vars
  BY <1>1, <1>10 DEF vars, publisher, PublisherOK
<1> QED
  BY <1>2, <1>3, <1>4, <1>5, <1>6, <1>7, <1>8, <1>9, <1>10 DEF Next, Continue

\* The history variable and the fault counter.
LEMMA CounterSteps ==
  ASSUME IInv, [Next]_vars
  PROVE  granted' \subseteq Proposals /\ faults' \in 0..MaxFaults
<1>1. granted \subseteq Proposals /\ faults \in 0..MaxFaults
  BY DEF IInv, TypeOK
<1>2. ASSUME NEW c \in Callers, ApprovalGiven(c)
      PROVE  granted' \subseteq Proposals /\ faults' \in 0..MaxFaults
  <2>1. call[c].proposal.id \in Proposals
    BY <1>2, HeldCopy DEF ApprovalGiven, Proposal
  <2> QED
    BY <1>1, <1>2, <2>1 DEF ApprovalGiven
<1>3. ASSUME NEW c \in Callers, Begin(c)
      PROVE  granted' \subseteq Proposals /\ faults' \in 0..MaxFaults
  BY <1>1, <1>3 DEF Begin, Propose, PutDraft, Drafting, Evaluate, Promote, Rollback, Reject
<1>4. ASSUME NEW c \in Callers, Continue(c), ~ApprovalGiven(c)
      PROVE  granted' \subseteq Proposals /\ faults' \in 0..MaxFaults
  BY <1>1, <1>4 DEF Continue, EvaluatorAnswers, Reread, Decide, ApprovalRefused,
     PublishExisting, PublishRefused, PublishReserve, PublishResume, PublishCommit,
     RevertDone, RevertRefused, Put
<1>5. ASSUME NEW c \in Callers, CallFails(c)
      PROVE  granted' \subseteq Proposals /\ faults' \in 0..MaxFaults
  BY <1>1, <1>5, SettingsAssumption DEF CallFails
<1>6. CASE Crash
  BY <1>1, <1>6, SettingsAssumption DEF Crash
<1>7. CASE UNCHANGED vars
  BY <1>1, <1>7 DEF vars
<1> QED
  BY <1>2, <1>3, <1>4, <1>5, <1>6, <1>7 DEF Next

-----------------------------------------------------------------------------
(* The inductive invariant. *)

LEMMA InitInvariant == Init => IInv
<1> SUFFICES ASSUME Init PROVE IInv
  OBVIOUS
<1>1. call \in [Callers -> Call] /\ \A c \in Callers : CallFits(call[c])
  BY IdleOK DEF Init, CallOK
<1>2. store \in [Proposals -> Proposal \cup {None}] /\ \A p \in Proposals : store[p] = None
  BY DEF Init
<1>3. log \in Seq(H!Revision) /\ reserved \in H!Reservation \cup {None}
  BY DEF Init, H!Init
<1>4. writer \in Callers \cup {None} /\ granted \subseteq Proposals /\ faults \in 0..MaxFaults
  BY SettingsAssumption DEF Init
<1>5. TypeOK
  BY <1>1, <1>2, <1>3, <1>4 DEF TypeOK, CallFits
<1> QED
  BY <1>1, <1>2, <1>5 DEF IInv

\* What a write of a sound copy leaves in the store.
LEMMA WrittenStore ==
  ASSUME IInv, NEW q, Writes(q)
  PROVE  /\ store' \in [Proposals -> Proposal \cup {None}]
         /\ \A p \in Proposals : store'[p] # None => store'[p].id = p /\ Sound(store'[p])
<1>1. q \in Proposal /\ q.id \in Proposals /\ Sound(q) /\ store' = [store EXCEPT ![q.id] = q]
  BY DEF Writes, Proposal
<1>2. store \in [Proposals -> Proposal \cup {None}]
  BY DEF IInv, TypeOK
<1>3. \A p \in Proposals : store[p] # None => store[p].id = p /\ Sound(store[p])
  BY DEF IInv, TypeOK
<1> QED
  BY <1>1, <1>2, <1>3

LEMMA InvariantStep ==
  ASSUME IInv, [Next]_vars PROVE IInv'
<1>1. /\ store' \in [Proposals -> Proposal \cup {None}]
      /\ \A p \in Proposals : store'[p] # None => store'[p].id = p /\ Sound(store'[p])
  <2>1. CASE UNCHANGED store
    BY <2>1 DEF IInv, TypeOK
  <2> QED
    BY <2>1, StoreSteps, WrittenStore
<1>2. call' \in [Callers -> Call] /\ \A c \in Callers : CallFits(call'[c])
  BY CallSteps
<1>3. /\ \A c \in Callers : call'[c].pc # "idle" => call'[c].proposal # None
      /\ \A c \in Callers : call'[c].pc = "decide" => call'[c].proposal.evaluation # None
  BY <1>2 DEF CallFits
<1>4. TypeOK'
  BY <1>1, <1>2, <1>3, PublisherSteps, CounterSteps DEF TypeOK, PublisherOK
<1>5. (\A p \in Proposals : store[p] # None => Sound(store[p]))'
  BY <1>1 DEF Sound, Passed
<1>6. (\A c \in Callers : CallFits(call[c]))'
  BY <1>2 DEF CallFits, Sound, Passed
<1> QED
  BY <1>4, <1>5, <1>6 DEF IInv

\* Whatever overlaps, fails or crashes, every proposal record, stored or held
\* by a call across an await, keeps its version and its checks in step with
\* its status, and each await is reached with a copy that fits it.
THEOREM Inductive == Spec => []IInv
<1>1. Init => IInv
  BY InitInvariant
<1>2. IInv /\ [Next]_vars => IInv'
  BY InvariantStep
<1> QED
  BY <1>1, <1>2, PTL DEF Spec

-----------------------------------------------------------------------------
(* The properties that follow from it. *)

\* Every variable always holds a value of its type.
THEOREM TypeCorrect == Spec => []TypeOK
<1>1. IInv => TypeOK
  BY DEF IInv
<1> QED
  BY <1>1, Inductive, PTL

\* A proposal that awaits approval, is approved or was published passed its
\* own evaluation and the security policy, at every autonomy level.
THEOREM AcceptedPassed == Spec => []AcceptedOnlyPassed
<1>1. IInv => AcceptedOnlyPassed
  BY DEF IInv, AcceptedOnlyPassed, HasStatus, Sound
<1> QED
  BY <1>1, Inductive, PTL

\* The stored version is 1 from publication on and 0 before it.
THEOREM VersionMarks == Spec => []VersionMarksPublished
<1>1. IInv => VersionMarksPublished
  BY DEF IInv, VersionMarksPublished, Sound
<1> QED
  BY <1>1, Inductive, PTL

\* The write guard refuses every copy that would take a published proposal
\* back, or publish it a second time.
LEMMA GuardKeepsPublished ==
  ASSUME IInv, NEW q, Writes(q), NEW p \in Proposals, HasStatus(p, {"published"})
  PROVE  HasStatus(p, {"published", "rolled-back"})'
<1>1. q \in Proposal /\ q.id \in Proposals /\ Sound(q) /\ ~Conflicts(q)
      /\ store' = [store EXCEPT ![q.id] = q]
  BY DEF Writes, Proposal
<1>2. store \in [Proposals -> Proposal \cup {None}] /\ q # None
  BY <1>1, NoneAssumption DEF IInv, TypeOK
<1>3. store[p] # None /\ store[p].status = "published" /\ store[p].version = 1
  BY DEF HasStatus, IInv, Sound
<1>4. CASE q.id # p
  BY <1>1, <1>2, <1>3, <1>4 DEF HasStatus
<1>5. CASE q.id = p
  <2>1. ~(store[p].version > q.version)
    BY <1>1, <1>3, <1>5 DEF Conflicts, proposalUpsertConflicts
  <2>2. q.status \in {"published", "rolled-back"}
    BY <1>1, <1>3, <2>1 DEF Sound
  <2>3. store'[p] = q
    BY <1>1, <1>2, <1>5
  <2> QED
    BY <1>2, <2>2, <2>3 DEF HasStatus
<1> QED
  BY <1>4, <1>5

\* No stale copy of an overlapping call takes a published proposal back.
THEOREM NotUndone == Spec => PublishedIsNotUndone
<1> DEFINE Kept == \A p \in Proposals :
             HasStatus(p, {"published"}) => HasStatus(p, {"published", "rolled-back"})'
<1>1. IInv /\ [Next]_vars => Kept
  <2> SUFFICES ASSUME IInv, [Next]_vars, NEW p \in Proposals, HasStatus(p, {"published"})
               PROVE  HasStatus(p, {"published", "rolled-back"})'
    OBVIOUS
  <2>1. CASE UNCHANGED store
    BY <2>1 DEF HasStatus
  <2>2. CASE \E q : Writes(q)
    BY <2>2, GuardKeepsPublished
  <2> QED
    BY <2>1, <2>2, StoreSteps
<1>2. IInv /\ [Next]_vars => [Kept]_vars
  BY <1>1
<1> QED
  BY <1>2, Inductive, PTL DEF Spec, PublishedIsNotUndone

-----------------------------------------------------------------------------
(* The store and the publisher.  Only a commit and a revert change the      *)
(* history, and neither takes a revision, or its mark, away; a copy that    *)
(* claims a revision is made by the very step that found or made it.  The   *)
(* store gets its claims from such copies.                                  *)

Claimed == {"published", "rolled-back"}

\* What q claims, the publisher has done.
Backed(q) ==
  /\ q.status = "published" => H!InLog(q.id)
  /\ q.status = "rolled-back" => RevertedInLog(q.id)

PInv ==
  /\ IInv
  /\ CommitOwnsPending
  /\ \A p \in Proposals : store[p] # None => Backed(store[p])
  /\ \A c \in Callers : call[c].pc = "put" => Backed(call[c].proposal)

\* A call that goes on as k claims nothing and does not commit.
Modest(k) ==
  /\ k.pc # "commit"
  /\ k.pc = "put" => k.proposal.status \notin Claimed

LEMMA IdleModest == Modest(Idle)
  BY DEF Modest, Idle

LEMMA EvaluatedModest ==
  ASSUME NEW q \in Proposal, NEW e \in Evaluation, NEW after
  PROVE  Modest(Putting(Evaluated(q, e), after))
<1> DEFINE r == Evaluated(q, e)
<1>1. r.status \in {"draft", "evaluating"}
  BY EvaluatedFacts
<1> HIDE DEF r
<1>2. Modest(Putting(r, after))
  BY <1>1 DEF Modest, Putting, Claimed
<1> QED
  BY <1>2 DEF r

LEMMA WithStatusModest ==
  ASSUME NEW q \in Proposal, NEW status \in Statuses \ Claimed, NEW after
  PROVE  Modest(Putting(WithStatus(q, status), after))
<1> DEFINE r == WithStatus(q, status)
<1>1. r.status = status
  BY WithStatusFacts
<1> HIDE DEF r
<1>2. Modest(Putting(r, after))
  BY <1>1 DEF Modest, Putting
<1> QED
  BY <1>2 DEF r

LEMMA AppliedModest ==
  ASSUME NEW q \in Proposal, NEW decision
  PROVE  Modest(Applied(q, decision)) /\ Modest(Publishing(q))
<1>1. {"rejected", "approved", "awaiting-approval"} \subseteq Statuses \ Claimed
  BY DEF Statuses, Claimed
<1>2. Modest(At("publish", WithStatus(q, "approved")))
  BY DEF Modest, At
<1>3. Modest(Publishing(q))
  BY <1>1, <1>2, WithStatusModest DEF Publishing
<1> QED
  BY <1>1, <1>3, WithStatusModest DEF Applied

\* Most steps move one call modestly, and leave store and publisher.
ModestMove(c) ==
  /\ \E k : Modest(k) /\ GoOn(c, k)
  /\ UNCHANGED <<store, publisher>>

LEMMA BeginEvaluationModest ==
  ASSUME IInv, NEW c \in Callers, NEW p \in Proposals, store[p] # None,
         NEW after, BeginEvaluation(c, p, after), UNCHANGED <<store, publisher>>
  PROVE  ModestMove(c)
<1>1. store[p] \in Proposal
  BY OpenCopy
<1>2. MissingEvaluator \in Evaluation
  BY DEF MissingEvaluator, Evaluation, Verdicts
<1>3. Modest([pc |-> "evaluator", after |-> after, proposal |-> store[p]])
  BY DEF Modest
<1> QED
  BY <1>1, <1>2, <1>3, IdleModest, EvaluatedModest DEF BeginEvaluation, ModestMove

LEMMA BeginModest ==
  ASSUME IInv, NEW c \in Callers, Begin(c) PROVE ModestMove(c)
<1> PICK p \in Proposals : \/ Propose(c, p) \/ PutDraft(c, p)
                           \/ Evaluate(c, p) \/ Promote(c, p)
                           \/ Rollback(c, p) \/ Reject(c, p)
  BY DEF Begin
<1>1. CASE Propose(c, p) \/ PutDraft(c, p)
  <2>1. PICK s \in Skills, t \in CandidateTraits :
          GoOn(c, Putting(NewProposal(p, s, t), "idle"))
    BY <1>1 DEF Propose, PutDraft, Drafting
  <2>2. Modest(Putting(NewProposal(p, s, t), "idle"))
    BY DEF Modest, Putting, NewProposal, Claimed
  <2> QED
    BY <1>1, <2>1, <2>2 DEF Propose, PutDraft, Drafting, ModestMove
<1>2. CASE Evaluate(c, p)
  BY <1>2, BeginEvaluationModest DEF Evaluate
<1>3. CASE Promote(c, p)
  <2>1. store[p] \in Proposal
    BY <1>3, OpenCopy DEF Promote
  <2>2. Modest(At("reread", store[p])) /\ Modest(At("decide", store[p]))
    BY DEF Modest, At
  <2> QED
    BY <1>3, <2>1, <2>2, AppliedModest DEF Promote, ModestMove
<1>4. CASE Rollback(c, p)
  <2>1. Modest(At("revert", store[p]))
    BY DEF Modest, At
  <2> QED
    BY <1>4, <2>1 DEF Rollback, ModestMove
<1>5. CASE Reject(c, p)
  <2>1. store[p] \in Proposal /\ "rejected" \in Statuses \ Claimed
    BY <1>5, OpenCopy DEF Reject, Statuses, Claimed
  <2> QED
    BY <1>5, <2>1, WithStatusModest DEF Reject, ModestMove
<1> QED
  BY <1>1, <1>2, <1>3, <1>4, <1>5

LEMMA ContinueModest ==
  ASSUME IInv, NEW c \in Callers,
         \/ EvaluatorAnswers(c) \/ Reread(c) \/ Decide(c) \/ ApprovalGiven(c)
         \/ ApprovalRefused(c) \/ PublishRefused(c) \/ RevertRefused(c)
  PROVE  ModestMove(c)
<1> DEFINE q == call[c].proposal
<1>1. CASE EvaluatorAnswers(c)
  <2>1. q \in Proposal /\ Evaluations \subseteq Evaluation
    BY <1>1, HeldCopy, SettingsAssumption DEF EvaluatorAnswers
  <2> QED
    BY <1>1, <2>1, EvaluatedModest DEF EvaluatorAnswers, ModestMove
<1>2. CASE Reread(c)
  <2>1. q.id \in Proposals
    BY <1>2, HeldCopy DEF Reread, Proposal
  <2> QED
    BY <1>2, <2>1, BeginEvaluationModest DEF Reread
<1>3. CASE Decide(c)
  <2>1. q \in Proposal
    BY <1>3, HeldCopy DEF Decide
  <2> QED
    BY <1>3, <2>1, IdleModest, AppliedModest DEF Decide, ModestMove
<1>4. CASE ApprovalGiven(c) \/ ApprovalRefused(c)
  <2>1. q \in Proposal /\ "rejected" \in Statuses \ Claimed
    BY <1>4, HeldCopy DEF ApprovalGiven, ApprovalRefused, Statuses, Claimed
  <2> QED
    BY <1>4, <2>1, AppliedModest, WithStatusModest
    DEF ApprovalGiven, ApprovalRefused, ModestMove
<1>5. CASE PublishRefused(c) \/ RevertRefused(c)
  BY <1>5, IdleModest DEF PublishRefused, RevertRefused, ModestMove
<1> QED
  BY <1>1, <1>2, <1>3, <1>4, <1>5

\* A history keeps its revisions and their marks.
Kept ==
  \A p \in Proposals : /\ H!InLog(p) => H!InLog(p)'
                       /\ RevertedInLog(p) => RevertedInLog(p)'

LEMMA UnchangedKept == ASSUME UNCHANGED log PROVE Kept
  BY DEF Kept, H!InLog, RevertedInLog

LEMMA CommitKept ==
  ASSUME PublisherOK, H!Commit
  PROVE  Kept /\ \A p : p = reserved.proposal => H!InLog(p)'
<1> DEFINE r == [proposal |-> reserved.proposal, skill |-> reserved.skill,
                 reverted |-> FALSE]
<1>1. log' = Append(log, r)
  BY DEF H!Commit
<1>2. r.proposal = reserved.proposal
  OBVIOUS
<1> HIDE DEF r
<1>3. /\ DOMAIN log = 1 .. Len(log)
      /\ DOMAIN log' = 1 .. Len(log) + 1
      /\ log'[Len(log) + 1] = r
      /\ \A i \in 1 .. Len(log) : log'[i] = log[i]
      /\ Len(log) \in Nat
  BY <1>1 DEF PublisherOK
<1> QED
  BY <1>2, <1>3 DEF Kept, H!InLog, RevertedInLog

LEMMA RevertKept ==
  ASSUME PublisherOK, NEW i \in DOMAIN log, H!Revert(i)
  PROVE  Kept /\ \A p : p = log[i].proposal => RevertedInLog(p)'
<1> DEFINE r == [log[i] EXCEPT !.reverted = TRUE]
<1>1. log[i] \in H!Revision
  BY DEF PublisherOK
<1>2. r.proposal = log[i].proposal /\ r.reverted
  BY <1>1 DEF H!Revision
<1>3. log' = [log EXCEPT ![i] = r]
  BY DEF H!Revert
<1> HIDE DEF r
<1>4. DOMAIN log' = DOMAIN log /\ log'[i] = r /\ \A j \in DOMAIN log \ {i} : log'[j] = log[j]
  BY <1>3
<1> QED
  BY <1>2, <1>4 DEF Kept, H!InLog, RevertedInLog

\* What was backed stays backed.
LEMMA BackedKept ==
  ASSUME Kept, NEW q \in Proposal, Backed(q)
  PROVE  Backed(q)'
BY DEF Kept, Backed, Proposal

\* What is left of PInv when a call moves to k and the store stays.
LEMMA StoreKept ==
  ASSUME PInv, Kept, UNCHANGED store
  PROVE  (\A p \in Proposals : store[p] # None => Backed(store[p]))'
<1>1. \A p \in Proposals : store[p] # None => store[p] \in Proposal /\ Backed(store[p])
  BY OpenCopy DEF PInv
<1>2. \A p \in Proposals : store[p] # None => Backed(store[p])'
  BY <1>1, BackedKept
<1> QED
  BY <1>2 DEF Backed, H!InLog, RevertedInLog

LEMMA CallsKept ==
  ASSUME PInv, Kept, NEW c \in Callers, NEW k, GoOn(c, k),
         k.pc = "put" => Backed(k.proposal)'
  PROVE  (\A d \in Callers : call[d].pc = "put" => Backed(call[d].proposal))'
<1>1. \A d \in Callers : call[d].pc = "put" =>
        call[d].proposal \in Proposal /\ Backed(call[d].proposal)
  BY HeldCopy DEF PInv
<1>2. \A d \in Callers : \A q : call[d].pc = "put" /\ q = call[d].proposal => Backed(q)'
  BY <1>1, BackedKept
<1>3. \A d \in Callers : call'[d] = (IF d = c THEN k ELSE call[d])
  BY DEF GoOn, PInv, IInv, TypeOK
<1> QED
  BY <1>2, <1>3 DEF Backed, H!InLog, RevertedInLog

\* The two parts of PInv that a step of c towards k may disturb.
LEMMA MoveKeeps ==
  ASSUME PInv, IInv', Kept, UNCHANGED store, NEW c \in Callers, NEW k, GoOn(c, k),
         k.pc = "put" => Backed(k.proposal)', CommitOwnsPending'
  PROVE  PInv'
BY StoreKept, CallsKept DEF PInv

\* No other call is at its commit while the queue is free, or held by c.
LEMMA OwnsOnMove ==
  ASSUME PInv, NEW c \in Callers, NEW k, GoOn(c, k), k.pc # "commit",
         \/ UNCHANGED <<writer, reserved>>
         \/ writer \in {None, c}
         \/ UNCHANGED reserved /\ writer' = (IF writer = c THEN None ELSE writer)
  PROVE  CommitOwnsPending'
<1>1. \A d \in Callers : call'[d] = (IF d = c THEN k ELSE call[d])
  BY DEF GoOn, PInv, IInv, TypeOK
<1>2. None \notin Callers
  BY NoneAssumption
<1> QED
  BY <1>1, <1>2 DEF PInv, CommitOwnsPending

LEMMA ModestKeeps ==
  ASSUME PInv, IInv', NEW c \in Callers, ModestMove(c)
  PROVE  PInv'
<1>1. PICK k : Modest(k) /\ GoOn(c, k)
  BY DEF ModestMove
<1>2. UNCHANGED <<store, log, reserved, writer>>
  BY DEF ModestMove, publisher
<1>3. k.pc = "put" => Backed(k.proposal)'
  BY <1>1 DEF Modest, Claimed, Backed
<1>4. CommitOwnsPending'
  BY <1>1, <1>2, OwnsOnMove DEF Modest
<1> QED
  BY <1>1, <1>2, <1>3, <1>4, UnchangedKept, MoveKeeps

\* A call that the publisher takes into its queue owns the pending publication.
LEMMA QueueKeeps ==
  ASSUME PInv, IInv', NEW c \in Callers, PublishReserve(c) \/ PublishResume(c)
  PROVE  PInv'
<1> DEFINE q == call[c].proposal
           k == At("commit", q)
<1>1. /\ GoOn(c, k) /\ writer = None /\ writer' = c
      /\ UNCHANGED <<store, log>>
      /\ reserved' # None /\ reserved'.proposal = q.id
  <2>1. CASE PublishReserve(c)
    <3>1. q.id \in Proposals /\ q.skill \in Skills
      BY <2>1, HeldCopy DEF PublishReserve, PInv, Proposal
    <3>2. reserved' = [proposal |-> q.id, skill |-> q.skill]
      BY <2>1 DEF PublishReserve, H!Reserve
    <3>3. reserved' # None
      BY <3>1, <3>2, NoneAssumption
    <3> QED
      BY <2>1, <3>2, <3>3 DEF PublishReserve, H!Reserve
  <2>2. CASE PublishResume(c)
    BY <2>2 DEF PublishResume
  <2> QED
    BY <2>1, <2>2
<1>2. k.pc = "commit" /\ k.proposal = q
  BY DEF At
<1> HIDE DEF q, k
<1>3. \A d \in Callers : call'[d] = (IF d = c THEN k ELSE call[d])
  BY <1>1 DEF GoOn, PInv, IInv, TypeOK
<1>4. \A d \in Callers : call[d].pc # "commit"
  BY <1>1, NoneAssumption DEF PInv, CommitOwnsPending
<1>5. CommitOwnsPending'
  BY <1>1, <1>2, <1>3, <1>4 DEF CommitOwnsPending
<1> QED
  BY <1>1, <1>2, <1>5, UnchangedKept, MoveKeeps

\* The copy that is published next has the revision that was found or made.
LEMMA PublishedKeeps ==
  ASSUME PInv, IInv', NEW c \in Callers, PublishExisting(c) \/ PublishCommit(c)
  PROVE  PInv'
<1>1. call[c].proposal \in Proposal
  BY HeldCopy DEF PInv, PublishExisting, PublishCommit
<1> PICK q \in Proposal : q = call[c].proposal
  BY <1>1
<1> DEFINE r == PublishedForm(q)
           k == Putting(r, "idle")
<1>2. r.status = "published" /\ r.id = q.id
  BY <1>1, PublishedFormFacts
<1>3. k.pc = "put" /\ k.proposal = r
  BY DEF Putting
<1>4. GoOn(c, k) /\ UNCHANGED store
  BY DEF PublishExisting, PublishCommit
<1>5. PublisherOK
  BY DEF PInv, IInv, TypeOK, PublisherOK
<1>6. Kept /\ H!InLog(q.id)' /\ CommitOwnsPending'
  <2>1. CASE PublishExisting(c)
    <3>1. UNCHANGED <<log, reserved, writer>> /\ H!InLog(q.id)
      BY <2>1 DEF PublishExisting, publisher, Live, H!InLog
    <3> HIDE DEF k
    <3> QED
      BY <1>1, <1>3, <1>4, <3>1, UnchangedKept, OwnsOnMove DEF H!InLog
  <2>2. CASE PublishCommit(c)
    <3>1. H!Commit /\ writer = c /\ reserved.proposal = q.id
      BY <2>2 DEF PublishCommit, PInv, CommitOwnsPending
    <3>2. Kept /\ H!InLog(q.id)'
      BY <1>5, <3>1, CommitKept
    <3> HIDE DEF k
    <3> QED
      BY <1>3, <1>4, <3>1, <3>2, OwnsOnMove
  <2> QED
    BY <2>1, <2>2
<1> HIDE DEF r, k
<1>7. k.pc = "put" => Backed(k.proposal)'
  BY <1>2, <1>3, <1>6 DEF Backed
<1> QED
  BY <1>4, <1>6, <1>7, MoveKeeps

\* The copy that is rolled back next has the mark that was found or made.
LEMMA RevertKeeps ==
  ASSUME PInv, IInv', NEW c \in Callers, RevertDone(c)
  PROVE  PInv'
<1>1. call[c].proposal \in Proposal
  BY HeldCopy DEF PInv, RevertDone
<1> PICK q \in Proposal : q = call[c].proposal
  BY <1>1
<1> DEFINE r == RolledBackForm(q)
           k == Putting(r, "idle")
<1>2. r.status = "rolled-back" /\ r.id = q.id
  BY <1>1, WithStatusFacts DEF RolledBackForm, Statuses
<1>3. k.pc = "put" /\ k.proposal = r
  BY DEF Putting
<1>4. GoOn(c, k) /\ UNCHANGED <<store, writer>> /\ writer = None
  BY DEF RevertDone
<1>5. PublisherOK
  BY DEF PInv, IInv, TypeOK, PublisherOK
<1>6. Kept /\ RevertedInLog(q.id)'
  <2>1. ASSUME NEW i \in DOMAIN log, log[i].proposal = q.id, H!Revert(i)
        PROVE  Kept /\ RevertedInLog(q.id)'
    BY <1>5, <2>1, RevertKept
  <2>2. CASE RevertedInLog(q.id) /\ UNCHANGED <<log, reserved>>
    BY <2>2, UnchangedKept DEF RevertedInLog
  <2> QED
    BY <2>1, <2>2 DEF RevertDone
<1> HIDE DEF r, k
<1>7. k.pc = "put" => Backed(k.proposal)'
  BY <1>2, <1>3, <1>6 DEF Backed
<1>8. CommitOwnsPending'
  BY <1>3, <1>4, OwnsOnMove
<1> QED
  BY <1>4, <1>6, <1>7, <1>8, MoveKeeps

\* A write brings a backed copy into the store; what follows it claims nothing.
LEMMA PutKeeps ==
  ASSUME PInv, IInv', NEW c \in Callers, Put(c)
  PROVE  PInv'
<1> DEFINE q == call[c].proposal
           after == call[c].after
<1>1. /\ q \in Proposal /\ q.id \in Proposals /\ Backed(q)
      /\ after \in {"idle", "decide", "approval"}
  BY HeldCopy DEF Put, PInv, CallFits, Proposal
<1>2. UNCHANGED <<log, reserved, writer>>
  BY DEF Put, publisher
<1>3. PICK k : GoOn(c, k) /\ k.pc \notin {"put", "commit"}
  <2>1. Idle.pc = "idle" /\ At(after, q).pc = after
    BY DEF Idle, At
  <2> QED
    BY <1>1, <2>1 DEF Put
<1>4. Kept
  BY <1>2, UnchangedKept
<1>5. CommitOwnsPending'
  BY <1>2, <1>3, OwnsOnMove
<1>6. (\A d \in Callers : call[d].pc = "put" => Backed(call[d].proposal))'
  BY <1>3, <1>4, CallsKept
<1>7. CASE UNCHANGED store
  BY <1>4, <1>5, <1>6, <1>7, StoreKept DEF PInv
<1>8. CASE store' = [store EXCEPT ![q.id] = q]
  <2>1. \A p \in Proposals : store'[p] = (IF p = q.id THEN q ELSE store[p])
    BY <1>1, <1>8 DEF PInv, IInv, TypeOK
  <2>2. \A p \in Proposals : store'[p] # None => Backed(store'[p])
    BY <1>1, <2>1 DEF PInv
  <2>3. (\A p \in Proposals : store[p] # None => Backed(store[p]))'
    BY <1>2, <2>2 DEF Backed, H!InLog, RevertedInLog
  <2> QED
    BY <1>5, <1>6, <2>3 DEF PInv
<1> QED
  BY <1>7, <1>8 DEF Put

LEMMA PublisherInit == Init => PInv
<1>1. Init => CommitOwnsPending
  BY DEF Init, Idle, CommitOwnsPending
<1>2. Init => \A p \in Proposals : store[p] = None
  BY DEF Init
<1>3. Init => \A c \in Callers : call[c].pc # "put"
  BY DEF Init, Idle
<1> QED
  BY <1>1, <1>2, <1>3, InitInvariant DEF PInv

LEMMA PublisherStep == PInv /\ [Next]_vars => PInv'
<1> SUFFICES ASSUME PInv, [Next]_vars PROVE PInv'
  OBVIOUS
<1>1. IInv'
  BY InvariantStep DEF PInv
<1>2. ASSUME NEW c \in Callers, Begin(c) PROVE PInv'
  BY <1>1, <1>2, BeginModest, ModestKeeps DEF PInv
<1>3. ASSUME NEW c \in Callers, Continue(c) PROVE PInv'
  BY <1>1, <1>3, ContinueModest, ModestKeeps, QueueKeeps, PublishedKeeps,
     RevertKeeps, PutKeeps DEF Continue, PInv
<1>4. ASSUME NEW c \in Callers, CallFails(c) PROVE PInv'
  <2>1. /\ GoOn(c, Idle) /\ Idle.pc = "idle" /\ UNCHANGED <<store, log, reserved>>
        /\ writer' = IF writer = c THEN None ELSE writer
    BY <1>4 DEF CallFails, Idle
  <2>2. CommitOwnsPending'
    BY <2>1, OwnsOnMove
  <2> QED
    BY <1>1, <2>1, <2>2, UnchangedKept, MoveKeeps
<1>5. CASE Crash
  <2>1. UNCHANGED <<store, log>> /\ \A c \in Callers : call'[c].pc = "idle"
    BY <1>5 DEF Crash, Idle
  <2>2. Kept
    BY <2>1, UnchangedKept
  <2> QED
    BY <1>1, <2>1, <2>2, StoreKept DEF PInv, CommitOwnsPending
<1>6. CASE UNCHANGED vars
  BY <1>1, <1>6 DEF vars, publisher, PInv, CommitOwnsPending, Backed, H!InLog, RevertedInLog
<1> QED
  BY <1>2, <1>3, <1>4, <1>5, <1>6 DEF Next

LEMMA PublisherInvariant == Spec => []PInv
BY PublisherInit, PublisherStep, PTL DEF Spec

\* A failure elsewhere, or a crash with no call in flight here, counts as a
\* fault; the publisher's queue is empty after the crash.
Elsewhere ==
  /\ UNCHANGED <<store, call, log, reserved, granted>>
  /\ writer' = writer \/ (writer' = None /\ \A c \in Callers : call[c] = Idle)
  /\ faults' \in 0..MaxFaults

LEMMA ElsewhereKeeps == PInv /\ Elsewhere => PInv'
<1> SUFFICES ASSUME PInv, Elsewhere PROVE PInv'
  OBVIOUS
<1>1. UNCHANGED <<store, call, log, reserved, granted>> /\ faults' \in 0..MaxFaults
  BY DEF Elsewhere
<1>2. IInv'
  <2>1. writer' \in Callers \cup {None}
    BY DEF Elsewhere, PInv, IInv, TypeOK
  <2>2. TypeOK'
    BY <1>1, <2>1 DEF PInv, IInv, TypeOK
  <2>3. (\A c \in Callers : CallFits(call[c]))' /\ (\A p \in Proposals : store[p] # None => Sound(store[p]))'
    BY <1>1 DEF PInv, IInv, CallFits, Sound, Passed
  <2> QED
    BY <2>2, <2>3 DEF IInv
<1>3. CommitOwnsPending'
  BY <1>1 DEF Elsewhere, Idle, PInv, CommitOwnsPending
<1>4. (\A p \in Proposals : store[p] # None => Backed(store[p]))'
      /\ (\A c \in Callers : call[c].pc = "put" => Backed(call[c].proposal))'
  BY <1>1 DEF PInv, Backed, H!InLog, RevertedInLog
<1> QED
  BY <1>2, <1>3, <1>4 DEF PInv

\* A call about to commit holds the publisher's queue and its own pending
\* publication, however many calls overlap, throw or die.
THEOREM OwnsPending == Spec => []CommitOwnsPending
<1>1. PInv => CommitOwnsPending
  BY DEF PInv
<1> QED
  BY <1>1, PublisherInvariant, PTL

\* The store never says published, or rolled back, before the publisher has
\* the revision, or its mark.
THEOREM StoreTrails == Spec => []StoreTrailsPublisher
<1>1. PInv => StoreTrailsPublisher
  <2> SUFFICES ASSUME PInv, NEW p \in Proposals, store[p] # None
               PROVE  /\ HasStatus(p, {"published"}) => H!InLog(p)
                      /\ HasStatus(p, {"rolled-back"}) => RevertedInLog(p)
    BY DEF StoreTrailsPublisher, HasStatus
  <2>1. store[p].id = p /\ Backed(store[p])
    BY DEF PInv, IInv, TypeOK
  <2> QED
    BY <2>1 DEF Backed, HasStatus
<1> QED
  BY <1>1, PublisherInvariant, PTL

-----------------------------------------------------------------------------
(* One review call at a time, as README.md asks of applications.  The call   *)
(* is the only writer then: the stored proposal keeps what the call's copy   *)
(* was decided on, until the call writes it.                                 *)

OneCaller == \A c, d \in Callers : c = d

\* A call k on a proposal that is stored as old, with the approvals g.
SerialCall(k, old, g) ==
  k.pc # "idle" =>
    /\ \/ old = None /\ k.pc = "put" /\ k.after = "idle" /\ k.proposal.status = "draft"
       \/ old # None /\ old.status \notin Completed
       \/ /\ old # None /\ old.status = "rejected"
          /\ k.pc = "put" /\ k.after = "idle" /\ k.proposal.status = "rejected"
       \/ /\ old # None /\ old.status = "published"
          /\ \/ k.pc = "revert"
             \/ k.pc = "put" /\ k.after = "idle" /\ k.proposal.status = "rolled-back"
    /\ k.pc \in {"decide", "approval", "publish", "commit"} =>
         /\ old # None
         /\ old.traits = k.proposal.traits
         /\ old.evaluation = k.proposal.evaluation
    /\ k.pc \in {"publish", "commit"} /\ NeedsReviewer(k.proposal) => k.proposal.id \in g
    /\ k.pc = "put" /\ k.after # "idle" => k.proposal.status \notin Completed

SerialInv ==
  /\ PInv
  /\ \A c \in Callers : SerialCall(call[c], store[call[c].proposal.id], granted)

\* A built-in policy that publishes asks no reviewer to be needed.
LEMMA DefaultPolicyPublishes ==
  ASSUME NEW t \in Traits, NEW e \in Evaluation, NEW sources \in Nat,
         defaultPolicyFor(t, e, Autonomy, sources) \notin {"reject", "request-approval"}
  PROVE  ~(Autonomy < 4) /\ ~e.structural
<1>1. Autonomy \in 0..5
  BY SettingsAssumption DEF AutonomyLevels
<1>2. /\ regressionPolicy(e) \in {"publish", "reject"}
      /\ securityPolicy(t) \in {"publish", "reject"}
      /\ scopePolicy(t, sources) \in {"publish", "reject"}
  BY DEF regressionPolicy, securityPolicy, scopePolicy
<1>3. CASE ~(Autonomy >= 4)
  BY <1>2, <1>3 DEF defaultPolicyFor, defaultEnterprisePromotionPolicy, Then
<1>4. CASE Autonomy >= 4 /\ e.structural
  <2>1. approvalAutonomyPolicy(t, e, Autonomy) = "request-approval"
    BY <1>4 DEF approvalAutonomyPolicy
  <2> QED
    BY <1>2, <1>4, <2>1 DEF defaultPolicyFor, defaultHobbyPromotionPolicy, Then
<1> QED
  BY <1>1, <1>3, <1>4

\* The call that goes on is the only one.
LEMMA SerialGoOn ==
  ASSUME OneCaller, IInv, NEW c \in Callers, NEW k, GoOn(c, k),
         SerialCall(k, store'[k.proposal.id], granted')
  PROVE  (\A d \in Callers : SerialCall(call[d], store[call[d].proposal.id], granted))'
<1>1. \A d \in Callers : call'[d] = k
  BY DEF GoOn, OneCaller, IInv, TypeOK
<1> QED
  BY <1>1

LEMMA SerialIdle == ASSUME NEW old, NEW g PROVE SerialCall(Idle, old, g)
  BY DEF SerialCall, Idle

\* An open proposal may be written with any status that the code gives it.
LEMMA SerialPutting ==
  ASSUME NEW old, NEW g, NEW r, NEW after, old # None, old.status \notin Completed,
         after # "idle" => r.status \notin Completed
  PROVE  SerialCall(Putting(r, after), old, g)
BY DEF SerialCall, Putting

LEMMA SerialPublishing ==
  ASSUME NEW old, NEW g, NEW q \in Proposal, old # None, old.status \notin Completed,
         old.traits = q.traits, old.evaluation = q.evaluation,
         NeedsReviewer(q) => q.id \in g
  PROVE  SerialCall(Publishing(q), old, g)
<1> DEFINE r == WithStatus(q, "approved")
<1>1. r.traits = q.traits /\ r.evaluation = q.evaluation /\ r.id = q.id
  BY WithStatusFacts DEF Statuses
<1>2. NeedsReviewer(r) <=> NeedsReviewer(q)
  BY <1>1 DEF NeedsReviewer
<1> HIDE DEF r
<1>3. SerialCall(At("publish", r), old, g)
  BY <1>1, <1>2 DEF SerialCall, At
<1>4. SerialCall(Putting(r, "idle"), old, g)
  BY SerialPutting
<1>5. SerialCall(Putting(WithStatus(q, "rejected"), "idle"), old, g)
  BY SerialPutting
<1> QED
  BY <1>3, <1>4, <1>5 DEF Publishing, r

LEMMA SerialApplied ==
  ASSUME NEW old, NEW g, NEW q \in Proposal, NEW decision,
         old # None, old.status \notin Completed,
         old.traits = q.traits, old.evaluation = q.evaluation,
         decision \notin {"reject", "request-approval"} => ~NeedsReviewer(q)
  PROVE  SerialCall(Applied(q, decision), old, g)
<1>1. CASE decision = "reject"
  BY <1>1, SerialPutting DEF Applied
<1>2. CASE decision = "request-approval"
  <2>1. WithStatus(q, "awaiting-approval").status \notin Completed
    BY WithStatusFacts DEF Statuses, Completed
  <2> QED
    BY <1>2, <2>1, SerialPutting DEF Applied
<1>3. CASE decision \notin {"reject", "request-approval"}
  BY <1>3, SerialPublishing DEF Applied
<1> QED
  BY <1>1, <1>2, <1>3

\* What the calls write is about the proposal they read.
LEMMA AppliedIds ==
  ASSUME NEW q \in Proposal, NEW decision
  PROVE  Applied(q, decision).proposal.id = q.id /\ Publishing(q).proposal.id = q.id
<1>1. \A status \in Statuses : WithStatus(q, status).id = q.id
  BY WithStatusFacts
<1>2. \A r, after : Putting(r, after).proposal = r /\ At("publish", r).proposal = r
  BY DEF Putting, At
<1>3. {"rejected", "approved", "awaiting-approval"} \subseteq Statuses
  BY DEF Statuses
<1>4. Publishing(q).proposal.id = q.id
  BY <1>1, <1>2, <1>3 DEF Publishing
<1> QED
  BY <1>1, <1>2, <1>3, <1>4 DEF Applied

LEMMA SerialEvaluation ==
  ASSUME OneCaller, IInv, NEW c \in Callers, NEW p \in Proposals, store[p] # None,
         NEW after, BeginEvaluation(c, p, after), UNCHANGED <<store, granted>>
  PROVE  (\A d \in Callers : SerialCall(call[d], store[call[d].proposal.id], granted))'
<1> PICK q \in Proposal : q = store[p] /\ q.id = p
  BY OpenCopy
<1> DEFINE k == [pc |-> "evaluator", after |-> after, proposal |-> q]
           r == Evaluated(q, MissingEvaluator)
<1>1. CASE GoOn(c, Idle)
  BY <1>1, SerialIdle, SerialGoOn
<1>2. CASE q.status \notin Completed /\ GoOn(c, k)
  <2>1. k.proposal.id = p
    OBVIOUS
  <2>2. SerialCall(k, store[p], granted)
    BY <1>2 DEF SerialCall
  <2> HIDE DEF k
  <2> QED
    BY <1>2, <2>1, <2>2, SerialGoOn
<1>3. CASE q.status \notin Completed /\ GoOn(c, Putting(r, after))
  <2>1. r.id = p /\ r.status \notin Completed
    BY EvaluatedFacts DEF MissingEvaluator, Evaluation, Verdicts, Completed
  <2>2. SerialCall(Putting(r, after), store[p], granted)
    BY <1>3, <2>1, SerialPutting
  <2>3. Putting(r, after).proposal = r
    BY DEF Putting
  <2> HIDE DEF r
  <2> QED
    BY <1>3, <2>1, <2>2, <2>3, SerialGoOn
<1> QED
  BY <1>1, <1>2, <1>3 DEF BeginEvaluation

LEMMA SerialBegin ==
  ASSUME OneCaller, IInv, NEW c \in Callers, Begin(c)
  PROVE  (\A d \in Callers : SerialCall(call[d], store[call[d].proposal.id], granted))'
<1> DEFINE Goal == (\A d \in Callers : SerialCall(call[d], store[call[d].proposal.id], granted))'
<1> PICK p \in Proposals : \/ Propose(c, p) \/ PutDraft(c, p)
                           \/ Evaluate(c, p) \/ Promote(c, p)
                           \/ Rollback(c, p) \/ Reject(c, p)
  BY DEF Begin
<1>0. store' = store
  BY DEF Propose, PutDraft, Drafting, Evaluate, Promote, Rollback, Reject
<1>1. CASE Propose(c, p) \/ PutDraft(c, p)
  <2>1. PICK s \in Skills, t \in CandidateTraits :
          GoOn(c, Putting(NewProposal(p, s, t), "idle"))
    BY <1>1 DEF Propose, PutDraft, Drafting
  <2> DEFINE r == NewProposal(p, s, t)
             k == Putting(r, "idle")
  <2>2. store[p] = None
    BY <1>1 DEF Propose, PutDraft, Drafting
  <2>3. k.proposal.id = p
    BY DEF NewProposal, Putting
  <2>4. SerialCall(k, store'[p], granted')
    BY <1>0, <2>2 DEF SerialCall, NewProposal, Putting
  <2> HIDE DEF k
  <2> QED
    BY <2>1, <2>3, <2>4, SerialGoOn DEF k
<1>2. CASE Evaluate(c, p)
  BY <1>2, SerialEvaluation DEF Evaluate
<1>3. CASE Promote(c, p)
  <2> PICK q \in Proposal : q = store[p] /\ q.id = p
    BY <1>3, OpenCopy DEF Promote
  <2>1. q # None /\ q.status \notin Completed
    BY <1>3 DEF Promote
  <2>2. CASE ~requiresEvaluation(Autonomy)
    <3>1. promotionDecisionForAutonomy(q.traits, Autonomy) = "reject"
      BY <2>2, LowAutonomyRejects, SettingsAssumption
    <3>2. GoOn(c, Applied(q, "reject"))
      BY <1>3, <2>2, <3>1 DEF Promote
    <3>3. SerialCall(Applied(q, "reject"), store'[p], granted')
      BY <1>0, <2>1, SerialApplied
    <3> QED
      BY <3>2, <3>3, AppliedIds, SerialGoOn
  <2>3. ASSUME NEW pc \in {"reread", "decide"}, GoOn(c, At(pc, q)) PROVE Goal
    <3>1. At(pc, q).proposal.id = p
      BY DEF At
    <3>2. SerialCall(At(pc, q), store'[p], granted')
      BY <1>0, <2>1, <2>3 DEF SerialCall, At
    <3> QED
      BY <2>3, <3>1, <3>2, SerialGoOn
  <2>4. \/ ~requiresEvaluation(Autonomy)
        \/ GoOn(c, At("reread", q))
        \/ GoOn(c, At("decide", q))
    BY <1>3 DEF Promote
  <2> QED
    BY <2>2, <2>3, <2>4
<1>4. CASE Rollback(c, p)
  <2> PICK q \in Proposal : q = store[p] /\ q.id = p
    BY <1>4, OpenCopy DEF Rollback
  <2>1. At("revert", q).proposal.id = p
    BY DEF At
  <2>2. SerialCall(At("revert", q), store'[p], granted')
    BY <1>0, <1>4 DEF SerialCall, At, Rollback
  <2> QED
    BY <1>4, <2>1, <2>2, SerialGoOn DEF Rollback
<1>5. CASE Reject(c, p)
  <2> PICK q \in Proposal : q = store[p] /\ q.id = p
    BY <1>5, OpenCopy DEF Reject
  <2> DEFINE r == WithStatus(q, "rejected")
  <2>1. r.id = p /\ r.status = "rejected"
    BY WithStatusFacts DEF Statuses
  <2>2. q # None /\ q.status \notin {"published", "rolled-back"}
    BY <1>5 DEF Reject
  <2>3. GoOn(c, Putting(r, "idle"))
    BY <1>5 DEF Reject
  <2> HIDE DEF r
  <2>4. SerialCall(Putting(r, "idle"), store'[p], granted')
    BY <1>0, <2>1, <2>2 DEF SerialCall, Putting, Completed
  <2>5. Putting(r, "idle").proposal = r
    BY DEF Putting
  <2> QED
    BY <2>1, <2>3, <2>4, <2>5, SerialGoOn
<1> QED
  BY <1>1, <1>2, <1>3, <1>4, <1>5

LEMMA SerialContinue ==
  ASSUME OneCaller, SerialInv, NEW c \in Callers, Continue(c)
  PROVE  (\A d \in Callers : SerialCall(call[d], store[call[d].proposal.id], granted))'
<1> DEFINE Goal == (\A d \in Callers : SerialCall(call[d], store[call[d].proposal.id], granted))'
<1>0. IInv /\ call[c].pc # "idle"
  BY DEF SerialInv, PInv, Continue, EvaluatorAnswers, Reread, Decide, ApprovalGiven,
     ApprovalRefused, PublishExisting, PublishRefused, PublishReserve, PublishResume,
     PublishCommit, RevertDone, RevertRefused, Put
<1> PICK q \in Proposal : q = call[c].proposal
  BY <1>0, HeldCopy
<1> DEFINE old == store[q.id]
<1>1. /\ SerialCall(call[c], old, granted)
      /\ q.id \in Proposals
  BY DEF SerialInv, Proposal
<1>2. CASE EvaluatorAnswers(c)
  <2>1. PICK e \in Evaluations : GoOn(c, Putting(Evaluated(q, e), call[c].after))
    BY <1>2 DEF EvaluatorAnswers
  <2> DEFINE r == Evaluated(q, e)
  <2>2. r.id = q.id /\ r.status \notin Completed
    BY EvaluatedFacts, SettingsAssumption DEF Completed
  <2>3. old # None /\ old.status \notin Completed /\ store' = store
    BY <1>1, <1>2 DEF EvaluatorAnswers, SerialCall
  <2>4. SerialCall(Putting(r, call[c].after), store'[q.id], granted')
    BY <2>2, <2>3, SerialPutting
  <2>5. Putting(r, call[c].after).proposal = r
    BY DEF Putting
  <2> HIDE DEF r
  <2>6. PICK k : k = Putting(r, call[c].after)
    OBVIOUS
  <2> QED
    BY <1>0, <2>1, <2>2, <2>4, <2>5, <2>6, SerialGoOn DEF r
<1>3. CASE Reread(c)
  BY <1>0, <1>1, <1>3, SerialEvaluation DEF Reread
<1>4. CASE Decide(c)
  <2>1. /\ old # None /\ old.status \notin Completed /\ store' = store
        /\ old.traits = q.traits /\ old.evaluation = q.evaluation
    BY <1>1, <1>4 DEF Decide, SerialCall
  <2>2. CASE GoOn(c, Idle)
    BY <1>0, <2>2, SerialIdle, SerialGoOn
  <2>3. ASSUME NEW sources \in 0..DefaultIndependentSources,
               GoOn(c, Applied(q, defaultPolicyFor(q.traits, q.evaluation, Autonomy, sources)))
        PROVE  Goal
    <3> DEFINE d == defaultPolicyFor(q.traits, q.evaluation, Autonomy, sources)
    <3>1. q.traits \in Traits /\ q.evaluation \in Evaluation /\ sources \in Nat
      BY <1>0, <1>4, HeldCopy DEF Decide, CallFits, Proposal, DefaultIndependentSources
    <3>2. d \notin {"reject", "request-approval"} => ~NeedsReviewer(q)
      BY <3>1, DefaultPolicyPublishes DEF NeedsReviewer
    <3> HIDE DEF d
    <3>3. SerialCall(Applied(q, d), store'[q.id], granted')
      BY <2>1, <3>2, SerialApplied
    <3>4. GoOn(c, Applied(q, d))
      BY <2>3 DEF d
    <3> QED
      BY <1>0, <3>3, <3>4, AppliedIds, SerialGoOn
  <2> QED
    BY <1>4, <2>2, <2>3 DEF Decide
<1>5. CASE ApprovalGiven(c)
  <2>1. /\ old # None /\ old.status \notin Completed /\ store' = store
        /\ old.traits = q.traits /\ old.evaluation = q.evaluation
        /\ q.id \in granted'
        /\ GoOn(c, Publishing(q))
    BY <1>1, <1>5 DEF ApprovalGiven, SerialCall
  <2>2. SerialCall(Publishing(q), store'[q.id], granted')
    BY <2>1, SerialPublishing
  <2> QED
    BY <1>0, <2>1, <2>2, AppliedIds, SerialGoOn
<1>6. CASE ApprovalRefused(c)
  <2> DEFINE r == WithStatus(q, "rejected")
  <2>1. /\ old # None /\ old.status \notin Completed /\ store' = store
        /\ GoOn(c, Putting(r, "idle"))
    BY <1>1, <1>6 DEF ApprovalRefused, SerialCall
  <2>2. r.id = q.id
    BY WithStatusFacts DEF Statuses
  <2> HIDE DEF r
  <2>3. SerialCall(Putting(r, "idle"), store'[q.id], granted') /\ Putting(r, "idle").proposal = r
    BY <2>1, SerialPutting DEF Putting
  <2> QED
    BY <1>0, <2>1, <2>2, <2>3, SerialGoOn
<1>7. CASE PublishExisting(c) \/ PublishCommit(c)
  <2> DEFINE r == PublishedForm(q)
  <2>1. /\ old # None /\ old.status \notin Completed /\ store' = store
        /\ GoOn(c, Putting(r, "idle"))
    BY <1>1, <1>7 DEF PublishExisting, PublishCommit, SerialCall
  <2>2. r.id = q.id
    BY PublishedFormFacts
  <2> HIDE DEF r
  <2>3. SerialCall(Putting(r, "idle"), store'[q.id], granted') /\ Putting(r, "idle").proposal = r
    BY <2>1, SerialPutting DEF Putting
  <2> QED
    BY <1>0, <2>1, <2>2, <2>3, SerialGoOn
<1>8. CASE PublishRefused(c) \/ RevertRefused(c)
  BY <1>0, <1>8, SerialIdle, SerialGoOn DEF PublishRefused, RevertRefused
<1>9. CASE PublishReserve(c) \/ PublishResume(c)
  <2>1. /\ old # None /\ old.status \notin Completed
        /\ old.traits = q.traits /\ old.evaluation = q.evaluation
        /\ NeedsReviewer(q) => q.id \in granted
        /\ store' = store /\ granted' = granted
        /\ GoOn(c, At("commit", q))
    BY <1>1, <1>9 DEF PublishReserve, PublishResume, SerialCall
  <2>2. SerialCall(At("commit", q), store'[q.id], granted') /\ At("commit", q).proposal = q
    BY <2>1 DEF SerialCall, At
  <2> QED
    BY <1>0, <2>1, <2>2, SerialGoOn
<1>10. CASE RevertDone(c)
  <2> DEFINE r == RolledBackForm(q)
  <2>1. r.id = q.id /\ r.status = "rolled-back"
    BY WithStatusFacts DEF RolledBackForm, Statuses
  <2>2. /\ old # None /\ (old.status \notin Completed \/ old.status = "published")
        /\ store' = store
        /\ GoOn(c, Putting(r, "idle"))
    BY <1>1, <1>10 DEF RevertDone, SerialCall
  <2> HIDE DEF r
  <2>3. SerialCall(Putting(r, "idle"), store'[q.id], granted') /\ Putting(r, "idle").proposal = r
    BY <2>1, <2>2 DEF SerialCall, Putting
  <2> QED
    BY <1>0, <2>1, <2>2, <2>3, SerialGoOn
<1>11. CASE Put(c)
  <2>1. CASE GoOn(c, Idle)
    BY <1>0, <2>1, SerialIdle, SerialGoOn
  <2>2. ASSUME call[c].after # "idle", GoOn(c, At(call[c].after, q)),
               store' = [store EXCEPT ![q.id] = q]
        PROVE  Goal
    <3> PICK after : after = call[c].after
      OBVIOUS
    <3>1. after \in {"decide", "approval"}
      BY <1>0, <1>11, <2>2, HeldCopy DEF Put, CallFits
    <3>2. q.status \notin Completed
      BY <1>1, <1>11, <2>2 DEF Put, SerialCall
    <3>3. store'[q.id] = q /\ q # None
      BY <1>0, <1>1, <2>2, NoneAssumption DEF IInv, TypeOK
    <3>4. SerialCall(At(after, q), store'[q.id], granted') /\ At(after, q).proposal = q
      BY <3>1, <3>2, <3>3 DEF SerialCall, At
    <3> QED
      BY <1>0, <2>2, <3>4, SerialGoOn
  <2> QED
    BY <1>11, <2>1, <2>2 DEF Put
<1> QED
  BY <1>2, <1>3, <1>4, <1>5, <1>6, <1>7, <1>8, <1>9, <1>10, <1>11 DEF Continue

LEMMA SerialStep ==
  ASSUME OneCaller, SerialInv, PInv', [Next]_vars PROVE SerialInv'
<1>1. IInv
  BY DEF SerialInv, PInv
<1>2. ASSUME NEW c \in Callers, Begin(c) PROVE SerialInv'
  BY <1>1, <1>2, SerialBegin DEF SerialInv
<1>3. ASSUME NEW c \in Callers, Continue(c) PROVE SerialInv'
  BY <1>3, SerialContinue DEF SerialInv
<1>4. ASSUME NEW c \in Callers, CallFails(c) PROVE SerialInv'
  BY <1>1, <1>4, SerialIdle, SerialGoOn DEF CallFails, SerialInv
<1>5. CASE Crash
  BY <1>5, SerialIdle DEF Crash, SerialInv
<1>6. CASE UNCHANGED vars
  BY <1>6 DEF vars, SerialInv
<1> QED
  BY <1>2, <1>3, <1>4, <1>5, <1>6 DEF Next

LEMMA SerialInvariant == ASSUME OneCaller PROVE Spec => []SerialInv
<1>1. Init => \A c \in Callers : SerialCall(call[c], store[call[c].proposal.id], granted)
  BY SerialIdle DEF Init
<1>2. SerialInv /\ [Next]_vars /\ PInv' => SerialInv'
  BY SerialStep
<1>3. Init /\ PInv => SerialInv
  BY <1>1 DEF SerialInv
<1> QED
  BY <1>2, <1>3, PublisherInvariant, PTL DEF Spec

\* With one review call at a time, a completed proposal stays so: a rejected or
\* rolled back one for good, a published one until it is rolled back.
THEOREM Terminal == ASSUME OneCaller PROVE Spec => CompletedIsTerminal
<1> DEFINE A == \A p \in Proposals :
             /\ HasStatus(p, {"rejected"}) => HasStatus(p, {"rejected"})'
             /\ HasStatus(p, {"rolled-back"}) => HasStatus(p, {"rolled-back"})'
             /\ HasStatus(p, {"published"}) => HasStatus(p, {"published", "rolled-back"})'
<1>1. ASSUME SerialInv, [Next]_vars PROVE A
  <2>1. CASE store' = store
    BY <2>1 DEF HasStatus
  <2>2. ASSUME NEW c \in Callers, Put(c), store' # store PROVE A
    <3>0. IInv /\ call[c].pc # "idle"
      BY <1>1, <2>2 DEF SerialInv, PInv, Put
    <3> PICK q \in Proposal : q = call[c].proposal
      BY <3>0, HeldCopy
    <3>1. /\ store' = [store EXCEPT ![q.id] = q] /\ q # None /\ q.id \in Proposals
      BY <2>2, NoneAssumption DEF Put, Proposal
    <3>2. \A p \in Proposals : store'[p] = (IF p = q.id THEN q ELSE store[p])
      BY <3>0, <3>1 DEF IInv, TypeOK
    <3>3. \/ store[q.id] = None
          \/ store[q.id].status \notin Completed
          \/ store[q.id].status = "rejected" /\ q.status = "rejected"
          \/ store[q.id].status = "published" /\ q.status = "rolled-back"
      BY <1>1, <2>2 DEF SerialInv, SerialCall, Put
    <3> QED
      BY <3>1, <3>2, <3>3 DEF HasStatus, Completed
  <2>3. ASSUME NEW c \in Callers, Begin(c) PROVE store' = store
    BY <2>3 DEF Begin, Propose, PutDraft, Drafting, Evaluate, Promote, Rollback, Reject
  <2>4. ASSUME NEW c \in Callers, Continue(c), ~Put(c) PROVE store' = store
    BY <2>4 DEF Continue, EvaluatorAnswers, Reread, Decide, ApprovalGiven, ApprovalRefused,
       PublishExisting, PublishRefused, PublishReserve, PublishResume, PublishCommit,
       RevertDone, RevertRefused
  <2> QED
    BY <1>1, <2>1, <2>2, <2>3, <2>4 DEF Next, CallFails, Crash, vars
<1>2. SerialInv /\ [Next]_vars => [A]_vars
  BY <1>1
<1> QED
  BY <1>2, SerialInvariant, PTL DEF Spec, CompletedIsTerminal

\* With one review call at a time, a publication starts and ends only for a
\* proposal stored as passed, and approved where the policy wants a reviewer.
THEOREM OnlyAccepted == ASSUME OneCaller PROVE Spec => PublishedOnlyAccepted
<1> DEFINE A == \A p \in Proposals :
             \/ reserved' # reserved /\ reserved' # None /\ reserved'.proposal = p
             \/ Len(log') > Len(log) /\ log'[Len(log')].proposal = p
             => /\ store[p] # None
                /\ Passed(store[p])
                /\ NeedsReviewer(store[p]) => p \in granted
<1>1. ASSUME SerialInv, [Next]_vars PROVE A
  <2>0. PublisherOK /\ Len(log) \in Nat
    BY <1>1 DEF SerialInv, PInv, IInv, TypeOK, PublisherOK
  <2>1. CASE UNCHANGED <<log, reserved>>
    BY <2>0, <2>1
  <2>2. ASSUME NEW c \in Callers, PublishReserve(c) \/ PublishCommit(c) PROVE A
    <3>0. IInv /\ call[c].pc \in {"publish", "commit"}
      BY <1>1, <2>2 DEF SerialInv, PInv, PublishReserve, PublishCommit
    <3> PICK q \in Proposal : q = call[c].proposal
      BY <3>0, HeldCopy
    <3>1. Sound(q) /\ q.status = "approved"
      BY <3>0, HeldCopy DEF CallFits
    <3>2. /\ store[q.id] # None
          /\ store[q.id].traits = q.traits /\ store[q.id].evaluation = q.evaluation
          /\ NeedsReviewer(q) => q.id \in granted
      BY <1>1, <3>0 DEF SerialInv, SerialCall
    <3>3. /\ Passed(store[q.id])
          /\ NeedsReviewer(store[q.id]) => q.id \in granted
      BY <3>1, <3>2, PassedFacts DEF Sound, NeedsReviewer
    <3>4. CASE PublishReserve(c)
      <4>1. log' = log /\ reserved' = [proposal |-> q.id, skill |-> q.skill]
        BY <3>4 DEF PublishReserve, H!Reserve
      <4> QED
        BY <2>0, <3>2, <3>3, <4>1
    <3>5. CASE PublishCommit(c)
      <4> DEFINE r == [proposal |-> reserved.proposal, skill |-> reserved.skill,
                       reverted |-> FALSE]
      <4>1. log' = Append(log, r) /\ reserved' = None /\ reserved.proposal = q.id
        BY <1>1, <3>5 DEF PublishCommit, H!Commit, SerialInv, PInv, CommitOwnsPending
      <4>2. r.proposal = q.id
        BY <4>1
      <4> HIDE DEF r
      <4>3. log'[Len(log')] = r
        BY <2>0, <4>1 DEF PublisherOK
      <4> QED
        BY <3>2, <3>3, <4>1, <4>2, <4>3
    <3> QED
      BY <2>2, <3>4, <3>5
  <2>3. ASSUME NEW c \in Callers, RevertDone(c) PROVE A
    <3>1. reserved' = reserved /\ (log' = log \/ \E i \in DOMAIN log : log' = [log EXCEPT ![i].reverted = TRUE])
      BY <2>3 DEF RevertDone, H!Revert
    <3>2. Len(log') = Len(log)
      BY <2>0, <3>1 DEF PublisherOK
    <3> QED
      BY <2>0, <3>1, <3>2
  <2>4. ASSUME NEW c \in Callers, Begin(c) PROVE UNCHANGED <<log, reserved>>
    BY <2>4 DEF Begin, Propose, PutDraft, Drafting, Evaluate, Promote, Rollback, Reject, publisher
  <2>5. ASSUME NEW c \in Callers, Continue(c),
               ~PublishReserve(c), ~PublishCommit(c), ~RevertDone(c)
        PROVE  UNCHANGED <<log, reserved>>
    BY <2>5 DEF Continue, EvaluatorAnswers, Reread, Decide, ApprovalGiven, ApprovalRefused,
       PublishExisting, PublishRefused, PublishResume, RevertRefused, Put, publisher
  <2> QED
    BY <1>1, <2>1, <2>2, <2>3, <2>4, <2>5 DEF Next, CallFails, Crash, vars, publisher
<1>2. SerialInv /\ [Next]_vars => [A]_vars
  BY <1>1
<1> QED
  BY <1>2, SerialInvariant, PTL DEF Spec, PublishedOnlyAccepted

\* In one uninterrupted call at a time, the publisher's history holds each
\* proposal once, what it has reserved is about to be committed, and what it
\* holds live is stored as published or about to be.
Telling(k, p) == k.pc = "put" /\ k.proposal.status = "published" /\ k.proposal.id = p

OnceInLog == \A i, j \in DOMAIN log : log[i].proposal = log[j].proposal => i = j

Committing ==
  reserved # None =>
    /\ ~H!InLog(reserved.proposal)
    /\ \E c \in Callers : call[c].pc = "commit"

LiveIsTold ==
  \A p \in Proposals :
    Live(p) => HasStatus(p, {"published"}) \/ \E c \in Callers : Telling(call[c], p)

UninterruptedInv == SerialInv /\ OnceInLog /\ Committing /\ LiveIsTold

\* While the call neither commits nor writes, nothing is left to be told.
LEMMA NothingLeft ==
  ASSUME OneCaller, UninterruptedInv, NEW c \in Callers, call[c].pc \notin {"put", "commit"}
  PROVE  reserved = None /\ \A p \in Proposals : Live(p) => HasStatus(p, {"published"})
BY DEF OneCaller, UninterruptedInv, Committing, LiveIsTold, Telling

\* Such a call may go on as it likes, as long as the publisher and the store stay.
LEMMA QuietKeeps ==
  ASSUME OneCaller, UninterruptedInv, NEW c \in Callers, call[c].pc \notin {"put", "commit"},
         UNCHANGED <<store, log, reserved>>
  PROVE  OnceInLog' /\ Committing' /\ LiveIsTold'
<1>1. reserved = None /\ \A p \in Proposals : Live(p) => HasStatus(p, {"published"})
  BY NothingLeft
<1>2. OnceInLog' /\ Committing'
  BY <1>1 DEF UninterruptedInv, OnceInLog, Committing
<1>3. LiveIsTold'
  BY <1>1 DEF LiveIsTold, Live, HasStatus
<1> QED
  BY <1>2, <1>3

\* The calls that write to the publisher.
LEMMA ReserveUninterrupted ==
  ASSUME OneCaller, UninterruptedInv, NEW c \in Callers, PublishReserve(c)
  PROVE  OnceInLog' /\ Committing' /\ LiveIsTold'
<1>1. \A p \in Proposals : Live(p) => HasStatus(p, {"published"})
  BY NothingLeft DEF PublishReserve
<1>2. /\ UNCHANGED <<store, log>>
      /\ ~H!InLog(call[c].proposal.id)
      /\ reserved' = [proposal |-> call[c].proposal.id, skill |-> call[c].proposal.skill]
  BY DEF PublishReserve, H!Reserve
<1>3. call'[c].pc = "commit"
  BY DEF PublishReserve, GoOn, At, UninterruptedInv, SerialInv, PInv, IInv, TypeOK
<1>4. OnceInLog' /\ Committing'
  BY <1>2, <1>3 DEF UninterruptedInv, OnceInLog, Committing, H!InLog
<1>5. LiveIsTold'
  BY <1>1, <1>2 DEF LiveIsTold, Live, HasStatus
<1> QED
  BY <1>4, <1>5

LEMMA CommitUninterrupted ==
  ASSUME OneCaller, UninterruptedInv, NEW c \in Callers, PublishCommit(c)
  PROVE  OnceInLog' /\ Committing' /\ LiveIsTold'
<1>0. IInv /\ CommitOwnsPending /\ PublisherOK /\ call[c].pc = "commit"
  BY DEF UninterruptedInv, SerialInv, PInv, IInv, TypeOK, PublisherOK, PublishCommit
<1> PICK q \in Proposal : q = call[c].proposal
  BY <1>0, HeldCopy
<1> DEFINE r == [proposal |-> reserved.proposal, skill |-> reserved.skill,
                 reverted |-> FALSE]
<1>1. log' = Append(log, r) /\ reserved' = None /\ store' = store
  BY DEF PublishCommit, H!Commit
<1>2. r.proposal = q.id /\ ~H!InLog(q.id)
  BY <1>0 DEF CommitOwnsPending, UninterruptedInv, Committing
<1> HIDE DEF r
<1>3. /\ DOMAIN log = 1 .. Len(log)
      /\ DOMAIN log' = 1 .. Len(log) + 1
      /\ log'[Len(log) + 1] = r
      /\ \A i \in 1 .. Len(log) : log'[i] = log[i]
      /\ Len(log) \in Nat
  BY <1>0, <1>1 DEF PublisherOK
<1>4. OnceInLog'
  BY <1>2, <1>3 DEF UninterruptedInv, OnceInLog, H!InLog
<1>5. Committing'
  BY <1>1 DEF Committing
<1>6. Telling(call'[c], q.id)
  <2>1. call'[c] = Putting(PublishedForm(q), "idle")
    BY <1>0 DEF PublishCommit, GoOn, IInv, TypeOK
  <2>2. PublishedForm(q).id = q.id /\ PublishedForm(q).status = "published"
    BY PublishedFormFacts
  <2> QED
    BY <2>1, <2>2 DEF Putting, Telling
<1>7. \A p \in Proposals : Live(p) => HasStatus(p, {"published"})
  BY <1>0 DEF OneCaller, UninterruptedInv, LiveIsTold, Telling
<1>8. \A p \in Proposals : Live(p)' => Live(p) \/ p = q.id
  BY <1>2, <1>3 DEF Live
<1>9. LiveIsTold'
  BY <1>1, <1>6, <1>7, <1>8 DEF LiveIsTold, HasStatus, Telling
<1> QED
  BY <1>4, <1>5, <1>9

LEMMA RevertUninterrupted ==
  ASSUME OneCaller, UninterruptedInv, NEW c \in Callers, RevertDone(c)
  PROVE  OnceInLog' /\ Committing' /\ LiveIsTold'
<1>0. PublisherOK /\ call[c].pc = "revert"
  BY DEF UninterruptedInv, SerialInv, PInv, IInv, TypeOK, PublisherOK, RevertDone
<1>1. CASE UNCHANGED <<log, reserved>>
  BY <1>0, <1>1, QuietKeeps DEF RevertDone
<1>2. ASSUME NEW i \in DOMAIN log, H!Revert(i) PROVE OnceInLog' /\ Committing' /\ LiveIsTold'
  <2> DEFINE r == [log[i] EXCEPT !.reverted = TRUE]
  <2>1. log[i] \in H!Revision
    BY <1>0 DEF PublisherOK
  <2>2. r.proposal = log[i].proposal /\ r.reverted
    BY <2>1 DEF H!Revision
  <2>3. log' = [log EXCEPT ![i] = r] /\ reserved' = reserved /\ store' = store
    BY <1>2 DEF RevertDone, H!Revert
  <2> HIDE DEF r
  <2>4. DOMAIN log' = DOMAIN log /\ log'[i] = r /\ \A j \in DOMAIN log \ {i} : log'[j] = log[j]
    BY <2>3
  <2>5. reserved = None /\ \A p \in Proposals : Live(p) => HasStatus(p, {"published"})
    BY <1>0, NothingLeft
  <2>6. \A j \in DOMAIN log : log'[j].proposal = log[j].proposal
    BY <2>2, <2>4
  <2>7. \A p \in Proposals : Live(p)' => Live(p)
    BY <2>2, <2>4 DEF Live
  <2>8. OnceInLog'
    BY <2>4, <2>6 DEF UninterruptedInv, OnceInLog
  <2> QED
    BY <2>3, <2>5, <2>7, <2>8 DEF Committing, LiveIsTold, HasStatus
<1> QED
  BY <1>1, <1>2 DEF RevertDone

\* The write of the call, which nothing else has written to meanwhile.
LEMMA PutUninterrupted ==
  ASSUME OneCaller, UninterruptedInv, NEW c \in Callers, Put(c)
  PROVE  OnceInLog' /\ Committing' /\ LiveIsTold'
<1>0. IInv /\ call[c].pc = "put" /\ UNCHANGED <<log, reserved>>
  BY DEF UninterruptedInv, SerialInv, PInv, Put, publisher
<1> PICK q \in Proposal : q = call[c].proposal /\ q.id \in Proposals
  BY <1>0, HeldCopy DEF Proposal
<1> DEFINE old == store[q.id]
<1>1. SerialCall(call[c], old, granted) /\ Sound(q) /\ Backed(q)
  BY <1>0, HeldCopy DEF UninterruptedInv, SerialInv, PInv, CallFits
<1>2. reserved = None
  BY <1>0 DEF OneCaller, UninterruptedInv, Committing
<1>3. OnceInLog' /\ Committing'
  BY <1>0, <1>2 DEF UninterruptedInv, OnceInLog, Committing
<1>4. \A p \in Proposals : Live(p) =>
        HasStatus(p, {"published"}) \/ (p = q.id /\ q.status = "published")
  BY DEF OneCaller, UninterruptedInv, LiveIsTold, Telling
<1>5. q.status = "published" => ~Conflicts(q)
  <2> SUFFICES ASSUME q.status = "published", old # None PROVE ~proposalUpsertConflicts(old, q)
    BY DEF Conflicts
  <2>1. old.status \notin Completed
    BY <1>0, <1>1 DEF SerialCall
  <2>2. old.version = 0 /\ old.status # "published" /\ q.version = 1
    BY <1>0, <1>1, <2>1 DEF IInv, Sound, Completed
  <2> QED
    BY <2>2 DEF proposalUpsertConflicts
<1>6. CASE Conflicts(q)
  <2>1. store' = store
    BY <1>6 DEF Put
  <2> QED
    BY <1>0, <1>3, <1>4, <1>5, <1>6, <2>1 DEF LiveIsTold, Live, HasStatus
<1>7. CASE ~Conflicts(q)
  <2>1. store' = [store EXCEPT ![q.id] = q] /\ q # None
    BY <1>7, NoneAssumption DEF Put
  <2>2. \A p \in Proposals : store'[p] = (IF p = q.id THEN q ELSE store[p])
    BY <1>0, <2>1 DEF IInv, TypeOK
  <2>3. q.status # "published" => ~Live(q.id)
    <3>1. CASE q.status = "rolled-back"
      BY <1>1, <3>1 DEF Backed, RevertedInLog, Live, UninterruptedInv, OnceInLog
    <3>2. CASE q.status \notin {"published", "rolled-back"}
      <4>1. ~HasStatus(q.id, {"published"})
        BY <1>0, <1>1, <3>2 DEF SerialCall, HasStatus, Completed
      <4> QED
        BY <1>4, <3>2, <4>1
    <3> QED
      BY <3>1, <3>2
  <2>4. \A p \in Proposals : Live(p) => HasStatus(p, {"published"})'
    BY <1>4, <2>1, <2>2, <2>3 DEF HasStatus
  <2> QED
    BY <1>0, <1>3, <2>4 DEF LiveIsTold, Live, HasStatus
<1> QED
  BY <1>6, <1>7

LEMMA UninterruptedStep ==
  ASSUME OneCaller, MaxFaults = 0, UninterruptedInv, SerialInv', [Next]_vars
  PROVE  UninterruptedInv'
<1> SUFFICES OnceInLog' /\ Committing' /\ LiveIsTold'
  BY DEF UninterruptedInv
<1>1. ASSUME NEW c \in Callers, Begin(c) PROVE OnceInLog' /\ Committing' /\ LiveIsTold'
  <2>1. call[c].pc = "idle" /\ UNCHANGED <<store, log, reserved>>
    BY <1>1 DEF Begin, Propose, PutDraft, Drafting, Evaluate, Promote, Rollback, Reject,
       Starts, Idle, publisher
  <2> QED
    BY <2>1, QuietKeeps
<1>2. ASSUME NEW c \in Callers,
             \/ EvaluatorAnswers(c) \/ Reread(c) \/ Decide(c) \/ ApprovalGiven(c)
             \/ ApprovalRefused(c) \/ PublishExisting(c) \/ PublishRefused(c)
             \/ PublishResume(c) \/ RevertRefused(c)
      PROVE  OnceInLog' /\ Committing' /\ LiveIsTold'
  <2>1. call[c].pc \notin {"put", "commit"} /\ UNCHANGED <<store, log, reserved>>
    BY <1>2 DEF EvaluatorAnswers, Reread, Decide, ApprovalGiven, ApprovalRefused,
       PublishExisting, PublishRefused, PublishResume, RevertRefused, publisher
  <2> QED
    BY <2>1, QuietKeeps
<1>3. ASSUME NEW c \in Callers, Continue(c) PROVE OnceInLog' /\ Committing' /\ LiveIsTold'
  BY <1>2, <1>3, ReserveUninterrupted, CommitUninterrupted, RevertUninterrupted,
     PutUninterrupted DEF Continue
<1>4. faults = 0
  BY DEF UninterruptedInv, SerialInv, PInv, IInv, TypeOK
<1>5. CASE UNCHANGED vars
  BY <1>5 DEF vars, publisher, UninterruptedInv, OnceInLog, Committing, LiveIsTold, Live,
     HasStatus, Telling, H!InLog
<1> QED
  BY <1>1, <1>3, <1>4, <1>5 DEF Next, CallFails, Crash

\* A rejected proposal has neither a live revision nor a reserved one, as
\* README.md promises of reject, as long as one review call runs at a time and
\* none of them fails: the overlap, the failure or the crash that
\* MCImprovementRejected shows is all that can break it.
THEOREM RejectedEndsUnpublished ==
  ASSUME OneCaller, MaxFaults = 0 PROVE Spec => []RejectedIsUnpublished
<1>1. Init => OnceInLog /\ Committing /\ LiveIsTold
  BY DEF Init, H!Init, OnceInLog, Committing, LiveIsTold, Live
<1>2. Init /\ SerialInv => UninterruptedInv
  BY <1>1 DEF UninterruptedInv
<1>3. UninterruptedInv /\ [Next]_vars /\ SerialInv' => UninterruptedInv'
  BY UninterruptedStep
<1>4. UninterruptedInv => RejectedIsUnpublished
  <2> SUFFICES ASSUME UninterruptedInv, NEW p \in Proposals, HasStatus(p, {"rejected"})
               PROVE  ~Live(p) /\ (reserved = None \/ reserved.proposal # p)
    BY DEF RejectedIsUnpublished
  <2>1. \A c \in Callers : SerialCall(call[c], store[call[c].proposal.id], granted)
    BY DEF UninterruptedInv, SerialInv
  <2>2. ~\E c \in Callers : Telling(call[c], p)
    BY <2>1 DEF Telling, SerialCall, HasStatus, Completed
  <2>3. ~Live(p)
    BY <2>2 DEF UninterruptedInv, LiveIsTold, HasStatus
  <2>4. reserved # None => reserved.proposal # p
    <3> SUFFICES ASSUME reserved # None, reserved.proposal = p PROVE FALSE
      OBVIOUS
    <3>1. PICK c \in Callers : call[c].pc = "commit"
      BY DEF UninterruptedInv, Committing
    <3>2. call[c].proposal.id = p
      BY <3>1 DEF UninterruptedInv, SerialInv, PInv, CommitOwnsPending
    <3> QED
      BY <2>1, <3>1, <3>2 DEF SerialCall, HasStatus, Completed
  <2> QED
    BY <2>3, <2>4
<1> QED
  BY <1>2, <1>3, <1>4, SerialInvariant, PTL DEF Spec

LEMMA ElsewhereSerial == SerialInv /\ Elsewhere => SerialInv'
<1>1. ASSUME SerialInv, Elsewhere PROVE SerialInv'
  <2>1. PInv'
    BY <1>1, ElsewhereKeeps DEF SerialInv
  <2> QED
    BY <1>1, <2>1 DEF SerialInv, Elsewhere
<1> QED  BY <1>1

-----------------------------------------------------------------------------
(* What a module that makes calls of this runtime needs to know of them.    *)

\* Where a promote call may be; what it writes last is decided.
Deciding(k) ==
  /\ k.pc \in {"reread", "evaluator", "put", "decide", "approval", "publish", "commit"}
  /\ k.pc = "evaluator" => k.after = "decide"
  /\ k.pc = "put" /\ k.after = "idle" => k.proposal.status \notin {"draft", "evaluating"}

\* A call on p goes on, or is over.
CallOf(k, p) == k # Idle => k.proposal # None /\ k.proposal.id = p

LEMMA AppliedDecides ==
  ASSUME NEW q \in Proposal, NEW decision
  PROVE  /\ CallOf(Applied(q, decision), q.id) /\ CallOf(Publishing(q), q.id)
         /\ Deciding(Applied(q, decision)) /\ Deciding(Publishing(q))
         /\ Applied(q, decision) # Idle
<1>1. /\ WithStatus(q, "rejected") \in Proposal /\ WithStatus(q, "rejected").status = "rejected"
      /\ WithStatus(q, "approved") \in Proposal /\ WithStatus(q, "approved").status = "approved"
      /\ WithStatus(q, "awaiting-approval") \in Proposal
      /\ WithStatus(q, "awaiting-approval").status = "awaiting-approval"
      /\ \A status \in {"rejected", "approved", "awaiting-approval"} :
           WithStatus(q, status).id = q.id
  BY WithStatusFacts DEF Statuses
<1>2. \A r, after : r \in Proposal /\ r.id = q.id /\ r.status \notin {"draft", "evaluating"} =>
        /\ CallOf(Putting(r, after), q.id)
        /\ Deciding(Putting(r, after)) /\ Putting(r, after) # Idle
  BY NoneAssumption DEF CallOf, Deciding, Putting, Idle
<1>3. \A r : r \in Proposal /\ r.id = q.id =>
        /\ CallOf(At("publish", r), q.id) /\ Deciding(At("publish", r)) /\ At("publish", r) # Idle
  BY NoneAssumption DEF CallOf, Deciding, At, Idle
<1>4. CallOf(Publishing(q), q.id) /\ Deciding(Publishing(q)) /\ Publishing(q) # Idle
  BY <1>1, <1>2, <1>3 DEF Publishing
<1> QED
  BY <1>1, <1>2, <1>4 DEF Applied

LEMMA EvaluationCalls ==
  ASSUME IInv, NEW c \in Callers, NEW p \in Proposals, store[p] # None,
         NEW after, BeginEvaluation(c, p, after)
  PROVE  \E k : /\ GoOn(c, k) /\ CallOf(k, p)
                /\ after = "decide" /\ k # Idle => Deciding(k)
<1> PICK q \in Proposal : q = store[p] /\ q.id = p
  BY OpenCopy
<1> DEFINE r == Evaluated(q, MissingEvaluator)
<1>1. r \in Proposal /\ r.id = p
  BY EvaluatedFacts DEF MissingEvaluator, Evaluation, Verdicts
<1> HIDE DEF r
<1>2. CallOf(Putting(r, after), p) /\ (after = "decide" => Deciding(Putting(r, after)))
  BY <1>1, NoneAssumption DEF CallOf, Deciding, Putting
<1>3. LET k == [pc |-> "evaluator", after |-> after, proposal |-> q]
      IN CallOf(k, p) /\ (after = "decide" => Deciding(k))
  BY NoneAssumption DEF CallOf, Deciding
<1>4. CallOf(Idle, p)
  BY DEF CallOf
<1> QED
  BY <1>2, <1>3, <1>4 DEF BeginEvaluation, r

\* A call that begins is on the stored proposal that it is asked for.
LEMMA BeginCalls ==
  ASSUME IInv, NEW c \in Callers, NEW p \in Proposals
  PROVE  /\ Evaluate(c, p) \/ Rollback(c, p) \/ Reject(c, p) =>
              \E k : GoOn(c, k) /\ CallOf(k, p)
         /\ Promote(c, p) => \E k : /\ GoOn(c, k) /\ CallOf(k, p)
                                    /\ k # Idle /\ Deciding(k)
<1>1. ASSUME Evaluate(c, p) PROVE \E k : GoOn(c, k) /\ CallOf(k, p)
  BY <1>1, EvaluationCalls DEF Evaluate
<1>2. ASSUME Rollback(c, p) PROVE \E k : GoOn(c, k) /\ CallOf(k, p)
  <2>1. store[p] \in Proposal /\ store[p].id = p
    BY <1>2, OpenCopy DEF Rollback
  <2>2. CallOf(At("revert", store[p]), p)
    BY <2>1, NoneAssumption DEF CallOf, At
  <2> QED  BY <1>2, <2>2 DEF Rollback
<1>3. ASSUME Reject(c, p) PROVE \E k : GoOn(c, k) /\ CallOf(k, p)
  <2>1. store[p] \in Proposal /\ store[p].id = p
    BY <1>3, OpenCopy DEF Reject
  <2>2. WithStatus(store[p], "rejected") \in Proposal /\ WithStatus(store[p], "rejected").id = p
    BY <2>1, WithStatusFacts DEF Statuses
  <2>3. CallOf(Putting(WithStatus(store[p], "rejected"), "idle"), p)
    BY <2>2, NoneAssumption DEF CallOf, Putting
  <2> QED  BY <1>3, <2>3 DEF Reject
<1>4. ASSUME Promote(c, p)
      PROVE  \E k : GoOn(c, k) /\ CallOf(k, p) /\ k # Idle /\ Deciding(k)
  <2> PICK q \in Proposal : q = store[p] /\ q.id = p
    BY <1>4, OpenCopy DEF Promote
  <2>1. \A pc \in {"reread", "decide"} :
          CallOf(At(pc, q), p) /\ At(pc, q) # Idle /\ Deciding(At(pc, q))
    BY NoneAssumption DEF CallOf, At, Idle, Deciding
  <2> QED  BY <1>4, <2>1, AppliedDecides DEF Promote
<1> QED  BY <1>1, <1>2, <1>3, <1>4

\* A call that goes on stays on its proposal, and a promote call one of these.
LEMMA ContinueCalls ==
  ASSUME IInv, NEW c \in Callers, Continue(c)
  PROVE  \E k : /\ GoOn(c, k) /\ CallOf(k, call[c].proposal.id)
                /\ k # Idle /\ Deciding(call[c]) => Deciding(k)
<1> DEFINE q == call[c].proposal
           Goal == \E k : /\ GoOn(c, k) /\ CallOf(k, q.id)
                          /\ k # Idle /\ Deciding(call[c]) => Deciding(k)
<1>1. call[c].pc # "idle"
  BY DEF Continue, EvaluatorAnswers, Reread, Decide, ApprovalGiven, ApprovalRefused,
     PublishExisting, PublishRefused, PublishReserve, PublishResume, PublishCommit,
     RevertDone, RevertRefused, Put
<1>2. q \in Proposal /\ CallFits(call[c]) /\ call[c] \in Call /\ q # None
  BY <1>1, HeldCopy, NoneAssumption
<1>3. CallOf(Idle, q.id)
  BY DEF CallOf
<1>4. \A r, after : r \in Proposal /\ r.id = q.id /\ r.status \notin {"draft", "evaluating"} =>
        CallOf(Putting(r, after), q.id) /\ Deciding(Putting(r, after))
  BY NoneAssumption DEF CallOf, Deciding, Putting
<1>5. CASE EvaluatorAnswers(c)
  <2>1. PICK e \in Evaluations : GoOn(c, Putting(Evaluated(q, e), call[c].after))
    BY <1>5 DEF EvaluatorAnswers
  <2>2. Evaluated(q, e) \in Proposal /\ Evaluated(q, e).id = q.id
    BY <1>2, EvaluatedFacts, SettingsAssumption
  <2> DEFINE r == Evaluated(q, e)
  <2> HIDE DEF r
  <2>3. CallOf(Putting(r, call[c].after), q.id)
        /\ (Deciding(call[c]) => Deciding(Putting(r, call[c].after)))
    BY <1>5, <2>2, NoneAssumption DEF r, CallOf, Deciding, Putting, EvaluatorAnswers
  <2> QED  BY <2>1, <2>3 DEF r
<1>6. CASE Reread(c)
  <2>1. q.id \in Proposals
    BY <1>2 DEF Proposal
  <2>2. \E k : GoOn(c, k) /\ CallOf(k, q.id) /\ (k # Idle => Deciding(k))
    BY <1>6, <2>1, EvaluationCalls DEF Reread
  <2> QED  BY <2>2
<1>7. CASE Decide(c)
  BY <1>2, <1>3, <1>7, AppliedDecides DEF Decide
<1>8. CASE ApprovalGiven(c)
  BY <1>2, <1>8, AppliedDecides DEF ApprovalGiven
<1>9. CASE ApprovalRefused(c)
  <2>1. WithStatus(q, "rejected") \in Proposal /\ WithStatus(q, "rejected").id = q.id
        /\ WithStatus(q, "rejected").status = "rejected"
    BY <1>2, WithStatusFacts DEF Statuses
  <2> QED  BY <1>4, <1>9, <2>1 DEF ApprovalRefused
<1>10. CASE PublishExisting(c) \/ PublishCommit(c)
  <2>1. PublishedForm(q) \in Proposal /\ PublishedForm(q).id = q.id
        /\ PublishedForm(q).status = "published"
    BY <1>2, PublishedFormFacts
  <2> QED  BY <1>4, <1>10, <2>1 DEF PublishExisting, PublishCommit
<1>11. CASE PublishRefused(c) \/ RevertRefused(c)
  BY <1>3, <1>11 DEF PublishRefused, RevertRefused
<1>12. CASE PublishReserve(c) \/ PublishResume(c)
  <2>1. CallOf(At("commit", q), q.id) /\ Deciding(At("commit", q))
    BY <1>2 DEF CallOf, Deciding, At
  <2> QED  BY <1>12, <2>1 DEF PublishReserve, PublishResume
<1>13. CASE RevertDone(c)
  <2>1. WithStatus(q, "rolled-back") \in Proposal /\ WithStatus(q, "rolled-back").id = q.id
        /\ WithStatus(q, "rolled-back").status = "rolled-back"
    BY <1>2, WithStatusFacts DEF Statuses
  <2> QED  BY <1>4, <1>13, <2>1 DEF RevertDone, RolledBackForm
<1>14. CASE Put(c)
  <2>1. ASSUME call[c].after # "idle"
        PROVE  CallOf(At(call[c].after, q), q.id) /\ Deciding(At(call[c].after, q))
    BY <1>2, <1>14, <2>1 DEF Put, CallOf, Deciding, At, CallFits
  <2> QED  BY <1>3, <1>14, <2>1 DEF Put
<1> QED
  BY <1>5, <1>6, <1>7, <1>8, <1>9, <1>10, <1>11, <1>12, <1>13, <1>14 DEF Continue

\* How a call ends: at the policy because the verdict is inconclusive, and at
\* its write once the store holds what it wrote.
LEMMA CallEnds ==
  ASSUME IInv, NEW c \in Callers, Continue(c), call'[c] = Idle
  PROVE  /\ call[c].pc = "decide" =>
              call[c].proposal.evaluation.verdict = "inconclusive" /\ UNCHANGED store
         /\ call[c].pc = "put" /\ ~Conflicts(call[c].proposal) =>
              /\ call[c].after = "idle"
              /\ store' = [store EXCEPT ![call[c].proposal.id] = call[c].proposal]
<1>1. \A k : GoOn(c, k) => k = Idle
  BY DEF GoOn, IInv, TypeOK
<1>2. CASE call[c].pc = "decide"
  <2>1. Decide(c) /\ call[c].proposal \in Proposal
    BY <1>2, HeldCopy DEF Continue, EvaluatorAnswers, Reread, ApprovalGiven, ApprovalRefused,
       PublishExisting, PublishRefused, PublishReserve, PublishResume, PublishCommit,
       RevertDone, RevertRefused, Put
  <2> QED  BY <1>1, <1>2, <2>1, AppliedDecides DEF Decide
<1>3. CASE call[c].pc = "put"
  <2>1. Put(c) /\ CallFits(call[c])
    BY <1>3, HeldCopy DEF Continue, EvaluatorAnswers, Reread, Decide, ApprovalGiven,
       ApprovalRefused, PublishExisting, PublishRefused, PublishReserve, PublishResume,
       PublishCommit, RevertDone, RevertRefused
  <2>2. call[c].after # "idle" => At(call[c].after, call[c].proposal) # Idle
    BY <1>3, <2>1 DEF At, Idle, CallFits
  <2> QED  BY <1>1, <1>3, <2>1, <2>2 DEF Put
<1> QED  BY <1>2, <1>3

\* A write that nothing follows ends the call, done or refused.
LEMMA PutReturns ==
  ASSUME IInv, NEW c \in Callers, Continue(c), call[c].pc = "put", call[c].after = "idle"
  PROVE  call'[c] = Idle
<1>1. Put(c)
  BY DEF Continue, EvaluatorAnswers, Reread, Decide, ApprovalGiven,
     ApprovalRefused, PublishExisting, PublishRefused, PublishReserve, PublishResume,
     PublishCommit, RevertDone, RevertRefused
<1> QED  BY <1>1 DEF Put, GoOn, IInv, TypeOK

\* What a call that goes on does to the store, and to the publisher.
LEMMA ContinueEffects ==
  ASSUME IInv, NEW c \in Callers, Continue(c)
  PROVE  /\ call[c].pc # "idle"
         /\ \/ UNCHANGED store
            \/ /\ call[c].pc = "put"
               /\ store' = [store EXCEPT ![call[c].proposal.id] = call[c].proposal]
         /\ call[c].pc = "put" => UNCHANGED <<log, reserved>>
         /\ \A i \in DOMAIN log' :
              \/ \E j \in DOMAIN log : log[j].proposal = log'[i].proposal
              \/ reserved # None /\ log'[i].proposal = reserved.proposal
         /\ \/ reserved' = None \/ reserved' = reserved
            \/ reserved'.proposal = call[c].proposal.id
<1>0. PublisherOK
  BY DEF IInv, TypeOK, PublisherOK
<1>1. CASE PublishCommit(c)
  <2> DEFINE r == [proposal |-> reserved.proposal, skill |-> reserved.skill,
                   reverted |-> FALSE]
  <2>1. log' = Append(log, r) /\ reserved # None /\ reserved' = None
    BY <1>1 DEF PublishCommit, H!Commit
  <2>2. r.proposal = reserved.proposal
    OBVIOUS
  <2> HIDE DEF r
  <2>3. /\ DOMAIN log = 1 .. Len(log)
        /\ DOMAIN log' = 1 .. Len(log) + 1
        /\ log'[Len(log) + 1] = r
        /\ \A i \in 1 .. Len(log) : log'[i] = log[i]
        /\ Len(log) \in Nat
    BY <1>0, <2>1 DEF PublisherOK
  <2> QED  BY <1>1, <2>1, <2>2, <2>3 DEF PublishCommit
<1>2. CASE RevertDone(c)
  <2>1. ASSUME NEW i \in DOMAIN log, H!Revert(i)
        PROVE  /\ \A j \in DOMAIN log' : \E n \in DOMAIN log : log[n].proposal = log'[j].proposal
               /\ reserved' = reserved
    <3> DEFINE r == [log[i] EXCEPT !.reverted = TRUE]
    <3>1. r.proposal = log[i].proposal
      BY <1>0 DEF PublisherOK, H!Revision
    <3>2. log' = [log EXCEPT ![i] = r] /\ reserved' = reserved
      BY <2>1 DEF H!Revert
    <3> HIDE DEF r
    <3>3. DOMAIN log' = DOMAIN log /\ log'[i] = r /\ \A j \in DOMAIN log \ {i} : log'[j] = log[j]
      BY <3>2
    <3> QED  BY <3>1, <3>2, <3>3
  <2> QED  BY <1>2, <2>1 DEF RevertDone
<1>3. CASE PublishReserve(c)
  BY <1>3 DEF PublishReserve, H!Reserve
<1>4. CASE Put(c)
  BY <1>4 DEF Put, publisher
<1>5. CASE \/ EvaluatorAnswers(c) \/ Reread(c) \/ Decide(c) \/ ApprovalGiven(c)
           \/ ApprovalRefused(c) \/ PublishExisting(c) \/ PublishRefused(c)
           \/ PublishResume(c) \/ RevertRefused(c)
  BY <1>5 DEF EvaluatorAnswers, Reread, Decide, ApprovalGiven, ApprovalRefused,
     PublishExisting, PublishRefused, PublishResume, RevertRefused, publisher
<1> QED
  BY <1>1, <1>2, <1>3, <1>4, <1>5 DEF Continue

LEMMA BeginEffects ==
  ASSUME NEW c, NEW p, Evaluate(c, p) \/ Promote(c, p) \/ Rollback(c, p) \/ Reject(c, p)
  PROVE  call[c] = Idle /\ store[p] # None /\ UNCHANGED <<store, log, reserved>>
BY DEF Evaluate, Promote, Rollback, Reject, Starts, publisher
=============================================================================
