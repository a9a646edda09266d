------------------------ MODULE AutoPromotionProofs ------------------------
(***************************************************************************)
(* Theorems about AutoPromotion, for any lessons, proposals, settings and  *)
(* failures.                                                               *)
(*                                                                         *)
(* What its runtime calls do is proved in ImprovementProofs, of which this *)
(* module takes an instance.  A proposal that an event names is stored,    *)
(* and is of the lesson that the event says; whatever is beyond a draft,   *)
(* being reviewed, pending or published is named by an event (Inv).  With  *)
(* one ingest at a time a lesson has one event at most (SerialInv).        *)
(***************************************************************************)
EXTENDS AutoPromotion, TLAPS

IP == INSTANCE ImprovementProofs

-----------------------------------------------------------------------------
(* The inductive invariant. *)

Told(l, p) == \E i \in DOMAIN generated : generated[i] = [lesson |-> l, proposal |-> p]

Named(p) == \E i \in DOMAIN generated : generated[i].proposal = p

Drafted == {"proposing", "event"}
Announced == {"promote", "promoting", "remember"}

\* An ingest at g whose runtime call is at k.
IngestFits(g, k) ==
  /\ g.pc = "idle" => g = NotIngesting
  /\ g.pc # "idle" => g.lesson \in Lessons
  /\ g.pc \in Drafted \cup Announced => g.proposal \in Proposals
  /\ g.pc \notin {"idle", "proposing", "promoting"} => k = I!Idle
  /\ g.pc = "proposing" => /\ k.pc = "put" /\ k.after = "idle"
                           /\ k.proposal.id = g.proposal /\ k.proposal.status = "draft"
  /\ g.pc = "promoting" => k.proposal.id = g.proposal /\ IP!Deciding(k)
  /\ g.pc = "event" => store[g.proposal] # None
  /\ g.pc \in Drafted => lessonOf[g.proposal] = g.lesson
  /\ g.pc \in Announced => Told(g.lesson, g.proposal)
  /\ k # I!Idle /\ g.pc # "proposing" => Named(k.proposal.id)

LoopTypes ==
  /\ ingest \in [Callers -> Ingest]
  /\ generated \in Seq(Event)
  /\ remembered \subseteq Lessons
  /\ lessonOf \in [Proposals -> Lessons \cup {None}]

\* Events are true, and come before whatever is more than a draft.
\* A lesson that has an event has a first one.
EventsInv ==
  /\ \A i \in DOMAIN generated :
       /\ store[generated[i].proposal] # None
       /\ lessonOf[generated[i].proposal] = generated[i].lesson
  /\ \A p \in Proposals : store[p] # None /\ store[p].status # "draft" => Named(p)
  /\ \A i \in DOMAIN log : Named(log[i].proposal)
  /\ reserved # None => Named(reserved.proposal)
  /\ \A i \in DOMAIN generated : \E p \in Proposals : FirstGenerated(generated[i].lesson, p)

Inv ==
  /\ IP!PInv
  /\ LoopTypes
  /\ EventsInv
  /\ \A c \in Callers : IngestFits(ingest[c], call[c])

OneCaller == \A c, d \in Callers : c = d

OneEvent ==
  \A i, j \in DOMAIN generated : generated[i].lesson = generated[j].lesson => i = j

\* An ingest that has yet to write the event of its lesson writes the first
\* one; one that is about to remember its lesson has had an answer.
Serial(g) ==
  /\ g.pc \in Drafted => \A i \in DOMAIN generated : generated[i].lesson # g.lesson
  /\ g.pc = "remember" =>
       LET q == store[g.proposal] IN
       \/ q.status \in Settled \cup {"approved"}
       \/ q.evaluation # None /\ q.evaluation.verdict = "inconclusive"

SerialInv ==
  /\ Inv
  /\ IP!SerialInv
  /\ OneEvent
  /\ \A c \in Callers : Serial(ingest[c])

-----------------------------------------------------------------------------
(* The two instances of Improvement say the same. *)

LEMMA SameData ==
  /\ I!Idle = IP!Idle
  /\ I!Completed = IP!Completed
  /\ \A p, s : I!HasStatus(p, s) <=> IP!HasStatus(p, s)
  /\ \A q : I!Conflicts(q) <=> IP!Conflicts(q)
BY DEF I!Idle, IP!Idle, I!Completed, IP!Completed, I!HasStatus, IP!HasStatus,
     I!Conflicts, IP!Conflicts, I!proposalUpsertConflicts, IP!proposalUpsertConflicts

LEMMA SameSets ==
  /\ I!Statuses = IP!Statuses
  /\ I!Evaluation = IP!Evaluation
  /\ I!Traits = IP!Traits
  /\ I!Proposal = IP!Proposal
  /\ I!Call = IP!Call
  /\ I!H!Revision = IP!H!Revision
  /\ I!H!Reservation = IP!H!Reservation
<1>1. /\ I!Statuses = IP!Statuses
      /\ I!Evaluation = IP!Evaluation
      /\ I!Traits = IP!Traits
      /\ I!Steps = IP!Steps
      /\ I!H!Revision = IP!H!Revision
      /\ I!H!Reservation = IP!H!Reservation
  BY DEF I!Statuses, IP!Statuses, I!Evaluation, IP!Evaluation, I!Verdicts, IP!Verdicts,
       I!Traits, IP!Traits, I!Targets, IP!Targets, I!Steps, IP!Steps,
       I!H!Revision, IP!H!Revision, I!H!Reservation, IP!H!Reservation
<1>2. I!Proposal = IP!Proposal
  BY <1>1, Zenon DEF I!Proposal, IP!Proposal
<1> QED  BY <1>1, <1>2, Zenon DEF I!Call, IP!Call

LEMMA RuntimeAssumptions == IP!SettingsAssumption /\ IP!NoneAssumption
BY RuntimeAssumption, SameSets, Zenon
   DEF IP!SettingsAssumption, IP!NoneAssumption, I!SettingsAssumption, I!NoneAssumption,
       I!AllOperations, IP!AllOperations, I!AutonomyLevels, IP!AutonomyLevels

LEMMA SameInit == I!Init <=> IP!Init
BY SameData DEF I!Init, IP!Init, I!H!Init, IP!H!Init

LEMMA SameTypes == I!TypeOK <=> IP!TypeOK
BY SameSets, Zenon DEF I!TypeOK, IP!TypeOK

\* The operators of the runtime's calls.
LEMMA SameOperators ==
  /\ \A c, x : I!Starts(c, x) <=> IP!Starts(c, x)
  /\ \A c, k : I!GoOn(c, k) <=> IP!GoOn(c, k)
  /\ \A x, q : I!At(x, q) = IP!At(x, q)
  /\ \A q, x : I!Putting(q, x) = IP!Putting(q, x)
  /\ \A q, x : I!WithStatus(q, x) = IP!WithStatus(q, x)
  /\ \A p, s, x : I!NewProposal(p, s, x) = IP!NewProposal(p, s, x)
  /\ \A q, e : I!Evaluated(q, e) = IP!Evaluated(q, e)
  /\ I!MissingEvaluator = IP!MissingEvaluator
  /\ \A q : I!PublishedForm(q) = IP!PublishedForm(q)
BY SameData
   DEF I!Starts, IP!Starts, I!GoOn, IP!GoOn, I!At, IP!At, I!Putting, IP!Putting,
       I!WithStatus, IP!WithStatus, I!NewProposal, IP!NewProposal, I!Evaluated, IP!Evaluated,
       I!MissingEvaluator, IP!MissingEvaluator, I!PublishedForm, IP!PublishedForm

LEMMA SamePolicies ==
  /\ \A x, e, a, n : I!defaultPolicyFor(x, e, a, n) = IP!defaultPolicyFor(x, e, a, n)
  /\ \A x, a : I!promotionDecisionForAutonomy(x, a) = IP!promotionDecisionForAutonomy(x, a)
  /\ I!requiresEvaluation(Autonomy) /\ IP!requiresEvaluation(Autonomy)
  /\ I!DefaultIndependentSources = IP!DefaultIndependentSources
<1>1. \A x, a : I!promotionDecisionForAutonomy(x, a) = IP!promotionDecisionForAutonomy(x, a)
  BY Zenon DEF I!promotionDecisionForAutonomy, IP!promotionDecisionForAutonomy
<1>2. I!requiresEvaluation(Autonomy) /\ IP!requiresEvaluation(Autonomy)
  BY AutoAssumption DEF I!requiresEvaluation, IP!requiresEvaluation
<1>3. I!DefaultIndependentSources = IP!DefaultIndependentSources
  BY DEF I!DefaultIndependentSources, IP!DefaultIndependentSources
<1>4. /\ \A x, y : I!Then(x, y) = IP!Then(x, y)
      /\ \A x, n : I!scopePolicy(x, n) = IP!scopePolicy(x, n)
      /\ \A e : I!regressionPolicy(e) = IP!regressionPolicy(e)
      /\ \A x : I!securityPolicy(x) = IP!securityPolicy(x)
      /\ \A x, e, a : I!approvalAutonomyPolicy(x, e, a) = IP!approvalAutonomyPolicy(x, e, a)
  BY <1>1, <1>3, Zenon DEF I!Then, IP!Then, I!scopePolicy, IP!scopePolicy, I!regressionPolicy,
     IP!regressionPolicy, I!securityPolicy, IP!securityPolicy, I!approvalAutonomyPolicy,
     IP!approvalAutonomyPolicy
<1>5. \A x, e, a, n : I!defaultPolicyFor(x, e, a, n) = IP!defaultPolicyFor(x, e, a, n)
  BY <1>4, Zenon DEF I!defaultPolicyFor, IP!defaultPolicyFor, I!defaultHobbyPromotionPolicy,
     IP!defaultHobbyPromotionPolicy, I!defaultEnterprisePromotionPolicy,
     IP!defaultEnterprisePromotionPolicy
<1> QED  BY <1>1, <1>2, <1>3, <1>5

LEMMA SameApplied ==
  /\ \A q : I!Publishing(q) = IP!Publishing(q)
  /\ \A q, x : I!Applied(q, x) = IP!Applied(q, x)
  /\ \A c, p, x : I!BeginEvaluation(c, p, x) <=> IP!BeginEvaluation(c, p, x)
<1>1. \A q : I!Publishing(q) = IP!Publishing(q)
  BY SameOperators, Zenon DEF I!Publishing, IP!Publishing
<1>2. \A q, x : I!Applied(q, x) = IP!Applied(q, x)
  BY <1>1, SameOperators, Zenon DEF I!Applied, IP!Applied
<1>3. \A c, p, x : I!BeginEvaluation(c, p, x) <=> IP!BeginEvaluation(c, p, x)
  BY SameData, SameOperators, Zenon DEF I!BeginEvaluation, IP!BeginEvaluation
<1> QED  BY <1>1, <1>2, <1>3

LEMMA SameBegin ==
  \A c, p :
    /\ I!Propose(c, p) <=> IP!Propose(c, p)
    /\ I!Evaluate(c, p) <=> IP!Evaluate(c, p)
    /\ I!Promote(c, p) <=> IP!Promote(c, p)
    /\ I!Rollback(c, p) <=> IP!Rollback(c, p)
    /\ I!Reject(c, p) <=> IP!Reject(c, p)
<1> SUFFICES ASSUME NEW c, NEW p
             PROVE  /\ I!Propose(c, p) <=> IP!Propose(c, p)
                    /\ I!Evaluate(c, p) <=> IP!Evaluate(c, p)
                    /\ I!Promote(c, p) <=> IP!Promote(c, p)
                    /\ I!Rollback(c, p) <=> IP!Rollback(c, p)
                    /\ I!Reject(c, p) <=> IP!Reject(c, p)
  OBVIOUS
<1> USE DEF I!publisher, IP!publisher
<1>1. I!Propose(c, p) <=> IP!Propose(c, p)
  BY SameOperators, Zenon DEF I!Propose, IP!Propose, I!Drafting, IP!Drafting
<1>2. I!Evaluate(c, p) <=> IP!Evaluate(c, p)
  BY SameOperators, SameApplied, Zenon DEF I!Evaluate, IP!Evaluate
<1>3. I!Promote(c, p) <=> IP!Promote(c, p)
  BY SameData, SameOperators, SameApplied, SamePolicies, Zenon DEF I!Promote, IP!Promote
<1>4. I!Rollback(c, p) <=> IP!Rollback(c, p)
  BY SameOperators, Zenon DEF I!Rollback, IP!Rollback
<1>5. I!Reject(c, p) <=> IP!Reject(c, p)
  BY SameOperators, Zenon DEF I!Reject, IP!Reject
<1> QED  BY <1>1, <1>2, <1>3, <1>4, <1>5, Zenon

LEMMA SameContinue == \A c : I!Continue(c) <=> IP!Continue(c)
<1> SUFFICES ASSUME NEW c PROVE I!Continue(c) <=> IP!Continue(c)
  OBVIOUS
<1> USE SameData, SameOperators, SameApplied DEF I!publisher, IP!publisher
<1>1. I!EvaluatorAnswers(c) <=> IP!EvaluatorAnswers(c)
  BY Zenon DEF I!EvaluatorAnswers, IP!EvaluatorAnswers
<1>2. I!Reread(c) <=> IP!Reread(c)
  BY Zenon DEF I!Reread, IP!Reread
<1>3. I!Decide(c) <=> IP!Decide(c)
  BY SamePolicies, Zenon DEF I!Decide, IP!Decide
<1>4. I!ApprovalGiven(c) <=> IP!ApprovalGiven(c)
  BY Zenon DEF I!ApprovalGiven, IP!ApprovalGiven
<1>5. I!ApprovalRefused(c) <=> IP!ApprovalRefused(c)
  BY Zenon DEF I!ApprovalRefused, IP!ApprovalRefused
<1>a. /\ \A p : I!Live(p) <=> IP!Live(p)
      /\ \A p : I!RevertedInLog(p) <=> IP!RevertedInLog(p)
      /\ \A p : I!H!InLog(p) <=> IP!H!InLog(p)
      /\ \A i : I!H!Newest(i) <=> IP!H!Newest(i)
      /\ \A i : I!H!Revert(i) <=> IP!H!Revert(i)
      /\ \A p, s : I!H!Reserve(p, s) <=> IP!H!Reserve(p, s)
      /\ I!H!Commit <=> IP!H!Commit
  BY Zenon DEF I!Live, IP!Live, I!RevertedInLog, IP!RevertedInLog, I!H!InLog, IP!H!InLog,
     I!H!Newest, IP!H!Newest, I!H!LiveAt, IP!H!LiveAt, I!H!Revert, IP!H!Revert,
     I!H!Reserve, IP!H!Reserve, I!H!Commit, IP!H!Commit
<1>6. I!PublishExisting(c) <=> IP!PublishExisting(c)
  BY <1>a, Zenon DEF I!PublishExisting, IP!PublishExisting
<1>7. I!PublishRefused(c) <=> IP!PublishRefused(c)
  BY <1>a, Zenon DEF I!PublishRefused, IP!PublishRefused
<1>8. I!PublishReserve(c) <=> IP!PublishReserve(c)
  BY <1>a, Zenon DEF I!PublishReserve, IP!PublishReserve
<1>9. I!PublishResume(c) <=> IP!PublishResume(c)
  BY Zenon DEF I!PublishResume, IP!PublishResume
<1>10. I!PublishCommit(c) <=> IP!PublishCommit(c)
  BY <1>a, Zenon DEF I!PublishCommit, IP!PublishCommit
<1>11. I!RevertDone(c) <=> IP!RevertDone(c)
  BY <1>a, Zenon DEF I!RevertDone, IP!RevertDone, I!RolledBackForm, IP!RolledBackForm
<1>12. I!RevertRefused(c) <=> IP!RevertRefused(c)
  BY <1>a, Zenon DEF I!RevertRefused, IP!RevertRefused
<1>13. I!Put(c) <=> IP!Put(c)
  BY Zenon DEF I!Put, IP!Put
<1> QED
  BY <1>1, <1>2, <1>3, <1>4, <1>5, <1>6, <1>7, <1>8, <1>9, <1>10, <1>11, <1>12, <1>13, Zenon
     DEF I!Continue, IP!Continue

LEMMA SameFailure == \A c : I!CallFails(c) <=> IP!CallFails(c)
BY SameData, SameOperators, Zenon DEF I!CallFails, IP!CallFails

-----------------------------------------------------------------------------
(* Each step is one of the runtime, or a failure elsewhere. *)

LEMMA RuntimeSteps ==
  ASSUME Inv, [Next]_vars
  PROVE  [IP!Next]_(IP!vars) \/ IP!Elsewhere
<1> USE DEF IP!PInv
<1>0. faults \in 0..MaxFaults /\ MaxFaults \in Nat
  BY RuntimeAssumptions DEF Inv, IP!IInv, IP!TypeOK, IP!SettingsAssumption
<1>1. ASSUME UNCHANGED runtime PROVE UNCHANGED IP!vars
  BY <1>1 DEF runtime, IP!vars, IP!publisher
<1>2. ASSUME NEW c \in Callers, Loop(c) PROVE [IP!Next]_(IP!vars)
  <2>1. CASE ProposeNew(c)
    BY <2>1, SameBegin DEF ProposeNew, IP!Next, IP!Begin
  <2>2. CASE Promote(c) /\ ~UNCHANGED runtime
    <3>1. I!Promote(c, ingest[c].proposal)
      BY <2>2 DEF Promote
    <3>2. ingest[c].proposal \in Proposals
      BY <2>2 DEF Promote, Inv, IngestFits, Announced
    <3> QED  BY <3>1, <3>2, SameBegin DEF IP!Next, IP!Begin
  <2> QED
    BY <1>1, <1>2, <2>1, <2>2 DEF Loop, Accepted, SkipSettled, RetryUnsettled, WriteEvent, Promote, Remember
<1>3. ASSUME NEW c \in Callers, Continue(c) \/ Review(c) \/ CallFails(c) PROVE IP!Next
  BY <1>3, SameBegin, SameContinue, SameFailure
     DEF Continue, Review, CallFails, IP!Next, IP!Begin
<1>4. ASSUME NEW c \in Callers, IngestFails(c) PROVE IP!Elsewhere
  BY <1>0, <1>4 DEF IngestFails, IP!Elsewhere
<1>5. CASE Crash
  <2>1. CASE \A c \in Callers : call[c] = I!Idle
    <3>1. UNCHANGED call
      BY <1>5, <2>1 DEF Crash, Inv, IP!IInv, IP!TypeOK
    <3> QED  BY <1>0, <1>5, <2>1, <3>1, SameData DEF Crash, IP!Elsewhere
  <2> QED  BY <1>5, <2>1, SameData DEF Crash, IP!Next, IP!Crash
<1>6. CASE UNCHANGED vars
  BY <1>1, <1>6 DEF vars
<1> QED
  BY <1>2, <1>3, <1>4, <1>5, <1>6 DEF Next

LEMMA RuntimeKeeps == ASSUME Inv, [Next]_vars PROVE IP!PInv'
BY RuntimeSteps, RuntimeAssumptions, IP!PublisherStep, IP!ElsewhereKeeps DEF Inv

-----------------------------------------------------------------------------
(* The invariant in a step, by what the step changes. *)

\* Events stay, new ones are true; the store gains what is drafted or named.
Steady ==
  /\ \/ UNCHANGED generated
     \/ \E e \in Event : /\ generated' = Append(generated, e)
                         /\ store[e.proposal] # None
                         /\ lessonOf[e.proposal] = e.lesson
  /\ \A p \in Proposals :
       /\ store[p] # None => store'[p] # None /\ lessonOf'[p] = lessonOf[p]
       /\ store'[p] # None /\ store'[p].status # "draft" => store'[p] = store[p] \/ Named(p)
  /\ \A i \in DOMAIN log' :
       (\E j \in DOMAIN log : log[j].proposal = log'[i].proposal) \/ Named(log'[i].proposal)
  /\ reserved' = None \/ reserved' = reserved \/ Named(reserved'.proposal)

\* Only c, its call and its proposal move.
Alone(c) ==
  \A d \in Callers \ {c} :
    /\ ingest'[d] = ingest[d] /\ call'[d] = call[d]
    /\ ingest[d].pc = "proposing" =>
         lessonOf'[ingest[d].proposal] = lessonOf[ingest[d].proposal]

LEMMA EventsGrow ==
  ASSUME LoopTypes,
         UNCHANGED generated \/ \E e \in Event : generated' = Append(generated, e)
  PROVE  /\ \A i \in DOMAIN generated : i \in DOMAIN generated' /\ generated'[i] = generated[i]
         /\ \A l, p : Told(l, p) => Told(l, p)'
         /\ \A p : Named(p) => Named(p)'
<1>1. \A i \in DOMAIN generated : i \in DOMAIN generated' /\ generated'[i] = generated[i]
  BY DEF LoopTypes
<1> QED  BY <1>1 DEF Told, Named

LEMMA FitsKept ==
  ASSUME Inv, Steady, NEW g, NEW k, IngestFits(g, k),
         g.pc = "proposing" => lessonOf'[g.proposal] = lessonOf[g.proposal]
  PROVE  IngestFits(g, k)'
<1>1. /\ \A l, p : Told(l, p) => Told(l, p)'
      /\ \A p : Named(p) => Named(p)'
  BY EventsGrow DEF Inv, Steady
<1>2. g.pc = "event" => /\ g.proposal \in Proposals
                        /\ store'[g.proposal] # None
                        /\ lessonOf'[g.proposal] = lessonOf[g.proposal]
  BY DEF Steady, IngestFits, Drafted
<1> QED
  BY <1>1, <1>2 DEF IngestFits, Drafted

LEMMA EventsStep ==
  ASSUME Inv, Steady PROVE EventsInv'
<1>1. EventsInv /\ LoopTypes
  BY DEF Inv
<1>2. CASE UNCHANGED generated
  <2>1. \A p : Named(p) <=> Named(p)'
    BY <1>2 DEF Named
  <2>2. \A i \in DOMAIN generated : generated[i].proposal \in Proposals
    <3>1. \A i \in DOMAIN generated : generated[i] \in Event
      BY <1>1 DEF LoopTypes
    <3> QED  BY <3>1 DEF Event
  <2>3. (\A i \in DOMAIN generated :
           /\ store[generated[i].proposal] # None
           /\ lessonOf[generated[i].proposal] = generated[i].lesson)'
    BY <1>1, <1>2, <2>2 DEF EventsInv, Steady
  <2>4. (\A p \in Proposals : store[p] # None /\ store[p].status # "draft" => Named(p))'
    BY <1>1, <2>1 DEF EventsInv, Steady
  <2>5. (\A i \in DOMAIN log : Named(log[i].proposal))'
    BY <1>1, <1>2 DEF EventsInv, Steady, Named
  <2>6. (reserved # None => Named(reserved.proposal))'
    BY <1>1, <1>2 DEF EventsInv, Steady, Named
  <2>7. (\A i \in DOMAIN generated : \E p \in Proposals : FirstGenerated(generated[i].lesson, p))'
    BY <1>1, <1>2 DEF EventsInv, FirstGenerated
  <2> QED  BY <2>3, <2>4, <2>5, <2>6, <2>7 DEF EventsInv
<1>3. ASSUME NEW e \in Event, generated' = Append(generated, e),
             store[e.proposal] # None, lessonOf[e.proposal] = e.lesson
      PROVE  EventsInv'
  <2> DEFINE n == Len(generated)
  <2>1. /\ n \in Nat /\ DOMAIN generated = 1 .. n /\ DOMAIN generated' = 1 .. n + 1
        /\ generated'[n + 1] = e
        /\ \A i \in 1 .. n : generated'[i] = generated[i]
        /\ \A i \in 1 .. n : generated[i] \in Event
    BY <1>1, <1>3 DEF LoopTypes
  <2> HIDE DEF n
  <2>2. \A p : Named(p) => Named(p)'
    BY <2>1 DEF Named
  <2>3. (\A i \in DOMAIN generated :
           /\ store[generated[i].proposal] # None
           /\ lessonOf[generated[i].proposal] = generated[i].lesson)'
    BY <1>1, <1>3, <2>1 DEF EventsInv, Steady, Event
  <2>4. (\A p \in Proposals : store[p] # None /\ store[p].status # "draft" => Named(p))'
    BY <1>1, <2>2 DEF EventsInv, Steady
  <2>5. (\A i \in DOMAIN log : Named(log[i].proposal))'
    <3>1. \A i \in DOMAIN log' : \E p : p = log'[i].proposal /\ Named(p)
      BY <1>1 DEF EventsInv, Steady
    <3>2. \A i \in DOMAIN log' : \E p : p = log'[i].proposal /\ Named(p)'
      BY <2>2, <3>1
    <3> QED  BY <3>2 DEF Named
  <2>6. (reserved # None => Named(reserved.proposal))'
    <3>1. reserved' # None => \E p : p = reserved'.proposal /\ Named(p)
      BY <1>1 DEF EventsInv, Steady
    <3>2. reserved' # None => \E p : p = reserved'.proposal /\ Named(p)'
      BY <2>2, <3>1
    <3> QED  BY <3>2 DEF Named
  <2>7. ASSUME NEW i \in 1 .. n, NEW l, l = generated[i].lesson
        PROVE  \E p \in Proposals : FirstGenerated(l, p)'
    <3>1. PICK p \in Proposals : FirstGenerated(l, p)
      BY <1>1, <2>1, <2>7 DEF EventsInv
    <3>2. FirstGenerated(l, p)'
      BY <2>1, <3>1 DEF FirstGenerated
    <3> QED  BY <3>2
  <2>8. ASSUME NEW l, l = e.lesson, \A i \in 1 .. n : generated[i].lesson # l
        PROVE  \E p \in Proposals : FirstGenerated(l, p)'
    <3>1. e.proposal \in Proposals /\ e = [lesson |-> l, proposal |-> e.proposal]
      BY <2>8 DEF Event
    <3>2. \A j \in 1 .. n + 1 - 1 : generated'[j].lesson # l
      BY <2>1, <2>8
    <3> QED  BY <2>1, <3>1, <3>2 DEF FirstGenerated
  <2>9. ASSUME NEW i \in 1 .. n + 1, NEW l, l = generated'[i].lesson
        PROVE  \E p \in Proposals : FirstGenerated(l, p)'
    BY <2>1, <2>7, <2>8, <2>9
  <2>10. (\A i \in DOMAIN generated : \E p \in Proposals : FirstGenerated(generated[i].lesson, p))'
    <3> SUFFICES ASSUME NEW i \in 1 .. n + 1
                 PROVE  (\E p \in Proposals : FirstGenerated(generated[i].lesson, p))'
      BY <2>1
    <3>1. PICK l : l = generated'[i].lesson
      OBVIOUS
    <3>2. \E p \in Proposals : FirstGenerated(l, p)'
      BY <2>9, <3>1
    <3> QED  BY <3>1, <3>2 DEF FirstGenerated
  <2> QED  BY <2>3, <2>4, <2>5, <2>6, <2>10 DEF EventsInv
<1> QED  BY <1>2, <1>3 DEF Steady

LEMMA InvKept ==
  ASSUME Inv, IP!PInv', LoopTypes', Steady, NEW c \in Callers, Alone(c),
         \A g, k : g = ingest'[c] /\ k = call'[c] => IngestFits(g, k)'
  PROVE  Inv'
<1>1. \A d \in Callers \ {c} : \A g, k : g = ingest[d] /\ k = call[d] => IngestFits(g, k)'
  <2> SUFFICES ASSUME NEW d \in Callers \ {c}, NEW g, NEW k, g = ingest[d], k = call[d]
               PROVE  IngestFits(g, k)'
    OBVIOUS
  <2>1. IngestFits(g, k)
    BY DEF Inv
  <2>2. g.pc = "proposing" => lessonOf'[g.proposal] = lessonOf[g.proposal]
    BY DEF Alone
  <2> QED  BY <2>1, <2>2, FitsKept
<1>2. \A d \in Callers : \A g, k : g = ingest'[d] /\ k = call'[d] => IngestFits(g, k)'
  BY <1>1 DEF Alone
<1>3. (\A d \in Callers : IngestFits(ingest[d], call[d]))'
  BY <1>2 DEF IngestFits, Drafted, Announced, Told, Named
<1> QED  BY <1>3, EventsStep DEF Inv

\* A step of c, to g in the loop and k in the runtime.
Moving(c, g, k) ==
  /\ GoOn(c, g)
  /\ (UNCHANGED call /\ k = call[c]) \/ IP!GoOn(c, k)
  /\ UNCHANGED lessonOf
  /\ remembered' \subseteq Lessons

LEMMA Moved ==
  ASSUME Inv, NEW c \in Callers, NEW g \in Ingest, NEW k, Moving(c, g, k)
  PROVE  /\ ingest' \in [Callers -> Ingest] /\ ingest'[c] = g /\ call'[c] = k
         /\ Alone(c)
<1>1. ingest \in [Callers -> Ingest] /\ call \in [Callers -> IP!Call]
  BY DEF Inv, LoopTypes, IP!PInv, IP!IInv, IP!TypeOK
<1> QED  BY <1>1 DEF Moving, GoOn, IP!GoOn, Alone

LEMMA Move ==
  ASSUME Inv, IP!PInv', Steady, NEW c \in Callers, NEW g \in Ingest, NEW k, Moving(c, g, k),
         IngestFits(g, k)'
  PROVE  Inv'
<1>1. generated' \in Seq(Event)
  BY DEF Inv, LoopTypes, Steady
<1>2. LoopTypes'
  BY <1>1, Moved DEF Inv, LoopTypes, Moving
<1>3. \A h, l : h = ingest'[c] /\ l = call'[c] => IngestFits(h, l)'
  BY Moved
<1> QED  BY <1>2, <1>3, Moved, InvKept

LEMMA QuietSteady ==
  ASSUME UNCHANGED <<store, log, reserved, generated, lessonOf>> PROVE Steady
BY DEF Steady

LEMMA QuietMove ==
  ASSUME Inv, IP!PInv', NEW c \in Callers, NEW g \in Ingest, NEW k, Moving(c, g, k),
         UNCHANGED <<store, log, reserved, generated>>, IngestFits(g, k)
  PROVE  Inv'
BY QuietSteady, FitsKept, Move DEF Moving

LEMMA NotIngestingFits ==
  /\ NotIngesting \in Ingest
  /\ IngestFits(NotIngesting, IP!Idle) /\ IngestFits(NotIngesting, IP!Idle)'
  /\ \A k : (k # IP!Idle => Named(k.proposal.id)) => IngestFits(NotIngesting, k)
BY SameData DEF NotIngesting, Ingest, IngestFits, Drafted, Announced, IP!Idle

\* What the invariant says of an ingest and its call.
LEMMA Here ==
  ASSUME Inv, NEW c \in Callers
  PROVE  /\ ingest[c] \in Ingest /\ call[c] \in IP!Call
         /\ IngestFits(ingest[c], call[c])
         /\ call[c].pc # "idle" =>
              call[c].proposal \in IP!Proposal /\ call[c].proposal.id \in Proposals
<1>1. /\ ingest[c] \in Ingest /\ call[c] \in IP!Call /\ IngestFits(ingest[c], call[c])
  BY DEF Inv, LoopTypes, IP!PInv, IP!IInv, IP!TypeOK
<1>2. call[c].pc # "idle" => call[c].proposal \in IP!Proposal
  BY RuntimeAssumptions, IP!HeldCopy DEF Inv, IP!PInv
<1> QED  BY <1>1, <1>2 DEF IP!Proposal

-----------------------------------------------------------------------------
(* The invariant in each step. *)

LEMMA LookupKeeps ==
  ASSUME Inv, IP!PInv', NEW c \in Callers,
         \/ \E l \in Lessons : Accepted(c, l)
         \/ SkipSettled(c) \/ RetryUnsettled(c) \/ Remember(c)
  PROVE  Inv'
<1>0. ingest[c] \in Ingest /\ IngestFits(ingest[c], call[c])
  BY Here
<1>r. remembered \subseteq Lessons
  BY DEF Inv, LoopTypes
<1>1. ASSUME NEW l \in Lessons, Accepted(c, l) PROVE Inv'
  <2> DEFINE g == IngestAt("lookup", l, None)
  <2>1. call[c] = I!Idle
    BY <1>1 DEF Accepted, Quiet
  <2>2. g \in Ingest /\ IngestFits(g, call[c])
    BY <2>1 DEF IngestAt, Ingest, IngestFits, Drafted, Announced
  <2>3. Moving(c, g, call[c])
    BY <1>r, <1>1 DEF Accepted, Moving, runtime
  <2> HIDE DEF g
  <2> QED  BY <1>1, <2>2, <2>3, QuietMove DEF Accepted, runtime
<1>2. CASE SkipSettled(c) \/ Remember(c)
  <2>1. ingest[c].lesson \in Lessons /\ call[c] = I!Idle
    BY <1>0, <1>2 DEF SkipSettled, Remember, IngestFits
  <2>2. Moving(c, NotIngesting, call[c])
    BY <1>r, <1>2, <2>1 DEF SkipSettled, Remember, Moving, runtime
  <2>3. IngestFits(NotIngesting, call[c])
    BY <2>1, SameData, NotIngestingFits
  <2> QED  BY <1>2, <2>2, <2>3, NotIngestingFits, QuietMove DEF SkipSettled, Remember, runtime
<1>3. CASE RetryUnsettled(c)
  <2>1. PICK p \in Proposals : /\ Found(ingest[c].lesson, p)
                               /\ GoOn(c, IngestAt("promote", ingest[c].lesson, p))
    BY <1>3 DEF RetryUnsettled
  <2> DEFINE g == IngestAt("promote", ingest[c].lesson, p)
  <2>2. ingest[c].lesson \in Lessons /\ call[c] = I!Idle
    BY <1>0, <1>3 DEF RetryUnsettled, IngestFits
  <2>3. Told(ingest[c].lesson, p)
    BY <2>1 DEF Found, FirstGenerated, Told
  <2>4. g \in Ingest /\ IngestFits(g, call[c])
    BY <2>2, <2>3 DEF IngestAt, Ingest, IngestFits, Drafted, Announced
  <2>5. Moving(c, g, call[c])
    BY <1>r, <1>3, <2>1 DEF RetryUnsettled, Moving, runtime
  <2> HIDE DEF g
  <2> QED  BY <1>3, <2>4, <2>5, QuietMove DEF RetryUnsettled, runtime
<1> QED  BY <1>1, <1>2, <1>3

\* A new proposal is held by no call and stored nowhere.
LEMMA ProposeKeeps ==
  ASSUME Inv, IP!PInv', NEW c \in Callers, ProposeNew(c)
  PROVE  Inv'
<1>0. ingest[c] \in Ingest /\ IngestFits(ingest[c], call[c]) /\ ingest[c].pc = "lookup"
  BY Here DEF ProposeNew
<1> DEFINE l == ingest[c].lesson
<1>1. PICK p \in Proposals :
        /\ IP!Propose(c, p)
        /\ lessonOf' = [lessonOf EXCEPT ![p] = l]
        /\ GoOn(c, IngestAt("proposing", l, p))
  BY SameBegin DEF ProposeNew
<1>2. /\ store[p] = None /\ UNCHANGED <<store, log, reserved, generated, remembered>>
      /\ \A d \in Callers : call[d].proposal # None => call[d].proposal.id # p
  BY <1>1 DEF IP!Propose, IP!Drafting, IP!publisher, ProposeNew
<1>3. PICK s \in Skills, t \in CandidateTraits :
        IP!GoOn(c, IP!Putting(IP!NewProposal(p, s, t), "idle"))
  BY <1>1 DEF IP!Propose, IP!Drafting
<1> DEFINE g == IngestAt("proposing", l, p)
           k == IP!Putting(IP!NewProposal(p, s, t), "idle")
<1>4. l \in Lessons
  BY <1>0 DEF IngestFits
<1>5. g \in Ingest
  BY <1>4 DEF IngestAt, Ingest
<1>6. /\ g.pc = "proposing" /\ g.lesson = l /\ g.proposal = p
      /\ k.pc = "put" /\ k.after = "idle" /\ k.proposal.id = p /\ k.proposal.status = "draft"
  BY DEF IngestAt, IP!Putting, IP!NewProposal
<1>7. lessonOf \in [Proposals -> Lessons \cup {None}] /\ lessonOf'[p] = l
      /\ \A q \in Proposals : q # p => lessonOf'[q] = lessonOf[q]
  BY <1>1 DEF Inv, LoopTypes
<1>8. Steady
  BY <1>2, <1>7 DEF Steady
<1>t. ingest \in [Callers -> Ingest] /\ call \in [Callers -> IP!Call]
  BY DEF Inv, LoopTypes, IP!PInv, IP!IInv, IP!TypeOK
<1>9. ingest'[c] = g /\ call'[c] = k /\ ingest' \in [Callers -> Ingest]
      /\ \A d \in Callers \ {c} : ingest'[d] = ingest[d] /\ call'[d] = call[d]
  <2> HIDE DEF g, k
  <2>1. GoOn(c, g) /\ IP!GoOn(c, k)
    BY <1>1, <1>3 DEF g, k
  <2> QED  BY <1>t, <1>5, <2>1 DEF GoOn, IP!GoOn
<1>10. Alone(c)
  <2> SUFFICES ASSUME NEW d \in Callers \ {c}, ingest[d].pc = "proposing"
               PROVE  lessonOf'[ingest[d].proposal] = lessonOf[ingest[d].proposal]
    BY <1>9 DEF Alone
  <2>1. /\ call[d].pc = "put" /\ call[d].proposal.id = ingest[d].proposal
        /\ ingest[d].proposal \in Proposals
    BY Here DEF IngestFits, Drafted
  <2>2. call[d].proposal # None
    BY <2>1, Here, RuntimeAssumptions DEF IP!NoneAssumption
  <2> QED  BY <1>2, <1>7, <2>1, <2>2
<1>11. LoopTypes'
  BY <1>1, <1>2, <1>4, <1>7, <1>9 DEF Inv, LoopTypes
<1>12. \A h, j : h = ingest'[c] /\ j = call'[c] => IngestFits(h, j)'
  <2> HIDE DEF g, k, l
  <2> QED  BY <1>4, <1>6, <1>7, <1>9 DEF IngestFits, Drafted, Announced
<1> QED  BY <1>8, <1>10, <1>11, <1>12, InvKept

LEMMA EventKeeps ==
  ASSUME Inv, IP!PInv', NEW c \in Callers, WriteEvent(c)
  PROVE  Inv'
<1> DEFINE e == [lesson |-> ingest[c].lesson, proposal |-> ingest[c].proposal]
           g == [ingest[c] EXCEPT !.pc = "promote"]
<1>1. /\ ingest[c] \in Ingest /\ IngestFits(ingest[c], call[c]) /\ ingest[c].pc = "event"
      /\ generated' = Append(generated, e) /\ GoOn(c, g)
      /\ UNCHANGED <<store, call, log, reserved, remembered, lessonOf>>
  BY Here DEF WriteEvent, runtime
<1>2. /\ ingest[c].lesson \in Lessons /\ ingest[c].proposal \in Proposals
      /\ store[ingest[c].proposal] # None
      /\ lessonOf[ingest[c].proposal] = ingest[c].lesson
      /\ call[c] = I!Idle
  BY <1>1 DEF IngestFits, Drafted
<1>3. e \in Event /\ e.proposal = ingest[c].proposal /\ e.lesson = ingest[c].lesson
  BY <1>2 DEF Event
<1>4. /\ g \in Ingest /\ g.pc = "promote"
      /\ g.lesson = ingest[c].lesson /\ g.proposal = ingest[c].proposal
  BY <1>1 DEF Ingest
<1> HIDE DEF e, g
<1>5. Steady
  BY <1>1, <1>2, <1>3 DEF Steady
<1>6. Moving(c, g, call[c])
  BY <1>1 DEF Moving, Inv, LoopTypes
<1>7. \A l, p : l = e.lesson /\ p = e.proposal => Told(l, p)'
  <2>1. e = [lesson |-> e.lesson, proposal |-> e.proposal]
    BY <1>3 DEF Event
  <2>2. DOMAIN generated' = 1 .. Len(generated) + 1 /\ generated'[Len(generated) + 1] = e
        /\ Len(generated) \in Nat
    BY <1>1, <1>3 DEF Inv, LoopTypes
  <2> QED  BY <2>1, <2>2 DEF Told
<1>8. ASSUME NEW h, h = g PROVE IngestFits(h, I!Idle)'
  BY <1>2, <1>3, <1>4, <1>7, <1>8, SameData DEF IngestFits, Drafted, Announced, IP!Idle
<1>9. \A h, k : h = g /\ k = call[c] => IngestFits(h, k)'
  BY <1>2, <1>8
<1> QED  BY <1>4, <1>5, <1>6, <1>9, Move

\* The runtime's calls of c begin, or fail.
LEMMA PromoteKeeps ==
  ASSUME Inv, IP!PInv', NEW c \in Callers, Promote(c)
  PROVE  Inv'
<1>1. /\ ingest[c] \in Ingest /\ IngestFits(ingest[c], call[c]) /\ ingest[c].pc = "promote"
      /\ ingest[c].lesson \in Lessons /\ ingest[c].proposal \in Proposals
      /\ call[c] = I!Idle /\ Told(ingest[c].lesson, ingest[c].proposal)
      /\ UNCHANGED <<generated, remembered, lessonOf>> /\ remembered \subseteq Lessons
  BY Here DEF Promote, IngestFits, Announced, Inv, LoopTypes
<1> DEFINE p == ingest[c].proposal
           At1(pc) == [ingest[c] EXCEPT !.pc = pc]
<1>2. ASSUME NEW pc \in {"promoting", "remember"}
      PROVE  /\ At1(pc) \in Ingest /\ At1(pc).pc = pc
             /\ At1(pc).lesson = ingest[c].lesson /\ At1(pc).proposal = p
  BY <1>1 DEF Ingest
<1>n. Named(p)
  BY <1>1 DEF Told, Named
<1>3. CASE I!Promote(c, p) /\ GoOn(c, At1("promoting"))
  <2>1. IP!Promote(c, p)
    BY <1>3, SameBegin
  <2>2. PICK k : IP!GoOn(c, k) /\ IP!CallOf(k, p) /\ k # IP!Idle /\ IP!Deciding(k)
    BY <1>1, <2>1, RuntimeAssumptions, IP!BeginCalls DEF Inv, IP!PInv
  <2>3. UNCHANGED <<store, log, reserved>>
    BY <2>1, RuntimeAssumptions, IP!BeginEffects
  <2>4. PICK g : g = At1("promoting")
    OBVIOUS
  <2>5. Moving(c, g, k)
    BY <1>1, <1>3, <2>2, <2>4 DEF Moving
  <2>6. /\ g \in Ingest /\ g.pc = "promoting"
        /\ g.lesson = ingest[c].lesson /\ g.proposal = p
    BY <1>2, <2>4
  <2>7. IngestFits(g, k)
    BY <1>1, <1>n, <2>2, <2>6, SameData DEF IngestFits, Drafted, Announced, IP!CallOf
  <2> QED  BY <1>1, <2>3, <2>5, <2>6, <2>7, QuietMove
<1>4. CASE GoOn(c, At1("remember")) /\ UNCHANGED runtime
  <2>1. PICK g : g = At1("remember")
    OBVIOUS
  <2>2. Moving(c, g, call[c])
    BY <1>1, <1>4, <2>1 DEF Moving, runtime
  <2>3. /\ g \in Ingest /\ g.pc = "remember"
        /\ g.lesson = ingest[c].lesson /\ g.proposal = p
    BY <1>2, <2>1
  <2>4. IngestFits(g, call[c])
    BY <1>1, <2>3 DEF IngestFits, Drafted, Announced
  <2> QED  BY <1>1, <1>4, <2>2, <2>3, <2>4, QuietMove DEF runtime
<1> QED  BY <1>3, <1>4 DEF Promote

LEMMA ReviewKeeps ==
  ASSUME Inv, IP!PInv', NEW c \in Callers, Review(c)
  PROVE  Inv'
<1>1. PICK l \in Lessons, p \in Proposals :
        /\ [lesson |-> l, proposal |-> p] \in {generated[i] : i \in DOMAIN generated}
        /\ IP!Evaluate(c, p) \/ IP!Promote(c, p) \/ IP!Rollback(c, p) \/ IP!Reject(c, p)
  BY SameBegin DEF Review
<1>2. Named(p)
  BY <1>1 DEF Named
<1>3. PICK k : IP!GoOn(c, k) /\ IP!CallOf(k, p)
  BY <1>1, RuntimeAssumptions, IP!BeginCalls DEF Inv, IP!PInv
<1>4. UNCHANGED <<store, log, reserved>>
  BY <1>1, RuntimeAssumptions, IP!BeginEffects
<1>5. ingest[c] = NotIngesting /\ UNCHANGED loop
  BY DEF Review, Quiet
<1>6. GoOn(c, NotIngesting)
  BY <1>5 DEF GoOn, loop, Inv, LoopTypes
<1>7. Moving(c, NotIngesting, k)
  BY <1>3, <1>5, <1>6 DEF Moving, loop, Inv, LoopTypes
<1>8. IngestFits(NotIngesting, k)
  BY <1>2, <1>3, NotIngestingFits DEF IP!CallOf
<1> QED  BY <1>4, <1>5, <1>7, <1>8, NotIngestingFits, QuietMove DEF loop

LEMMA FailureKeeps ==
  ASSUME Inv, IP!PInv', NEW c \in Callers, CallFails(c)
  PROVE  Inv'
<1>1. IP!GoOn(c, IP!Idle) /\ UNCHANGED <<store, log, reserved>>
  BY SameFailure DEF CallFails, IP!CallFails
<1>2. Moving(c, NotIngesting, IP!Idle)
  BY <1>1 DEF CallFails, Moving, Inv, LoopTypes
<1> QED  BY <1>1, <1>2, NotIngestingFits, QuietMove DEF CallFails

LEMMA IngestFailureKeeps ==
  ASSUME Inv, IP!PInv', NEW c \in Callers, IngestFails(c)
  PROVE  Inv'
<1>1. /\ UNCHANGED <<store, call, log, reserved, remembered, lessonOf>> /\ call[c] = IP!Idle
      /\ GoOn(c, NotIngesting)
  BY SameData DEF IngestFails
<1>2. Steady
  <2>1. CASE UNCHANGED generated
    BY <1>1, <2>1, QuietSteady
  <2>2. CASE /\ ingest[c].pc = "event"
             /\ generated' = Append(generated, [lesson   |-> ingest[c].lesson,
                                                proposal |-> ingest[c].proposal])
    <3> DEFINE e == [lesson |-> ingest[c].lesson, proposal |-> ingest[c].proposal]
    <3>1. /\ ingest[c].lesson \in Lessons /\ ingest[c].proposal \in Proposals
          /\ store[ingest[c].proposal] # None
          /\ lessonOf[ingest[c].proposal] = ingest[c].lesson
      BY <2>2, Here DEF IngestFits, Drafted
    <3>2. e \in Event /\ e.proposal = ingest[c].proposal /\ e.lesson = ingest[c].lesson
      BY <3>1 DEF Event
    <3>3. generated' = Append(generated, e)
      BY <2>2
    <3> HIDE DEF e
    <3> QED  BY <1>1, <3>1, <3>2, <3>3 DEF Steady
  <2> QED  BY <2>1, <2>2 DEF IngestFails
<1>3. Moving(c, NotIngesting, IP!Idle)
  BY <1>1 DEF Moving, Inv, LoopTypes
<1> QED  BY <1>2, <1>3, NotIngestingFits, Move

LEMMA CrashKeeps ==
  ASSUME Inv, IP!PInv', Crash
  PROVE  Inv'
<1>1. Steady
  BY QuietSteady DEF Crash
<1>2. LoopTypes'
  BY NotIngestingFits DEF Crash, Inv, LoopTypes
<1>3. \A d \in Callers : \A g, k : g = ingest'[d] /\ k = call'[d] => IngestFits(g, k)'
  BY NotIngestingFits, SameData DEF Crash
<1>4. (\A d \in Callers : IngestFits(ingest[d], call[d]))'
  BY <1>3 DEF IngestFits, Drafted, Announced, Told, Named
<1> QED  BY <1>1, <1>2, <1>4, EventsStep DEF Inv

\* The runtime call of c goes on.
LEMMA ContinueKeeps ==
  ASSUME Inv, IP!PInv', NEW c \in Callers, Continue(c)
  PROVE  Inv'
<1> DEFINE q == call[c].proposal
           next == IF call'[c] = I!Idle THEN AfterCall(c) ELSE ingest[c]
<1>1. IP!Continue(c) /\ GoOn(c, next) /\ UNCHANGED <<generated, remembered, lessonOf>>
  BY SameContinue DEF Continue
<1>2. /\ call[c].pc # "idle"
      /\ \/ UNCHANGED store
         \/ call[c].pc = "put" /\ store' = [store EXCEPT ![q.id] = q]
      /\ \A i \in DOMAIN log' :
           \/ \E j \in DOMAIN log : log[j].proposal = log'[i].proposal
           \/ reserved # None /\ log'[i].proposal = reserved.proposal
      /\ reserved' = None \/ reserved' = reserved \/ reserved'.proposal = q.id
      /\ call[c].pc = "put" => UNCHANGED <<log, reserved>>
  BY <1>1, RuntimeAssumptions, IP!ContinueEffects DEF Inv, IP!PInv
<1>3. /\ ingest[c] \in Ingest /\ IngestFits(ingest[c], call[c])
      /\ q \in IP!Proposal /\ q.id \in Proposals /\ q # None /\ call[c] # I!Idle
      /\ ingest[c].pc \in {"idle", "proposing", "promoting"}
  <2>1. call[c] # I!Idle
    BY <1>2 DEF I!Idle
  <2> QED  BY <1>2, <2>1, Here, RuntimeAssumptions DEF IP!NoneAssumption, IngestFits
<1>4. ingest[c].pc = "proposing" => q.status = "draft" /\ call[c].pc = "put"
  BY <1>3 DEF IngestFits
<1>5. ingest[c].pc # "proposing" => Named(q.id)
  BY <1>3 DEF IngestFits
<1>6. Steady
  <2>1. \A p \in Proposals :
          /\ store[p] # None => store'[p] # None
          /\ store'[p] # None /\ store'[p].status # "draft" => store'[p] = store[p] \/ Named(p)
    <3>1. store \in [Proposals -> IP!Proposal \cup {None}]
      BY DEF Inv, IP!PInv, IP!IInv, IP!TypeOK
    <3> HIDE DEF q
    <3> QED  BY <1>2, <1>3, <1>4, <1>5, <3>1
  <2>2. /\ \A i \in DOMAIN log' : (\E j \in DOMAIN log : log[j].proposal = log'[i].proposal)
                                  \/ Named(log'[i].proposal)
        /\ reserved' = None \/ reserved' = reserved \/ Named(reserved'.proposal)
    <3>1. reserved # None => Named(reserved.proposal)
      BY DEF Inv, EventsInv
    <3> QED  BY <1>2, <1>4, <1>5, <3>1
  <2> QED  BY <1>1, <2>1, <2>2 DEF Steady
<1>7. PICK k : /\ IP!GoOn(c, k) /\ IP!CallOf(k, q.id)
               /\ k # IP!Idle /\ IP!Deciding(call[c]) => IP!Deciding(k)
  BY <1>1, RuntimeAssumptions, IP!ContinueCalls DEF Inv, IP!PInv
<1>8. call'[c] = k
  BY <1>7 DEF IP!GoOn, Inv, IP!PInv, IP!IInv, IP!TypeOK
<1>9. CASE k # IP!Idle
  <2>1. ingest[c].pc # "proposing"
    <3>1. ASSUME ingest[c].pc = "proposing" PROVE FALSE
      <4>1. call[c].after = "idle" /\ call[c].pc = "put"
        BY <1>3, <3>1 DEF IngestFits
      <4>2. call'[c] = IP!Idle
        BY <1>1, <4>1, RuntimeAssumptions, IP!PutReturns DEF Inv, IP!PInv
      <4> QED  BY <1>8, <1>9, <4>2
    <3> QED  BY <3>1
  <2>2. GoOn(c, ingest[c])
    BY <1>1, <1>8, <1>9, SameData
  <2>3. Moving(c, ingest[c], k)
    BY <1>1, <1>7, <2>2 DEF Moving, Inv, LoopTypes
  <2>4. IngestFits(ingest[c], k)
    BY <1>3, <1>5, <1>7, <1>9, <2>1, SameData DEF IngestFits, Drafted, Announced, IP!CallOf
  <2>5. \A g : g = ingest[c] => IngestFits(g, k)'
    BY <1>6, <2>1, <2>4, FitsKept
  <2> QED  BY <1>3, <1>6, <2>3, <2>5, Move
<1>10. CASE k = IP!Idle
  <2>1. GoOn(c, AfterCall(c)) /\ call'[c] = IP!Idle
    BY <1>1, <1>8, <1>10, SameData
  <2>2. Moving(c, AfterCall(c), IP!Idle)
    BY <1>1, <1>7, <1>10, <2>1 DEF Moving, Inv, LoopTypes
  <2>3. CASE AfterCall(c) = NotIngesting
    BY <1>6, <2>2, <2>3, NotIngestingFits, Move
  <2>4. CASE Returns(c) /\ ingest[c].pc = "proposing"
    <3>1. PICK g : g = [ingest[c] EXCEPT !.pc = "event"]
      OBVIOUS
    <3>2. AfterCall(c) = g
      BY <2>4, <3>1 DEF AfterCall
    <3>3. /\ g \in Ingest /\ g.pc = "event"
          /\ g.lesson = ingest[c].lesson /\ g.proposal = ingest[c].proposal
      BY <1>3, <3>1 DEF Ingest
    <3>4. /\ g.lesson \in Lessons /\ g.proposal \in Proposals
          /\ lessonOf'[g.proposal] = g.lesson /\ q.id = g.proposal
      BY <1>1, <1>3, <2>4, <3>3 DEF IngestFits, Drafted
    <3>5. store'[g.proposal] # None
      <4>1. store' = [store EXCEPT ![q.id] = q]
        BY <1>1, <1>4, <2>1, <2>4, SameData, RuntimeAssumptions, IP!CallEnds
           DEF Inv, IP!PInv, Returns
      <4> QED  BY <1>3, <3>4, <4>1 DEF Inv, IP!PInv, IP!IInv, IP!TypeOK
    <3>6. IngestFits(g, IP!Idle)'
      BY <3>3, <3>4, <3>5, SameData DEF IngestFits, Drafted, Announced, IP!Idle
    <3> QED  BY <1>6, <2>2, <3>2, <3>3, <3>6, Move
  <2>5. CASE Returns(c) /\ ingest[c].pc = "promoting"
    <3>1. PICK g : g = [ingest[c] EXCEPT !.pc = "remember"]
      OBVIOUS
    <3>2. AfterCall(c) = g
      BY <2>5, <3>1 DEF AfterCall
    <3>3. /\ g \in Ingest /\ g.pc = "remember"
          /\ g.lesson = ingest[c].lesson /\ g.proposal = ingest[c].proposal
      BY <1>3, <3>1 DEF Ingest
    <3>4. IngestFits(g, IP!Idle)
      BY <1>3, <2>5, <3>3, SameData DEF IngestFits, Drafted, Announced, IP!Idle
    <3>5. IngestFits(g, IP!Idle)'
      BY <1>6, <3>3, <3>4, FitsKept
    <3> QED  BY <1>6, <2>2, <3>2, <3>3, <3>5, Move
  <2> QED  BY <2>3, <2>4, <2>5 DEF AfterCall
<1> QED  BY <1>9, <1>10

LEMMA InvInit == Init => Inv
<1> SUFFICES ASSUME Init PROVE Inv
  OBVIOUS
<1>1. IP!PInv
  BY RuntimeAssumptions, SameInit, IP!PublisherInit DEF Init
<1>2. LoopTypes
  BY NotIngestingFits DEF Init, LoopTypes
<1>3. generated = <<>> /\ DOMAIN generated = {} /\ log = <<>> /\ DOMAIN log = {}
      /\ store = [p \in Proposals |-> None] /\ reserved = None
  BY DEF Init, I!Init, I!H!Init
<1>4. EventsInv
  BY <1>3 DEF EventsInv
<1>5. \A c \in Callers : IngestFits(ingest[c], call[c])
  BY SameData, NotIngestingFits DEF Init, I!Init
<1> QED  BY <1>1, <1>2, <1>4, <1>5 DEF Inv

LEMMA InvStep == Inv /\ [Next]_vars => Inv'
<1> SUFFICES ASSUME Inv, [Next]_vars PROVE Inv'
  OBVIOUS
<1>0. IP!PInv'
  BY RuntimeKeeps
<1>1. ASSUME NEW c \in Callers, Loop(c) PROVE Inv'
  BY <1>0, <1>1, LookupKeeps, ProposeKeeps, EventKeeps, PromoteKeeps DEF Loop
<1>2. ASSUME NEW c \in Callers,
             Continue(c) \/ Review(c) \/ CallFails(c) \/ IngestFails(c)
      PROVE  Inv'
  BY <1>0, <1>2, ContinueKeeps, ReviewKeeps, FailureKeeps, IngestFailureKeeps
<1>3. CASE Crash
  BY <1>0, <1>3, CrashKeeps
<1>4. CASE UNCHANGED vars
  <2>1. UNCHANGED <<store, call, log, reserved, ingest, generated, remembered, lessonOf>>
    BY <1>4 DEF vars, runtime, loop
  <2> QED
    BY <1>0, <2>1 DEF Inv, LoopTypes, EventsInv, IngestFits, Named, Told, FirstGenerated
<1> QED  BY <1>1, <1>2, <1>3, <1>4 DEF Next

\* Every variable holds a value of its type, and a promotion that waits for a
\* runtime call has one in flight, whatever overlaps, fails or crashes.
THEOREM TypeCorrect == Spec => []TypeOK
<1>1. Inv => TypeOK
  <2>1. Inv => I!TypeOK
    BY SameTypes DEF Inv, IP!PInv, IP!IInv
  <2>2. ASSUME Inv, NEW c \in Callers, ingest[c].pc \in {"proposing", "promoting"}
        PROVE  call[c] # I!Idle
    BY <2>2 DEF Inv, IngestFits, IP!Deciding, I!Idle
  <2> QED  BY <2>1, <2>2 DEF TypeOK, Inv, LoopTypes
<1> QED  BY <1>1, InvInit, InvStep, PTL DEF Spec

\* What a reviewer rejected or reverted is not proposed again by itself, not
\* even by a new process, whatever overlaps or fails: its event came first,
\* and a lesson with an event is not proposed.
THEOREM StaysRefused == Spec => RefusedStaysRefused
<1> DEFINE A == \A p, q \in Proposals :
                  /\ lessonOf'[q] # lessonOf[q]
                  /\ p # q
                  /\ I!HasStatus(p, {"rejected", "rolled-back"})
                  => lessonOf[p] # lessonOf'[q]
<1>1. ASSUME Inv, [Next]_vars PROVE A
  <2> SUFFICES ASSUME NEW p \in Proposals, NEW q \in Proposals,
                      lessonOf'[q] # lessonOf[q], p # q,
                      I!HasStatus(p, {"rejected", "rolled-back"})
               PROVE  lessonOf[p] # lessonOf'[q]
    OBVIOUS
  <2>1. lessonOf' # lessonOf
    OBVIOUS
  <2>2. PICK c \in Callers : ProposeNew(c)
    BY <1>1, <2>1 DEF Next, vars, loop, Loop, Accepted, SkipSettled, RetryUnsettled, WriteEvent,
       Promote, Remember, Continue, Review, CallFails, IngestFails, Crash
  <2>3. PICK r \in Proposals : lessonOf' = [lessonOf EXCEPT ![r] = ingest[c].lesson]
    BY <2>2 DEF ProposeNew
  <2>4. r = q /\ lessonOf'[q] = ingest[c].lesson
    BY <1>1, <2>3 DEF Inv, LoopTypes
  <2>5. Named(p)
    BY <1>1 DEF I!HasStatus, Inv, EventsInv
  <2>6. PICK i \in DOMAIN generated : generated[i].proposal = p
    BY <2>5 DEF Named
  <2>7. PICK first \in Proposals : FirstGenerated(generated[i].lesson, first)
    BY <1>1 DEF Inv, EventsInv
  <2>8. Found(lessonOf[p], first)
    BY <1>1, <2>6, <2>7 DEF Inv, EventsInv, Found, FirstGenerated
  <2> QED  BY <2>2, <2>4, <2>8 DEF ProposeNew
<1>2. Inv /\ [Next]_vars => [A]_vars
  BY <1>1
<1> QED  BY <1>2, InvInit, InvStep, PTL DEF Spec, RefusedStaysRefused

\* What ImprovementProofs shows of review calls holds with the loop at work:
\* only what passed is accepted or published, whoever promotes it; the store
\* never claims more than the publisher has done; and a commit is of the call
\* that holds the queue.
THEOREM RuntimeIsSafe ==
  Spec => [](I!AcceptedOnlyPassed /\ I!StoreTrailsPublisher /\ I!CommitOwnsPending)
<1>1. ASSUME Inv
      PROVE  I!AcceptedOnlyPassed /\ I!StoreTrailsPublisher /\ I!CommitOwnsPending
  <2>1. /\ IP!CommitOwnsPending
        /\ \A p \in Proposals :
             store[p] # None => /\ store[p].id = p
                                /\ IP!Sound(store[p]) /\ IP!Backed(store[p])
    BY <1>1 DEF Inv, IP!PInv, IP!IInv, IP!TypeOK
  <2>2. I!AcceptedOnlyPassed
    BY <2>1 DEF I!AcceptedOnlyPassed, I!HasStatus, I!Passed, IP!Sound, IP!Passed
  <2>3. I!StoreTrailsPublisher
    BY <2>1 DEF I!StoreTrailsPublisher, I!HasStatus, I!RevertedInLog, I!H!InLog,
       IP!Backed, IP!RevertedInLog, IP!H!InLog
  <2>4. I!CommitOwnsPending
    BY <2>1 DEF I!CommitOwnsPending, IP!CommitOwnsPending
  <2> QED  BY <2>2, <2>3, <2>4
<1>2. Inv => I!AcceptedOnlyPassed /\ I!StoreTrailsPublisher /\ I!CommitOwnsPending
  BY <1>1
<1> QED  BY <1>2, InvInit, InvStep, PTL DEF Spec

-----------------------------------------------------------------------------
(* One ingest at a time. *)

LEMMA SerialRuntime ==
  ASSUME OneCaller, Inv, IP!SerialInv, [Next]_vars PROVE IP!SerialInv'
<1>1. IP!OneCaller
  BY DEF OneCaller, IP!OneCaller
<1> QED
  BY <1>1, RuntimeSteps, RuntimeKeeps, RuntimeAssumptions, IP!SerialStep, IP!ElsewhereSerial

\* A lesson has an event once at most, since the event is written by the
\* ingest that found none.
LEMMA EventsApart ==
  ASSUME OneCaller, SerialInv, Inv', [Next]_vars
  PROVE  OneEvent'
<1>1. CASE UNCHANGED generated
  BY <1>1 DEF SerialInv, OneEvent
<1>2. ASSUME NEW c \in Callers, ingest[c].pc = "event",
             generated' = Append(generated, [lesson   |-> ingest[c].lesson,
                                             proposal |-> ingest[c].proposal])
      PROVE  OneEvent'
  <2> DEFINE e == [lesson |-> ingest[c].lesson, proposal |-> ingest[c].proposal]
             n == Len(generated)
  <2>1. \A i \in DOMAIN generated : generated[i].lesson # ingest[c].lesson
    BY <1>2 DEF SerialInv, Serial, Drafted
  <2>2. e.lesson = ingest[c].lesson /\ e \in Event
    BY <1>2, Here DEF SerialInv, IngestFits, Drafted, Event
  <2>3. generated' = Append(generated, e)
    BY <1>2
  <2> HIDE DEF e
  <2>4. /\ n \in Nat /\ DOMAIN generated = 1 .. n /\ DOMAIN generated' = 1 .. n + 1
        /\ generated'[n + 1] = e
        /\ \A i \in 1 .. n : generated'[i] = generated[i]
    BY <2>2, <2>3 DEF SerialInv, Inv, LoopTypes
  <2> HIDE DEF n
  <2> QED  BY <2>1, <2>2, <2>4 DEF SerialInv, OneEvent
<1> QED
  BY <1>1, <1>2 DEF Next, vars, runtime, loop, Loop, Accepted, SkipSettled, RetryUnsettled, ProposeNew,
     WriteEvent, Promote, Remember, Continue, Review, CallFails, IngestFails, Crash

\* What promote has written, once it returns, is settled or approved.
LEMMA DecidedStatus ==
  ASSUME NEW q \in IP!Proposal, q.status \notin {"draft", "evaluating"}
  PROVE  q.status \in Settled \cup {"approved"}
BY DEF IP!Proposal, IP!Statuses, Settled

\* The ingest that a step moves is the only one.
LEMMA SerialMove ==
  ASSUME OneCaller, Inv, NEW c \in Callers, NEW g \in Ingest, GoOn(c, g), Serial(g)'
  PROVE  (\A d \in Callers : Serial(ingest[d]))'
<1>1. \A d \in Callers : ingest'[d] = g
  BY DEF GoOn, OneCaller, Inv, LoopTypes
<1> QED  BY <1>1 DEF Serial, Drafted

LEMMA SerialNone == Serial(NotIngesting)'
BY DEF Serial, NotIngesting, Drafted

LEMMA SerialLoop ==
  ASSUME OneCaller, SerialInv, NEW c \in Callers, Loop(c)
  PROVE  (\A d \in Callers : Serial(ingest[d]))'
<1>i. Inv /\ ingest[c] \in Ingest /\ IngestFits(ingest[c], call[c])
  BY Here DEF SerialInv
<1>1. ASSUME NEW l \in Lessons, Accepted(c, l)
      PROVE  (\A d \in Callers : Serial(ingest[d]))'
  <2>1. PICK g : g = IngestAt("lookup", l, None)
    OBVIOUS
  <2>2. g \in Ingest /\ Serial(g)'
    BY <2>1 DEF IngestAt, Ingest, Serial, Drafted
  <2> QED  BY <1>i, <1>1, <2>1, <2>2, SerialMove DEF Accepted
<1>2. CASE SkipSettled(c) \/ Remember(c)
  BY <1>i, <1>2, SerialNone, NotIngestingFits, SerialMove DEF SkipSettled, Remember
<1>3. CASE RetryUnsettled(c)
  <2>1. PICK g, p : p \in Proposals /\ g = IngestAt("promote", ingest[c].lesson, p) /\ GoOn(c, g)
    BY <1>3 DEF RetryUnsettled
  <2>2. g \in Ingest /\ Serial(g)'
    BY <1>i, <2>1 DEF IngestAt, Ingest, Serial, Drafted
  <2> QED  BY <1>i, <2>1, <2>2, SerialMove
<1>4. CASE ProposeNew(c)
  <2>1. PICK g, p : /\ p \in Proposals /\ g = IngestAt("proposing", ingest[c].lesson, p)
                    /\ GoOn(c, g)
    BY <1>4 DEF ProposeNew
  <2>2. g \in Ingest /\ g.pc = "proposing" /\ g.lesson = ingest[c].lesson
    BY <1>i, <2>1 DEF IngestAt, Ingest
  <2>3. \A i \in DOMAIN generated : generated[i].lesson # ingest[c].lesson
    <3> SUFFICES ASSUME NEW i \in DOMAIN generated, generated[i].lesson = ingest[c].lesson
                 PROVE  FALSE
      OBVIOUS
    <3>1. PICK first \in Proposals : FirstGenerated(generated[i].lesson, first)
      BY <1>i DEF Inv, EventsInv
    <3>2. Found(ingest[c].lesson, first)
      BY <1>i, <3>1 DEF Inv, EventsInv, Found, FirstGenerated
    <3> QED  BY <1>4, <3>2 DEF ProposeNew
  <2>4. generated' = generated
    BY <1>4 DEF ProposeNew
  <2>5. Serial(g)'
    BY <2>2, <2>3, <2>4 DEF Serial
  <2> QED  BY <1>i, <2>1, <2>2, <2>5, SerialMove
<1>5. CASE WriteEvent(c)
  <2>1. PICK g : g = [ingest[c] EXCEPT !.pc = "promote"] /\ GoOn(c, g)
    BY <1>5 DEF WriteEvent
  <2>2. g \in Ingest /\ Serial(g)'
    BY <1>i, <2>1 DEF Ingest, Serial, Drafted
  <2> QED  BY <1>i, <2>1, <2>2, SerialMove
<1>6. CASE Promote(c)
  <2>1. CASE GoOn(c, [ingest[c] EXCEPT !.pc = "promoting"])
    <3>1. PICK g : g = [ingest[c] EXCEPT !.pc = "promoting"] /\ GoOn(c, g)
      BY <2>1
    <3>2. g \in Ingest /\ Serial(g)'
      BY <1>i, <3>1 DEF Ingest, Serial, Drafted
    <3> QED  BY <1>i, <3>1, <3>2, SerialMove
  <2>2. CASE /\ I!HasStatus(ingest[c].proposal, I!Completed)
             /\ GoOn(c, [ingest[c] EXCEPT !.pc = "remember"])
             /\ UNCHANGED runtime
    <3>1. PICK g : g = [ingest[c] EXCEPT !.pc = "remember"] /\ GoOn(c, g)
      BY <2>2
    <3>2. g \in Ingest /\ g.pc = "remember" /\ g.proposal = ingest[c].proposal
      BY <1>i, <3>1 DEF Ingest
    <3>3. store'[g.proposal].status \in Settled
      BY <2>2, <3>2 DEF runtime, I!HasStatus, I!Completed, Settled
    <3>4. Serial(g)'
      BY <3>2, <3>3 DEF Serial, Drafted
    <3> QED  BY <1>i, <3>1, <3>2, <3>4, SerialMove
  <2> QED  BY <1>6, <2>1, <2>2 DEF Promote
<1> QED  BY <1>1, <1>2, <1>3, <1>4, <1>5, <1>6 DEF Loop

\* A promote call that returns leaves its proposal decided.
LEMMA SerialReturns ==
  ASSUME OneCaller, SerialInv, NEW c \in Callers, Continue(c)
  PROVE  (\A d \in Callers : Serial(ingest[d]))'
<1> DEFINE q == call[c].proposal
<1>i. /\ Inv /\ IP!IInv /\ ingest[c] \in Ingest /\ IngestFits(ingest[c], call[c])
      /\ IP!Continue(c) /\ UNCHANGED generated
      /\ GoOn(c, IF call'[c] = IP!Idle THEN AfterCall(c) ELSE ingest[c])
  BY Here, SameContinue, SameData DEF SerialInv, Inv, IP!PInv, Continue
<1>1. call[c].pc # "idle" /\ q \in IP!Proposal
  BY <1>i, RuntimeAssumptions, IP!ContinueEffects, Here
<1>2. ingest[c].pc \in {"idle", "proposing", "promoting"}
  BY <1>i, <1>1, SameData DEF IngestFits, IP!Idle
<1>3. ASSUME NEW g \in Ingest, GoOn(c, g), g.pc \in {"idle", "promoting"}
      PROVE  (\A d \in Callers : Serial(ingest[d]))'
  BY <1>i, <1>3, SerialMove DEF Serial, Drafted
<1>4. ASSUME NEW g \in Ingest, GoOn(c, g), g.pc \in Drafted, ingest[c].pc = "proposing",
             g.lesson = ingest[c].lesson
      PROVE  (\A d \in Callers : Serial(ingest[d]))'
  <2>1. \A i \in DOMAIN generated' : generated'[i].lesson # g.lesson
    BY <1>i, <1>4 DEF SerialInv, Serial, Drafted
  <2>2. Serial(g)'
    BY <1>4, <2>1 DEF Serial, Drafted
  <2> QED  BY <1>i, <1>4, <2>2, SerialMove
<1>5. CASE call'[c] # IP!Idle
  BY <1>i, <1>2, <1>3, <1>4, <1>5 DEF Drafted
<1>6. CASE call'[c] = IP!Idle
  <2>0. GoOn(c, AfterCall(c))
    BY <1>i, <1>6
  <2>1. CASE AfterCall(c) = NotIngesting
    BY <1>i, <2>0, <2>1, SerialNone, NotIngestingFits, SerialMove
  <2>2. CASE Returns(c) /\ ingest[c].pc = "proposing"
    <3>1. PICK g : g = [ingest[c] EXCEPT !.pc = "event"]
      OBVIOUS
    <3>2. GoOn(c, g)
      BY <2>0, <2>2, <3>1 DEF AfterCall
    <3>3. g \in Ingest /\ g.pc = "event" /\ g.lesson = ingest[c].lesson
      BY <1>i, <3>1 DEF Ingest
    <3> QED  BY <1>4, <2>2, <3>2, <3>3 DEF Drafted
  <2>3. CASE Returns(c) /\ ingest[c].pc = "promoting"
    <3>1. PICK g : g = [ingest[c] EXCEPT !.pc = "remember"]
      OBVIOUS
    <3>2. GoOn(c, g)
      BY <2>0, <2>3, <3>1 DEF AfterCall
    <3>3. /\ g \in Ingest /\ g.pc = "remember"
          /\ g.proposal = ingest[c].proposal /\ g.proposal = q.id
      BY <1>i, <2>3, <3>1 DEF Ingest, IngestFits
    <3>4. CASE call[c].pc = "decide"
      <4>1. q.evaluation.verdict = "inconclusive" /\ UNCHANGED store
        BY <1>i, <1>6, <3>4, RuntimeAssumptions, IP!CallEnds
      <4>2. store[q.id].evaluation = q.evaluation
        BY <3>4 DEF SerialInv, IP!SerialInv, IP!SerialCall
      <4>3. q.evaluation # None
        BY <1>i, <3>4 DEF IP!IInv, IP!TypeOK
      <4>4. Serial(g)'
        BY <3>3, <4>1, <4>2, <4>3 DEF Serial, Drafted
      <4> QED  BY <1>i, <3>2, <3>3, <4>4, SerialMove
    <3>5. CASE call[c].pc = "put" /\ ~IP!Conflicts(q)
      <4>1. call[c].after = "idle" /\ store' = [store EXCEPT ![q.id] = q]
        BY <1>i, <1>6, <3>5, RuntimeAssumptions, IP!CallEnds
      <4>2. q.status \notin {"draft", "evaluating"}
        BY <1>i, <2>3, <3>5, <4>1 DEF IngestFits, IP!Deciding
      <4>3. q.status \in Settled \cup {"approved"}
        BY <1>1, <4>2, DecidedStatus
      <4>4. store'[q.id] = q
        BY <1>1, <1>i, <4>1, Here DEF IP!IInv, IP!TypeOK
      <4>5. Serial(g)'
        BY <3>3, <4>3, <4>4 DEF Serial, Drafted
      <4> QED  BY <1>i, <3>2, <3>3, <4>5, SerialMove
    <3> QED  BY <2>3, <3>4, <3>5, SameData DEF Returns
  <2> QED  BY <2>1, <2>2, <2>3 DEF AfterCall
<1> QED  BY <1>5, <1>6

LEMMA SerialIngests ==
  ASSUME OneCaller, SerialInv, [Next]_vars
  PROVE  (\A d \in Callers : Serial(ingest[d]))'
<1>i. Inv
  BY DEF SerialInv
<1>1. ASSUME NEW c \in Callers, Loop(c) PROVE (\A d \in Callers : Serial(ingest[d]))'
  BY <1>1, SerialLoop
<1>2. ASSUME NEW c \in Callers, Continue(c) PROVE (\A d \in Callers : Serial(ingest[d]))'
  BY <1>2, SerialReturns
<1>3. ASSUME NEW c \in Callers, Review(c) PROVE (\A d \in Callers : Serial(ingest[d]))'
  <2>1. \A d \in Callers : ingest'[d] = NotIngesting
    BY <1>3 DEF Review, Quiet, loop, OneCaller
  <2> QED  BY <2>1, SerialNone DEF Serial, Drafted
<1>4. ASSUME NEW c \in Callers, CallFails(c) \/ IngestFails(c)
      PROVE  (\A d \in Callers : Serial(ingest[d]))'
  BY <1>i, <1>4, SerialNone, NotIngestingFits, SerialMove DEF CallFails, IngestFails
<1>5. CASE Crash
  BY <1>5, SerialNone DEF Crash, Serial, Drafted
<1>6. CASE UNCHANGED vars
  BY <1>6 DEF vars, runtime, loop, SerialInv, Serial, Drafted
<1> QED  BY <1>1, <1>2, <1>3, <1>4, <1>5, <1>6 DEF Next

LEMMA SerialInitially == ASSUME OneCaller PROVE Init => SerialInv
<1> SUFFICES ASSUME Init PROVE SerialInv
  OBVIOUS
<1>1. Inv
  BY InvInit
<1>2. IP!SerialInv
  BY <1>1, SameData, RuntimeAssumptions, IP!SerialIdle DEF Init, I!Init, IP!SerialInv, Inv
<1>3. OneEvent /\ \A c \in Callers : Serial(ingest[c])
  BY DEF Init, OneEvent, Serial, NotIngesting, Drafted
<1> QED  BY <1>1, <1>2, <1>3 DEF SerialInv

LEMMA SerialSteps == ASSUME OneCaller PROVE SerialInv /\ [Next]_vars => SerialInv'
<1> SUFFICES ASSUME SerialInv, [Next]_vars PROVE SerialInv'
  OBVIOUS
<1>1. Inv'
  BY InvStep DEF SerialInv
<1> QED  BY <1>1, SerialRuntime, EventsApart, SerialIngests DEF SerialInv

\* With one ingest at a time a lesson is published at most once, by one
\* proposal, whatever failed or died between the proposal, its event, the
\* publication and the store's write of it.
THEOREM PublishedOnce == ASSUME OneCaller PROVE Spec => []OnePublicationPerLesson
<1>1. ASSUME SerialInv PROVE OnePublicationPerLesson
  <2> DEFINE published == {log[i].proposal : i \in DOMAIN log} \cup
                          (IF reserved = None THEN {} ELSE {reserved.proposal})
  <2>1. \A p \in published : Named(p)
    BY <1>1 DEF SerialInv, Inv, EventsInv
  <2> SUFFICES ASSUME NEW p \in published, NEW q \in published, lessonOf[p] = lessonOf[q]
               PROVE  p = q
    BY DEF OnePublicationPerLesson
  <2>2. PICK i \in DOMAIN generated : generated[i].proposal = p
    BY <2>1 DEF Named
  <2>3. PICK j \in DOMAIN generated : generated[j].proposal = q
    BY <2>1 DEF Named
  <2>4. generated[i].lesson = generated[j].lesson
    BY <1>1, <2>2, <2>3 DEF SerialInv, Inv, EventsInv
  <2> QED  BY <1>1, <2>2, <2>3, <2>4 DEF SerialInv, OneEvent
<1>2. SerialInv => OnePublicationPerLesson
  BY <1>1
<1> QED  BY <1>2, SerialInitially, SerialSteps, PTL DEF Spec

\* With one ingest at a time a lesson is remembered only when promote has
\* decided on its proposal, or its evaluation was inconclusive; never when
\* promote threw.
THEOREM RememberedDecided == ASSUME OneCaller PROVE Spec => RememberedWasPromoted
<1> DEFINE A == \A l \in remembered' \ remembered :
                  \E p \in Proposals :
                    /\ Found(l, p)
                    /\ \/ store[p].status \in Settled \cup {"approved"}
                       \/ store[p].evaluation # None /\ store[p].evaluation.verdict = "inconclusive"
<1>1. ASSUME SerialInv, [Next]_vars PROVE A
  <2> SUFFICES ASSUME NEW l \in remembered' \ remembered
               PROVE  \E p \in Proposals :
                        /\ Found(l, p)
                        /\ \/ store[p].status \in Settled \cup {"approved"}
                           \/ /\ store[p].evaluation # None
                              /\ store[p].evaluation.verdict = "inconclusive"
    OBVIOUS
  <2>1. PICK c \in Callers : SkipSettled(c) \/ Remember(c)
    BY <1>1 DEF Next, vars, loop, Loop, Accepted, RetryUnsettled, ProposeNew, WriteEvent,
       Promote, Continue, Review, CallFails, IngestFails, Crash
  <2>2. l = ingest[c].lesson
    BY <2>1 DEF SkipSettled, Remember
  <2>3. CASE SkipSettled(c)
    BY <2>2, <2>3 DEF SkipSettled
  <2>4. CASE Remember(c)
    <3> DEFINE p == ingest[c].proposal
    <3>1. /\ p \in Proposals /\ Told(l, p)
      BY <1>1, <2>2, <2>4, Here DEF SerialInv, Remember, IngestFits, Announced
    <3>2. PICK i \in DOMAIN generated : generated[i] = [lesson |-> l, proposal |-> p]
      BY <3>1 DEF Told
    <3>3. generated[i].lesson = l /\ generated[i].proposal = p
      BY <3>2
    <3>4. \A j \in 1 .. (i - 1) : generated[j].lesson # l
      <4>1. i \in 1 .. Len(generated) /\ DOMAIN generated = 1 .. Len(generated)
            /\ Len(generated) \in Nat
        BY <1>1 DEF SerialInv, Inv, LoopTypes
      <4> QED  BY <1>1, <3>3, <4>1 DEF SerialInv, OneEvent
    <3>5. Found(l, p)
      BY <1>1, <3>2, <3>3, <3>4 DEF Found, FirstGenerated, SerialInv, Inv, EventsInv
    <3> QED  BY <1>1, <2>4, <3>1, <3>5 DEF SerialInv, Serial, Remember
  <2> QED  BY <2>1, <2>3, <2>4
<1>2. SerialInv /\ [Next]_vars => [A]_vars
  BY <1>1
<1> QED
  BY <1>2, SerialInitially, SerialSteps, PTL DEF Spec, RememberedWasPromoted
=============================================================================
