---------------------------- MODULE Improvement ----------------------------
(***************************************************************************)
(* The improvement runtime (packages/core/src/improvement/                 *)
(* create-improvement.ts): a proposal is proposed, evaluated, promoted,    *)
(* rejected or rolled back, each by one asynchronous call.  A call reads   *)
(* the proposal once (evaluation inside promote reads it again), works on  *)
(* that copy across its awaits and writes the copy back; the store only    *)
(* refuses a write that proposalUpsertConflicts names.  The publisher is   *)
(* the abstract one of SkillHistory, which SkillPublisher implements; the  *)
(* store and the publisher are not one transaction, so a call can die      *)
(* between them.                                                           *)
(*                                                                         *)
(* One caller is the serialised workflow README.md asks applications for;  *)
(* several callers are the concurrent use that the store's guard and the   *)
(* publisher's queue meet.                                                 *)
(***************************************************************************)
EXTENDS Policies, Sequences

CONSTANTS
  Proposals,    \* proposal identifiers
  Skills,       \* skill names
  Callers,      \* concurrent review calls
  Operations,   \* the operations the application calls
  Autonomy,     \* the configured autonomy level
  Evaluations,  \* what the configured evaluator may answer
  EvaluatorModes, \* {TRUE}: every runtime has an evaluator and experiments;
                  \* {FALSE}: none has; both: some runtimes have
  HasApproval,  \* an approval provider is configured
  HasPublisher, \* a publisher is configured
  CandidateTraits, \* the traits a proposed candidate may have
  MaxFaults,    \* bound on failed calls and crashes
  None

Statuses == {"draft", "evaluating", "awaiting-approval", "approved",
             "rejected", "published", "rolled-back"}
Completed == {"published", "rejected", "rolled-back"}

AllOperations == {"propose", "evaluate", "promote", "rollback", "reject"}

ASSUME SettingsAssumption ==
  /\ Operations \subseteq AllOperations
  /\ Autonomy \in AutonomyLevels
  /\ Evaluations \subseteq Evaluation
  /\ EvaluatorModes \subseteq BOOLEAN
  /\ HasApproval \in BOOLEAN /\ HasPublisher \in BOOLEAN
  /\ CandidateTraits \subseteq Traits
  /\ MaxFaults \in Nat

Proposal == [id         : Proposals,
             skill      : Skills,
             traits     : Traits,
             status     : Statuses,
             version    : Nat,
             evaluation : Evaluation \cup {None}]

ASSUME NoneAssumption ==
  /\ None \notin Proposal \cup Evaluation \cup Callers \cup Proposals
  /\ None \notin [proposal : Proposals, skill : Skills]

VARIABLES
  store,     \* store[p]: the stored proposal, or None
  call,      \* call[c]: where c's call stands and the copy it works on
  writer,    \* the call that holds the publisher's queue
  log,       \* the publisher's history (SkillHistory)
  reserved,  \* the publisher's pending publication (SkillHistory)
  granted,   \* history: proposals whose promotion in flight was approved
  faults     \* failed calls and crashes so far

publisher == <<log, reserved, writer>>
vars == <<store, call, publisher, granted, faults>>

H == INSTANCE SkillHistory

Steps == {"idle", "reread", "evaluator", "put", "decide", "approval",
          "publish", "commit", "revert"}

\* after: where a call goes on once its write has succeeded.
Call == [pc       : Steps,
         after    : Steps,
         proposal : Proposal \cup {None}]

Idle == [pc |-> "idle", after |-> "idle", proposal |-> None]

At(pc, q) == [pc |-> pc, after |-> "idle", proposal |-> q]

\* The call goes on by writing q, and after that at the step `after`.
Putting(q, after) == [pc |-> "put", after |-> after, proposal |-> q]

WithStatus(q, status) == [q EXCEPT !.status = status]

GoOn(c, next) == call' = [call EXCEPT ![c] = next]

\* A call of operation op begins.
Starts(c, op) == op \in Operations /\ call[c] = Idle

-----------------------------------------------------------------------------
(* proposeFromLesson, and requireProposal at the start of the others.      *)

NewProposal(p, s, t) ==
  [id |-> p, skill |-> s, traits |-> t, status |-> "draft", version |-> 0,
   evaluation |-> None]

\* A new proposal is about to be written, with one of these traits.
Drafting(c, p, traits) ==
  /\ Starts(c, "propose")
  /\ store[p] = None
  /\ \A d \in Callers : call[d].proposal # None => call[d].proposal.id # p
  /\ \E s \in Skills, t \in traits :
       GoOn(c, Putting(NewProposal(p, s, t), "idle"))
  /\ UNCHANGED <<store, publisher, granted, faults>>

\* proposeFromLesson always targets a skill.
Propose(c, p) == Drafting(c, p, {t \in CandidateTraits : t.target = "skill"})

\* An application puts a proposal of its own into the store, with any target.
PutDraft(c, p) == Drafting(c, p, {t \in CandidateTraits : t.target # "skill"})

MissingEvaluator ==
  [verdict |-> "inconclusive", regressions |-> FALSE, structural |-> FALSE,
   error |-> TRUE]

\* Mutant: the status is written without the evaluation.
EvaluatedByStatus(q, e) == [q EXCEPT !.status = "evaluating"]

\* persistEvaluation
Evaluated(q, e) ==
  [q EXCEPT !.evaluation = e,
            !.status = IF e.error /\ q.status = "draft" THEN "draft" ELSE "evaluating"]

\* evaluateProposal up to the evaluator, on the stored proposal; a completed
\* proposal makes it throw.
BeginEvaluation(c, p, after) ==
  LET q == store[p] IN
    \/ q.status \in Completed /\ GoOn(c, Idle)
    \/ /\ q.status \notin Completed
       /\ TRUE \in EvaluatorModes
       /\ GoOn(c, [pc |-> "evaluator", after |-> after, proposal |-> q])
    \/ /\ q.status \notin Completed
       /\ FALSE \in EvaluatorModes
       /\ GoOn(c, Putting(Evaluated(q, MissingEvaluator), after))

Evaluate(c, p) ==
  /\ Starts(c, "evaluate")
  /\ store[p] # None
  /\ BeginEvaluation(c, p, "idle")
  /\ UNCHANGED <<store, publisher, granted, faults>>

EvaluatorAnswers(c) ==
  /\ call[c].pc = "evaluator"
  /\ \E e \in Evaluations :
       GoOn(c, Putting(Evaluated(call[c].proposal, e), call[c].after))
  /\ UNCHANGED <<store, publisher, granted, faults>>

-----------------------------------------------------------------------------
(* promote. *)

\* publishApproved up to the publisher.
Publishing(q) ==
  CASE q.traits.target # "skill" -> Putting(WithStatus(q, "rejected"), "idle")
    [] q.traits.target = "skill" /\ ~HasPublisher ->
         Putting(WithStatus(q, "approved"), "idle")
    [] OTHER -> At("publish", WithStatus(q, "approved"))

\* Mutant: a request for approval publishes.
AppliedUnreviewed(q, decision) ==
  IF decision = "reject" THEN Putting(WithStatus(q, "rejected"), "idle") ELSE Publishing(q)

\* applyDecision and requestApproval up to its approval provider.
Applied(q, decision) ==
  CASE decision = "reject" -> Putting(WithStatus(q, "rejected"), "idle")
    [] decision = "request-approval" ->
         Putting(WithStatus(q, "awaiting-approval"),
                 IF HasApproval THEN "approval" ELSE "idle")
    [] OTHER -> Publishing(q)

\* promoteProposal up to its first await after requireProposal: a completed
\* proposal is returned as it is.
Promote(c, p) ==
  /\ Starts(c, "promote")
  /\ store[p] # None
  /\ store[p].status \notin Completed
  /\ LET q == store[p] IN
       GoOn(c, IF ~requiresEvaluation(Autonomy)
               THEN Applied(q, promotionDecisionForAutonomy(q.traits, Autonomy))
               ELSE IF q.evaluation = None THEN At("reread", q)
               ELSE At("decide", q))
  /\ granted' = granted \ {p}
  /\ UNCHANGED <<store, publisher, faults>>

\* evaluateProposal inside promote reads the proposal again; no store ever
\* deletes one.
Reread(c) ==
  /\ call[c].pc = "reread"
  /\ store[call[c].proposal.id] # None
  /\ BeginEvaluation(c, call[c].proposal.id, "decide")
  /\ UNCHANGED <<store, publisher, granted, faults>>

\* The policy decides on the call's own copy.  countIndependentSources reads
\* evidence this module does not hold: it may count any number of sources.
Decide(c) ==
  /\ call[c].pc = "decide"
  /\ LET q == call[c].proposal IN
       IF q.evaluation.verdict = "inconclusive"
       THEN GoOn(c, Idle)
       ELSE \E sources \in 0..DefaultIndependentSources :
              GoOn(c, Applied(q, defaultPolicyFor(q.traits, q.evaluation,
                                                  Autonomy, sources)))
  /\ UNCHANGED <<store, publisher, granted, faults>>

ApprovalGiven(c) ==
  /\ call[c].pc = "approval"
  /\ GoOn(c, Publishing(call[c].proposal))
  /\ granted' = granted \cup {call[c].proposal.id}
  /\ UNCHANGED <<store, publisher, faults>>

ApprovalRefused(c) ==
  /\ call[c].pc = "approval"
  /\ GoOn(c, Putting(WithStatus(call[c].proposal, "rejected"), "idle"))
  /\ UNCHANGED <<store, publisher, granted, faults>>

-----------------------------------------------------------------------------
(* The publisher, one call of its queue at a time. *)

Live(p) == \E i \in DOMAIN log : log[i].proposal = p /\ ~log[i].reverted
RevertedInLog(p) == \E i \in DOMAIN log : log[i].proposal = p /\ log[i].reverted

PublishedForm(q) == [q EXCEPT !.status = "published", !.version = q.version + 1]

\* The publisher already holds a live revision of the proposal.
PublishExisting(c) ==
  /\ call[c].pc = "publish"
  /\ writer = None
  /\ Live(call[c].proposal.id)
  /\ GoOn(c, Putting(PublishedForm(call[c].proposal), "idle"))
  /\ UNCHANGED <<store, publisher, granted, faults>>

\* Mutant: a pending publication is refused to its own proposal too.
PublishRefusedWhenPending(c) ==
  /\ call[c].pc = "publish"
  /\ writer = None
  /\ RevertedInLog(call[c].proposal.id) \/ reserved # None
  /\ GoOn(c, Idle)
  /\ UNCHANGED <<store, publisher, granted, faults>>

\* It throws for a reverted proposal, and while another one is pending.
PublishRefused(c) ==
  /\ call[c].pc = "publish"
  /\ writer = None
  /\ LET p == call[c].proposal.id IN
       \/ RevertedInLog(p)
       \/ ~H!InLog(p) /\ reserved # None /\ reserved.proposal # p
  /\ GoOn(c, Idle)
  /\ UNCHANGED <<store, publisher, granted, faults>>

PublishReserve(c) ==
  /\ call[c].pc = "publish"
  /\ writer = None
  /\ H!Reserve(call[c].proposal.id, call[c].proposal.skill)
  /\ writer' = c
  /\ GoOn(c, At("commit", call[c].proposal))
  /\ UNCHANGED <<store, granted, faults>>

\* Mutant: a retry does not wait for its turn in the queue.
PublishResumeUnqueued(c) ==
  /\ call[c].pc = "publish"
  /\ reserved # None
  /\ reserved.proposal = call[c].proposal.id
  /\ writer' = c
  /\ GoOn(c, At("commit", call[c].proposal))
  /\ UNCHANGED <<store, log, reserved, granted, faults>>

PublishResume(c) ==
  /\ call[c].pc = "publish"
  /\ writer = None
  /\ reserved # None
  /\ reserved.proposal = call[c].proposal.id
  /\ writer' = c
  /\ GoOn(c, At("commit", call[c].proposal))
  /\ UNCHANGED <<store, log, reserved, granted, faults>>

PublishCommit(c) ==
  /\ call[c].pc = "commit"
  /\ H!Commit
  /\ writer' = None
  /\ GoOn(c, Putting(PublishedForm(call[c].proposal), "idle"))
  /\ UNCHANGED <<store, granted, faults>>

-----------------------------------------------------------------------------
(* rollback and reject. *)

\* Mutant: the store is told, the publisher is not.
RollbackStoreOnly(c, p) ==
  /\ Starts(c, "rollback")
  /\ store[p] # None
  /\ store[p].status = "published"
  /\ GoOn(c, Putting(WithStatus(store[p], "rolled-back"), "idle"))
  /\ UNCHANGED <<store, publisher, granted, faults>>

\* rollbackProposal up to the publisher; every other status returns or throws.
Rollback(c, p) ==
  /\ Starts(c, "rollback")
  /\ store[p] # None
  /\ store[p].status = "published"
  /\ HasPublisher
  /\ GoOn(c, At("revert", store[p]))
  /\ UNCHANGED <<store, publisher, granted, faults>>

RolledBackForm(q) == WithStatus(q, "rolled-back")

RevertDone(c) ==
  /\ call[c].pc = "revert"
  /\ writer = None
  /\ \/ \E i \in DOMAIN log : log[i].proposal = call[c].proposal.id /\ H!Revert(i)
     \/ /\ reserved = None
        /\ RevertedInLog(call[c].proposal.id)
        /\ UNCHANGED <<log, reserved>>
  /\ GoOn(c, Putting(RolledBackForm(call[c].proposal), "idle"))
  /\ UNCHANGED <<store, writer, granted, faults>>

RevertRefused(c) ==
  /\ call[c].pc = "revert"
  /\ writer = None
  /\ \/ reserved # None
     \/ ~H!InLog(call[c].proposal.id)
     \/ \E i \in DOMAIN log : /\ log[i].proposal = call[c].proposal.id
                              /\ ~log[i].reverted
                              /\ ~H!Newest(i)
  /\ GoOn(c, Idle)
  /\ UNCHANGED <<store, publisher, granted, faults>>

\* Mutant: only a published proposal cannot be rejected.
RejectUnlessPublished(c, p) ==
  /\ Starts(c, "reject")
  /\ store[p] # None
  /\ store[p].status # "published"
  /\ GoOn(c, Putting(WithStatus(store[p], "rejected"), "idle"))
  /\ UNCHANGED <<store, publisher, granted, faults>>

Reject(c, p) ==
  /\ Starts(c, "reject")
  /\ store[p] # None
  /\ store[p].status \notin {"published", "rolled-back"}
  /\ GoOn(c, Putting(WithStatus(store[p], "rejected"), "idle"))
  /\ UNCHANGED <<store, publisher, granted, faults>>

-----------------------------------------------------------------------------
(* The store, faults, and the specification. *)

Conflicts(q) ==
  store[q.id] # None /\ proposalUpsertConflicts(store[q.id], q)

\* Mutant: a decision is written as an update of the status, over whatever
\* evaluation is stored by then.
PutStatusAlone(c) ==
  /\ call[c].pc = "put"
  /\ LET q == call[c].proposal
         kept == IF q.status \in {"draft", "evaluating"} THEN q
                 ELSE [q EXCEPT !.evaluation = store[q.id].evaluation]
         after == call[c].after
     IN \/ /\ Conflicts(q)
           /\ GoOn(c, Idle)
           /\ UNCHANGED store
        \/ /\ ~Conflicts(q)
           /\ store' = [store EXCEPT ![q.id] = kept]
           /\ GoOn(c, IF after = "idle" THEN Idle ELSE At(after, kept))
  /\ UNCHANGED <<publisher, granted, faults>>

\* putProposal: the write is made whole, or refused and the call throws.
Put(c) ==
  /\ call[c].pc = "put"
  /\ LET q == call[c].proposal
         after == call[c].after
     IN \/ /\ Conflicts(q)
           /\ GoOn(c, Idle)
           /\ UNCHANGED store
        \/ /\ ~Conflicts(q)
           /\ store' = [store EXCEPT ![q.id] = q]
           /\ GoOn(c, IF after = "idle" THEN Idle ELSE At(after, q))
  /\ UNCHANGED <<publisher, granted, faults>>

\* A call throws where it stands: the store, the evaluator, the approval
\* provider or a file of the publisher failed.  It leaves the queue.
CallFails(c) ==
  /\ call[c] # Idle
  /\ faults < MaxFaults
  /\ faults' = faults + 1
  /\ GoOn(c, Idle)
  /\ writer' = IF writer = c THEN None ELSE writer
  /\ UNCHANGED <<store, log, reserved, granted>>

\* The process dies and a new one starts on the same store and directory.
Crash ==
  /\ \E c \in Callers : call[c] # Idle
  /\ faults < MaxFaults
  /\ faults' = faults + 1
  /\ call' = [c \in Callers |-> Idle]
  /\ writer' = None
  /\ UNCHANGED <<store, log, reserved, granted>>

Init ==
  /\ store = [p \in Proposals |-> None]
  /\ call = [c \in Callers |-> Idle]
  /\ writer = None
  /\ H!Init
  /\ granted = {}
  /\ faults = 0

Begin(c) ==
  \E p \in Proposals :
    \/ Propose(c, p)
    \/ PutDraft(c, p)
    \/ Evaluate(c, p)
    \/ Promote(c, p)
    \/ Rollback(c, p)
    \/ Reject(c, p)

Continue(c) ==
  \/ EvaluatorAnswers(c)
  \/ Reread(c)
  \/ Decide(c)
  \/ ApprovalGiven(c)
  \/ ApprovalRefused(c)
  \/ PublishExisting(c)
  \/ PublishRefused(c)
  \/ PublishReserve(c)
  \/ PublishResume(c)
  \/ PublishCommit(c)
  \/ RevertDone(c)
  \/ RevertRefused(c)
  \/ Put(c)

Next ==
  \/ \E c \in Callers : Begin(c) \/ Continue(c) \/ CallFails(c)
  \/ Crash

Spec == Init /\ [][Next]_vars
-----------------------------------------------------------------------------
(* Properties. *)

\* Every variable holds a value of its type; a call that goes on has a copy,
\* and an evaluated one when the policy is about to decide.
TypeOK ==
  /\ store \in [Proposals -> Proposal \cup {None}]
  /\ \A p \in Proposals : store[p] # None => store[p].id = p
  /\ call \in [Callers -> Call]
  /\ \A c \in Callers : call[c].pc # "idle" => call[c].proposal # None
  /\ \A c \in Callers : call[c].pc = "decide" => call[c].proposal.evaluation # None
  /\ writer \in Callers \cup {None}
  /\ log \in Seq(H!Revision)
  /\ reserved \in H!Reservation \cup {None}
  /\ granted \subseteq Proposals
  /\ faults \in 0..MaxFaults

HasStatus(p, statuses) == store[p] # None /\ store[p].status \in statuses

\* The checks of the built-in policies on a stored proposal.
Passed(q) ==
  /\ q.evaluation # None
  /\ q.evaluation.verdict = "pass"
  /\ ~q.evaluation.regressions
  /\ q.traits.target = "skill"
  /\ ~q.traits.sensitive

NeedsReviewer(q) == Autonomy < 4 \/ q.evaluation.structural

\* "A failed check cannot publish under the built-in policies", and an
\* inconclusive one stays pending: whatever ran between the policy's decision
\* and the final write, a proposal that awaits approval, is approved or was
\* published is a skill, without sensitive text, whose own evaluation passed.
AcceptedOnlyPassed ==
  \A p \in Proposals :
    HasStatus(p, {"awaiting-approval", "approved", "published", "rolled-back"})
      => Passed(store[p])

\* The version is 1 from publication on and 0 before it, so a call that still
\* holds a copy from before the publication can never write over it.
VersionMarksPublished ==
  \A p \in Proposals :
    store[p] # None =>
      store[p].version = IF store[p].status \in {"published", "rolled-back"} THEN 1 ELSE 0

\* The store never claims more than the publisher has done: a published
\* proposal has a revision, a rolled back one a reverted revision.
StoreTrailsPublisher ==
  \A p \in Proposals :
    /\ HasStatus(p, {"published"}) => H!InLog(p)
    /\ HasStatus(p, {"rolled-back"}) => RevertedInLog(p)

\* A call that is about to commit holds the publisher's queue, and the
\* pending publication is its own.
CommitOwnsPending ==
  \A c \in Callers :
    call[c].pc = "commit" =>
      /\ writer = c
      /\ reserved # None
      /\ reserved.proposal = call[c].proposal.id

\* No stale copy of an overlapping evaluation, approval, rejection or second
\* promotion takes a published proposal back: it can only be rolled back.
PublishedIsNotUndone ==
  [][ \A p \in Proposals :
        HasStatus(p, {"published"}) => HasStatus(p, {"published", "rolled-back"})' ]_vars

\* With one review call at a time, completed proposals are terminal: a
\* rejected one stays rejected, a rolled back one rolled back, and a
\* published one is at most rolled back.
CompletedIsTerminal ==
  [][ \A p \in Proposals :
        /\ HasStatus(p, {"rejected"}) => HasStatus(p, {"rejected"})'
        /\ HasStatus(p, {"rolled-back"}) => HasStatus(p, {"rolled-back"})'
        /\ HasStatus(p, {"published"}) => HasStatus(p, {"published", "rolled-back"})' ]_vars

\* With one review call at a time, a publication is started or completed only
\* for a proposal that is stored as passed, and, where the policy asks for a
\* reviewer, only after the approval of this very promotion.
PublishedOnlyAccepted ==
  [][ \A p \in Proposals :
        \/ reserved' # reserved /\ reserved' # None /\ reserved'.proposal = p
        \/ Len(log') > Len(log) /\ log'[Len(log')].proposal = p
        => /\ store[p] # None
           /\ Passed(store[p])
           /\ NeedsReviewer(store[p]) => p \in granted ]_vars

\* Rejecting "ends a pending change without publication" (README.md), and "a
\* published change must be reverted, not rejected" (the error of reject): a
\* rejected proposal has neither a live revision nor a reserved one, which
\* would block the publisher, since promote returns a rejected proposal early.
RejectedIsUnpublished ==
  \A p \in Proposals :
    HasStatus(p, {"rejected"}) =>
      ~Live(p) /\ (reserved = None \/ reserved.proposal # p)

-----------------------------------------------------------------------------
(* The inductive invariant behind the theorems of ImprovementProofs.       *)

\* What holds of a proposal record wherever it is, stored or held by a call.
Sound(q) ==
  /\ q.version = IF q.status \in {"published", "rolled-back"} THEN 1 ELSE 0
  /\ q.status \in {"awaiting-approval", "approved", "published", "rolled-back"}
       => Passed(q)

\* Each await is reached with a copy in the state the code leaves it in: what
\* is yet to be decided is unpublished, and what follows a write is known.
CallFits(k) ==
  k.pc # "idle" =>
    /\ k.proposal # None
    /\ Sound(k.proposal)
    /\ k.pc \in {"reread", "evaluator", "decide"} => k.proposal.version = 0
    /\ k.pc = "decide" => k.proposal.evaluation # None
    /\ k.pc = "approval" => k.proposal.status = "awaiting-approval"
    /\ k.pc \in {"publish", "commit"} => k.proposal.status = "approved"
    /\ k.pc = "revert" => k.proposal.status = "published"
    /\ k.pc = "evaluator" => k.after \in {"idle", "decide"}
    /\ k.pc = "put" => k.after \in {"idle", "decide", "approval"}
    /\ k.pc = "put" /\ k.after = "decide" =>
         k.proposal.version = 0 /\ k.proposal.evaluation # None
    /\ k.pc = "put" /\ k.after = "approval" => k.proposal.status = "awaiting-approval"

IInv ==
  /\ TypeOK
  /\ \A p \in Proposals : store[p] # None => Sound(store[p])
  /\ \A c \in Callers : CallFits(call[c])

-----------------------------------------------------------------------------
(* Liveness.  Calls in flight go on (their promises settle), and the        *)
(* application keeps promoting a proposal it has accepted.                  *)
FairSpec ==
  /\ Spec
  /\ \A c \in Callers : WF_vars(Continue(c))
  /\ \A c \in Callers, p \in Proposals : SF_vars(Promote(c, p))

\* A publication that was started is completed and ends up in the store,
\* whatever died in between, as long as nobody rejects it meanwhile.
StartedIsPublished ==
  \A p \in Proposals :
    (reserved # None /\ reserved.proposal = p) \/ Live(p)
      ~> HasStatus(p, {"published", "rolled-back"})
=============================================================================
