--------------------------- MODULE AutoPromotion ---------------------------
(***************************************************************************)
(* Automatic promotion (packages/adapters/src/skills/                      *)
(* promote-accepted-lesson.ts, wired by createMastraEvolution): an ingest  *)
(* that returns an accepted lesson with a valid draft proposes a skill for *)
(* it and promotes the proposal, through the runtime of Improvement.       *)
(*                                                                         *)
(* What keeps a lesson from being proposed twice is its                    *)
(* evolution.proposal.generate event, which the store keeps, and a set of  *)
(* lessons, which the process keeps.  The store lists no proposals: their  *)
(* ids are learnt from the events, by this loop and by reviewers.          *)
(***************************************************************************)
EXTENDS Naturals, Sequences

CONSTANTS
  Lessons,      \* accepted lessons with a valid draft
  \* as in Improvement:
  Proposals, Skills, Callers, Operations, Autonomy, Evaluations, EvaluatorModes,
  HasApproval, HasPublisher, CandidateTraits, MaxFaults, None

\* shouldAutoPromote: from HOBBY_SKILL_AUTONOMY on.
ASSUME AutoAssumption == Autonomy \in 4..5

ASSUME LessonsAssumption == None \notin Lessons

VARIABLES
  store, call, writer, log, reserved, granted, faults,  \* as in Improvement
  ingest,      \* ingest[c]: where the promotion after caller c's ingest stands
  generated,   \* the evolution.proposal.generate events, oldest first
  remembered,  \* publishedLessonIds of this process
  lessonOf     \* lessonOf[p]: the lesson in the lessonIds of p, or None

I == INSTANCE Improvement

\* The runtime's settings, of which Autonomy allows the loop.
ASSUME RuntimeAssumption == I!SettingsAssumption /\ I!NoneAssumption

runtime == <<store, call, writer, log, reserved, granted, faults>>
loop == <<ingest, generated, remembered, lessonOf>>
vars == <<runtime, loop>>

\* SETTLED_STATUSES
Settled == {"published", "rejected", "awaiting-approval", "rolled-back"}

Event == [lesson : Lessons, proposal : Proposals]

Ingest == [pc       : {"idle", "lookup", "proposing", "event", "promote",
                       "promoting", "remember"},
           lesson   : Lessons \cup {None},
           proposal : Proposals \cup {None}]

NotIngesting == [pc |-> "idle", lesson |-> None, proposal |-> None]

IngestAt(pc, l, p) == [pc |-> pc, lesson |-> l, proposal |-> p]

\* No call of c is in flight.
Quiet(c) == ingest[c] = NotIngesting /\ call[c] = I!Idle

GoOn(c, next) == ingest' = [ingest EXCEPT ![c] = next]

\* proposalForLesson: the first event of l names p.
FirstGenerated(l, p) ==
  \E i \in DOMAIN generated :
    /\ generated[i] = [lesson |-> l, proposal |-> p]
    /\ \A j \in 1..(i - 1) : generated[j].lesson # l

Found(l, p) == FirstGenerated(l, p) /\ store[p] # None

-----------------------------------------------------------------------------
(* promoteAcceptedLesson. *)

\* Up to findEvents: a remembered lesson is left alone.
Accepted(c, l) ==
  /\ Quiet(c)
  /\ l \notin remembered
  /\ GoOn(c, IngestAt("lookup", l, None))
  /\ UNCHANGED <<runtime, generated, remembered, lessonOf>>

SkipSettled(c) ==
  /\ ingest[c].pc = "lookup"
  /\ \E p \in Proposals :
       /\ Found(ingest[c].lesson, p)
       /\ store[p].status \in Settled
  /\ remembered' = remembered \cup {ingest[c].lesson}
  /\ GoOn(c, NotIngesting)
  /\ UNCHANGED <<runtime, generated, lessonOf>>

RetryUnsettled(c) ==
  /\ ingest[c].pc = "lookup"
  /\ \E p \in Proposals :
       /\ Found(ingest[c].lesson, p)
       /\ store[p].status \notin Settled
       /\ GoOn(c, IngestAt("promote", ingest[c].lesson, p))
  /\ UNCHANGED <<runtime, generated, remembered, lessonOf>>

\* Mutant: only the memory of the process is asked.
ProposeNewByMemory(c) ==
  /\ ingest[c].pc = "lookup"
  /\ \E p \in Proposals :
       /\ I!Drafting(c, p, {t \in CandidateTraits : t.target = "skill"})
       /\ lessonOf' = [lessonOf EXCEPT ![p] = ingest[c].lesson]
       /\ GoOn(c, IngestAt("proposing", ingest[c].lesson, p))
  /\ UNCHANGED <<generated, remembered>>

ProposeNew(c) ==
  /\ ingest[c].pc = "lookup"
  /\ ~\E p \in Proposals : Found(ingest[c].lesson, p)
  /\ \E p \in Proposals :
       /\ I!Propose(c, p)
       /\ lessonOf' = [lessonOf EXCEPT ![p] = ingest[c].lesson]
       /\ GoOn(c, IngestAt("proposing", ingest[c].lesson, p))
  /\ UNCHANGED <<generated, remembered>>

\* Mutant: a lost event is not noticed.
WriteEventLost(c) ==
  /\ ingest[c].pc = "event"
  /\ GoOn(c, [ingest[c] EXCEPT !.pc = "promote"])
  /\ UNCHANGED <<runtime, generated, remembered, lessonOf>>

\* The end of proposeFromLesson.
WriteEvent(c) ==
  /\ ingest[c].pc = "event"
  /\ generated' = Append(generated, [lesson   |-> ingest[c].lesson,
                                     proposal |-> ingest[c].proposal])
  /\ GoOn(c, [ingest[c] EXCEPT !.pc = "promote"])
  /\ UNCHANGED <<runtime, remembered, lessonOf>>

\* promote returns a completed proposal at once.
Promote(c) ==
  /\ ingest[c].pc = "promote"
  /\ \/ I!Promote(c, ingest[c].proposal) /\ GoOn(c, [ingest[c] EXCEPT !.pc = "promoting"])
     \/ /\ I!HasStatus(ingest[c].proposal, I!Completed)
        /\ GoOn(c, [ingest[c] EXCEPT !.pc = "remember"])
        /\ UNCHANGED runtime
  /\ UNCHANGED <<generated, remembered, lessonOf>>

\* rememberPublished, whatever promote returned.
Remember(c) ==
  /\ ingest[c].pc = "remember"
  /\ remembered' = remembered \cup {ingest[c].lesson}
  /\ GoOn(c, NotIngesting)
  /\ UNCHANGED <<runtime, generated, lessonOf>>

-----------------------------------------------------------------------------
(* The runtime's calls, and failures. *)

\* Mutant: how promote ends is not looked at.
ReturnsOrThrows(c) == TRUE

\* A runtime call of c that ends with this step returns; it throws otherwise.
Returns(c) ==
  \/ call[c].pc = "decide"
  \/ call[c].pc = "put" /\ ~I!Conflicts(call[c].proposal)

AfterCall(c) ==
  CASE ~Returns(c) -> NotIngesting
    [] Returns(c) /\ ingest[c].pc = "proposing" -> [ingest[c] EXCEPT !.pc = "event"]
    [] Returns(c) /\ ingest[c].pc = "promoting" -> [ingest[c] EXCEPT !.pc = "remember"]
    [] OTHER -> NotIngesting

\* A runtime call goes on, for the loop or for a reviewer.
Continue(c) ==
  /\ I!Continue(c)
  /\ GoOn(c, IF call'[c] = I!Idle THEN AfterCall(c) ELSE ingest[c])
  /\ UNCHANGED <<generated, remembered, lessonOf>>

\* A reviewer calls the runtime, on a proposal that an event names.
Review(c) ==
  /\ Quiet(c)
  /\ \E l \in Lessons, p \in Proposals :
       /\ [lesson |-> l, proposal |-> p] \in {generated[i] : i \in DOMAIN generated}
       /\ I!Evaluate(c, p) \/ I!Promote(c, p) \/ I!Rollback(c, p) \/ I!Reject(c, p)
  /\ UNCHANGED loop

\* Mutant: that a runtime call threw is not noticed.
CallFailsUnnoticed(c) == I!CallFails(c) /\ UNCHANGED loop

CallFails(c) ==
  /\ I!CallFails(c)
  /\ GoOn(c, NotIngesting)
  /\ UNCHANGED <<generated, remembered, lessonOf>>

\* Another store call of the loop throws, appendEvent perhaps after it took
\* effect; promoteFromIngestResult reports it and the ingest goes on.
IngestFails(c) ==
  /\ ingest[c] # NotIngesting
  /\ call[c] = I!Idle
  /\ faults < MaxFaults
  /\ faults' = faults + 1
  /\ generated' \in {generated} \cup
       (IF ingest[c].pc = "event"
        THEN {Append(generated, [lesson   |-> ingest[c].lesson,
                                 proposal |-> ingest[c].proposal])}
        ELSE {})
  /\ GoOn(c, NotIngesting)
  /\ UNCHANGED <<store, call, writer, log, reserved, granted, remembered, lessonOf>>

\* The process dies, between any two awaits, and its memory with it.
Crash ==
  /\ faults < MaxFaults
  /\ faults' = faults + 1
  /\ call' = [c \in Callers |-> I!Idle]
  /\ writer' = None
  /\ ingest' = [c \in Callers |-> NotIngesting]
  /\ remembered' = {}
  /\ UNCHANGED <<store, log, reserved, granted, generated, lessonOf>>

Init ==
  /\ I!Init
  /\ ingest = [c \in Callers |-> NotIngesting]
  /\ generated = <<>>
  /\ remembered = {}
  /\ lessonOf = [p \in Proposals |-> None]

Loop(c) ==
  \/ \E l \in Lessons : Accepted(c, l)
  \/ SkipSettled(c)
  \/ RetryUnsettled(c)
  \/ ProposeNew(c)
  \/ WriteEvent(c)
  \/ Promote(c)
  \/ Remember(c)

Next ==
  \/ \E c \in Callers :
       Loop(c) \/ Continue(c) \/ Review(c) \/ CallFails(c) \/ IngestFails(c)
  \/ Crash

Spec == Init /\ [][Next]_vars

-----------------------------------------------------------------------------
(* Properties. *)

\* Every variable holds a value of its type; a promotion that waits for a
\* runtime call has one in flight.
TypeOK ==
  /\ I!TypeOK
  /\ ingest \in [Callers -> Ingest]
  /\ \A c \in Callers : ingest[c].pc \in {"proposing", "promoting"} => call[c] # I!Idle
  /\ generated \in Seq(Event)
  /\ remembered \subseteq Lessons
  /\ lessonOf \in [Proposals -> Lessons \cup {None}]

\* With one ingest at a time, a lesson is published at most once, by one
\* proposal, whatever failed or died between the proposal, its event, the
\* publication and the store's write of it.
OnePublicationPerLesson ==
  LET published == {log[i].proposal : i \in DOMAIN log} \cup
                   (IF reserved = None THEN {} ELSE {reserved.proposal})
  IN \A p, q \in published : lessonOf[p] = lessonOf[q] => p = q

\* What a reviewer rejected or reverted is not proposed again by itself, not
\* even by a new process that remembers nothing.
RefusedStaysRefused ==
  [][ \A p, q \in Proposals :
        /\ lessonOf'[q] # lessonOf[q]
        /\ p # q
        /\ I!HasStatus(p, {"rejected", "rolled-back"})
        => lessonOf[p] # lessonOf'[q] ]_vars

\* A lesson is remembered only when promote has decided on its proposal: it
\* is settled, approved where there is no publisher, or its evaluation was
\* inconclusive; never when promote threw.
RememberedWasPromoted ==
  [][ \A l \in remembered' \ remembered :
        \E p \in Proposals :
          /\ Found(l, p)
          /\ \/ store[p].status \in Settled \cup {"approved"}
             \/ store[p].evaluation # None /\ store[p].evaluation.verdict = "inconclusive" ]_vars

\* "Retries `promote` when a draft proposal already exists; skips settled
\* proposals": what a process remembers, and so skips, is settled.
RememberedIsSettled ==
  \A l \in remembered :
    \E p \in Proposals : Found(l, p) /\ store[p].status \in Settled
=============================================================================
