------------------------------ MODULE Learning ------------------------------
(***************************************************************************)
(* Ingestion of learning signals (packages/core/src/learning/ingest.ts):   *)
(* a signal becomes one stored piece of evidence and is merged into the    *)
(* lesson of its statement.  An ingest is a chain of store calls, each     *)
(* serialised by the store, that read a lesson, work on the copy and write *)
(* it back; nothing keeps two ingests apart.  Any store call may throw,    *)
(* a write before or after it took effect; the source may then deliver     *)
(* the signal again.                                                       *)
(*                                                                         *)
(* One agent and one scope: lesson ids hash agent, scope and normalised    *)
(* statement, so a statement stands for its lesson.  Evidence ids are      *)
(* fresh for each delivery, as the adapters make them.                     *)
(***************************************************************************)
EXTENDS Naturals, Sequences, FiniteSets

CONSTANTS
  Statements,
  Identities,       \* source identities
  Signals,          \* what sources deliver, again and again
  Callers,          \* ingests in flight at the same time
  Aggregates,       \* autonomy is above "observe" (0)
  AcceptThreshold,
  MaxEvidenceIds,   \* MAX_EVIDENCE_IDS_PER_LESSON
  MaxDeliveries,    \* bound on the number of ingests
  MaxFaults,        \* bound on failed ingests and crashes
  None

EvidenceKind == {"correction", "success", "failure", "preference", "fact", "procedure",
                 "missing-capability", "policy-signal"}

SuggestedAction == {"memory", "instruction-change", "create-skill", "update-skill",
                    "workflow-change", "none"}

\* learnable: what isNonLearnable finds on the evidence, negated.
Signal == [statement   : Statements,
           identity    : Identities \cup {None},
           kind        : EvidenceKind,
           action      : SuggestedAction \cup {None},
           learnable   : BOOLEAN,
           contradicts : Statements \cup {None}]

ASSUME ConstantsAssumption ==
  /\ Signals \subseteq Signal
  /\ Aggregates \in BOOLEAN
  /\ AcceptThreshold \in Nat
  /\ MaxEvidenceIds \in Nat \ {0}
  /\ MaxDeliveries \in Nat /\ MaxFaults \in Nat

Evidence == [id : Nat, statement : Statements, identity : Identities \cup {None},
             kind : EvidenceKind, learnable : BOOLEAN]

LessonStatus == {"candidate", "accepted", "rejected", "superseded"}

LessonKind == {"correction", "success-pattern", "failure-pattern", "preference", "fact",
               "procedure", "missing-capability"}

Lesson == [kind            : LessonKind,
           action          : SuggestedAction \cup {None},
           evidenceIds     : Seq(Nat),
           occurrenceCount : Nat,
           status          : LessonStatus,
           supersedes      : Statements \cup {None}]

ASSUME NoneAssumption ==
  None \notin Statements \cup Identities \cup Evidence \cup Lesson

VARIABLES
  evidence,    \* the stored evidence
  lessons,     \* lessons[s]: the stored lesson of statement s, or None
  call,        \* call[c]: where an ingest stands, and its locals
  deliveries,  \* ingests begun so far; the last one's evidence id
  faults

vars == <<evidence, lessons, call, deliveries, faults>>

\* previous: the lesson as getLesson returned it; old: the contradicted
\* lesson as findLessons returned it; superseded: its statement, once written.
Call == [pc          : {"idle", "check", "store", "read", "find", "supersede", "merge"},
         evidence    : Evidence \cup {None},
         action      : SuggestedAction \cup {None},
         contradicts : Statements \cup {None},
         previous    : Lesson \cup {None},
         old         : Lesson \cup {None},
         superseded  : Statements \cup {None}]

Idle == [pc |-> "idle", evidence |-> None, action |-> None, contradicts |-> None,
         previous |-> None, old |-> None, superseded |-> None]

GoOn(c, next) == call' = [call EXCEPT ![c] = next]

-----------------------------------------------------------------------------
(* Lessons. *)

\* evidenceSharesSourceIdentity: putEvidence replaces what shares it.
SharesIdentity(e, f) == e.identity # None /\ e.identity = f.identity

Stored(e) == {f \in evidence : ~SharesIdentity(e, f)} \cup {e}

\* Mutant: the whole history of a lesson is kept.
WholeWindow(ids) == ids

Window(ids) ==
  IF Len(ids) > MaxEvidenceIds
  THEN SubSeq(ids, Len(ids) - MaxEvidenceIds + 1, Len(ids))
  ELSE ids

isActiveLesson(status) == status \in {"candidate", "accepted"}

\* Math.max(1, input.threshold)
Threshold == IF AcceptThreshold = 0 THEN 1 ELSE AcceptThreshold

\* Mutant: a superseded lesson may come back.
nextLessonStatusForgets(learnable, count, previousStatus) ==
  IF ~learnable THEN "rejected"
  ELSE IF count >= Threshold THEN "accepted" ELSE "candidate"

nextLessonStatus(learnable, count, previousStatus) ==
  CASE ~learnable -> "rejected"
    [] learnable /\ previousStatus = "superseded" -> "superseded"
    [] OTHER -> IF count >= Threshold THEN "accepted" ELSE "candidate"

lessonKindFromEvidence(kind) ==
  CASE kind = "success"       -> "success-pattern"
    [] kind = "failure"       -> "failure-pattern"
    [] kind = "policy-signal" -> "fact"
    [] OTHER                  -> kind

\* The lesson that the first evidence of a statement is merged into: its kind
\* stays that of the first evidence.
NoLesson(e) == [kind |-> lessonKindFromEvidence(e.kind), action |-> None,
                evidenceIds |-> <<>>, occurrenceCount |-> 0, status |-> "candidate",
                supersedes |-> None]

OrElse(value, other) == IF value # None THEN value ELSE other

\* Mutant: only the retained evidence is counted.
mergeLessonByWindow(previous, e, action, superseded) ==
  LET before == OrElse(previous, NoLesson(e))
      ids == Window(Append(before.evidenceIds, e.id))
  IN [kind            |-> before.kind,
      action          |-> OrElse(action, before.action),
      evidenceIds     |-> ids,
      occurrenceCount |-> Len(ids),
      status          |-> nextLessonStatus(e.learnable, Len(ids), before.status),
      supersedes      |-> OrElse(superseded, before.supersedes)]

mergeLesson(previous, e, action, superseded) ==
  LET before == OrElse(previous, NoLesson(e))
      count  == before.occurrenceCount + 1
  IN [kind            |-> before.kind,
      action          |-> OrElse(action, before.action),
      evidenceIds     |-> Window(Append(before.evidenceIds, e.id)),
      occurrenceCount |-> count,
      status          |-> nextLessonStatus(e.learnable, count, before.status),
      supersedes      |-> OrElse(superseded, before.supersedes)]

-----------------------------------------------------------------------------
(* An ingest, store call by store call. *)

Deliver(c, s) ==
  /\ call[c] = Idle
  /\ deliveries < MaxDeliveries
  /\ deliveries' = deliveries + 1
  /\ GoOn(c, [Idle EXCEPT
                !.pc = IF s.identity = None THEN "store" ELSE "check",
                !.evidence = [id |-> deliveries + 1, statement |-> s.statement,
                              identity |-> s.identity, kind |-> s.kind,
                              learnable |-> s.learnable],
                !.action = s.action,
                !.contradicts = s.contradicts])
  /\ UNCHANGED <<evidence, lessons, faults>>

Known(e) == \E f \in evidence : SharesIdentity(e, f)

Duplicate(c) ==
  /\ call[c].pc = "check"
  /\ Known(call[c].evidence)
  /\ GoOn(c, Idle)
  /\ UNCHANGED <<evidence, lessons, deliveries, faults>>

\* Mutant: a known source identity is ingested again.
FreshOrKnown(c) ==
  /\ call[c].pc = "check"
  /\ GoOn(c, [call[c] EXCEPT !.pc = "store"])
  /\ UNCHANGED <<evidence, lessons, deliveries, faults>>

Fresh(c) ==
  /\ call[c].pc = "check"
  /\ ~Known(call[c].evidence)
  /\ GoOn(c, [call[c] EXCEPT !.pc = "store"])
  /\ UNCHANGED <<evidence, lessons, deliveries, faults>>

StoreEvidence(c) ==
  /\ call[c].pc = "store"
  /\ evidence' = Stored(call[c].evidence)
  /\ GoOn(c, IF Aggregates THEN [call[c] EXCEPT !.pc = "read"] ELSE Idle)
  /\ UNCHANGED <<lessons, deliveries, faults>>

ReadLesson(c) ==
  /\ call[c].pc = "read"
  /\ GoOn(c, [call[c] EXCEPT
                !.pc = IF call[c].contradicts = None THEN "merge" ELSE "find",
                !.previous = lessons[call[c].evidence.statement]])
  /\ UNCHANGED <<evidence, lessons, deliveries, faults>>

\* supersedeContradicted up to its write: an active lesson, not the evidence's own.
FindContradicted(c) ==
  /\ call[c].pc = "find"
  /\ LET old == lessons[call[c].contradicts] IN
       IF /\ old # None
          /\ isActiveLesson(old.status)
          /\ call[c].contradicts # call[c].evidence.statement
       THEN GoOn(c, [call[c] EXCEPT !.pc = "supersede", !.old = old])
       ELSE GoOn(c, [call[c] EXCEPT !.pc = "merge"])
  /\ UNCHANGED <<evidence, lessons, deliveries, faults>>

Superseding(k) == [lessons EXCEPT ![k.contradicts] = [k.old EXCEPT !.status = "superseded"]]

\* Mutant: the contradicted lesson is only linked.
SupersedeByLink(c) ==
  /\ call[c].pc = "supersede"
  /\ GoOn(c, [call[c] EXCEPT !.pc = "merge", !.superseded = call[c].contradicts])
  /\ UNCHANGED <<evidence, lessons, deliveries, faults>>

Supersede(c) ==
  /\ call[c].pc = "supersede"
  /\ lessons' = Superseding(call[c])
  /\ GoOn(c, [call[c] EXCEPT !.pc = "merge", !.superseded = call[c].contradicts])
  /\ UNCHANGED <<evidence, deliveries, faults>>

Merging(k) ==
  [lessons EXCEPT ![k.evidence.statement] = mergeLesson(k.previous, k.evidence, k.action,
                                                  k.superseded)]

Merge(c) ==
  /\ call[c].pc = "merge"
  /\ lessons' = Merging(call[c])
  /\ GoOn(c, Idle)
  /\ UNCHANGED <<evidence, deliveries, faults>>

-----------------------------------------------------------------------------
(* Failures. *)

\* What a write that threw may have left: the local store keeps evidence and
\* lessons in memory when their file fails, a database may have committed.
MaybeWritten(k) ==
  /\ evidence' \in {evidence} \cup (IF k.pc = "store" THEN {Stored(k.evidence)} ELSE {})
  /\ lessons' \in {lessons} \cup (IF k.pc = "supersede" THEN {Superseding(k)}
                                  ELSE IF k.pc = "merge" THEN {Merging(k)} ELSE {})

\* Mutant: the ingest goes on after a failed evidence write.
IngestFailsAndGoesOn(c) ==
  /\ call[c] # Idle
  /\ faults < MaxFaults
  /\ faults' = faults + 1
  /\ MaybeWritten(call[c])
  /\ GoOn(c, IF call[c].pc = "store" THEN [call[c] EXCEPT !.pc = "read"] ELSE Idle)
  /\ UNCHANGED deliveries

\* A store call throws: the ingest ends, reported (sync) or swallowed.
IngestFails(c) ==
  /\ call[c] # Idle
  /\ faults < MaxFaults
  /\ faults' = faults + 1
  /\ MaybeWritten(call[c])
  /\ GoOn(c, Idle)
  /\ UNCHANGED deliveries

\* The process dies with every ingest in it.
Crash ==
  /\ \E c \in Callers : call[c] # Idle
  /\ faults < MaxFaults
  /\ faults' = faults + 1
  /\ call' = [c \in Callers |-> Idle]
  /\ UNCHANGED <<evidence, lessons, deliveries>>

Init ==
  /\ evidence = {}
  /\ lessons = [s \in Statements |-> None]
  /\ call = [c \in Callers |-> Idle]
  /\ deliveries = 0
  /\ faults = 0

Ingest(c) ==
  \/ \E s \in Signals : Deliver(c, s)
  \/ Duplicate(c)
  \/ Fresh(c)
  \/ StoreEvidence(c)
  \/ ReadLesson(c)
  \/ FindContradicted(c)
  \/ Supersede(c)
  \/ Merge(c)
  \/ IngestFails(c)

Next == (\E c \in Callers : Ingest(c)) \/ Crash

Spec == Init /\ [][Next]_vars

-----------------------------------------------------------------------------
(* Properties. *)

\* Every variable holds a value of its type; a lesson keeps at most
\* MaxEvidenceIds evidence ids.
TypeOK ==
  /\ evidence \subseteq Evidence
  /\ lessons \in [Statements -> Lesson \cup {None}]
  /\ \A s \in Statements : lessons[s] # None => Len(lessons[s].evidenceIds) <= MaxEvidenceIds
  /\ call \in [Callers -> Call]
  /\ deliveries \in 0..MaxDeliveries
  /\ faults \in 0..MaxFaults

EvidenceOf(s) == {e \in evidence : e.statement = s}

\* A lesson never counts more than the evidence that is stored for it, so it
\* is never accepted on fewer than AcceptThreshold stored pieces: neither a
\* repeated delivery nor a retry after a failed write counts twice.
CountsStoredEvidence ==
  \A s \in Statements :
    lessons[s] # None => lessons[s].occurrenceCount <= Cardinality(EvidenceOf(s))

\* As long as nothing failed, ingests that run one at a time count all the
\* evidence they stored, however little of it a lesson retains.
NothingIsUncounted ==
  faults = 0 /\ (\A c \in Callers : call[c] = Idle) =>
    \A s \in Statements :
      Cardinality(EvidenceOf(s)) =
        IF lessons[s] = None THEN 0 ELSE lessons[s].occurrenceCount

\* The evidence ids of a lesson are ids of stored evidence of its statement:
\* the independent sources that the promotion policy counts through them
\* exist (countIndependentSources in create-improvement.ts).
RetainedIsStored ==
  \A s \in Statements :
    lessons[s] # None =>
      \A i \in DOMAIN lessons[s].evidenceIds :
        \E e \in EvidenceOf(s) : e.id = lessons[s].evidenceIds[i]

\* With one ingest at a time, a lesson that says it supersedes another one is
\* right: that one is out, unless a policy signal of it has since reset it.
SupersessionIsDone ==
  \A s \in Statements :
    lessons[s] # None /\ lessons[s].supersedes # None =>
      LET t == lessons[s].supersedes IN
        \/ lessons[t] # None /\ ~isActiveLesson(lessons[t].status)
        \/ \E e \in EvidenceOf(t) : ~e.learnable

\* With one ingest at a time, no write brings a superseded lesson back: the
\* copy an ingest holds is from before its own supersession, but never of the
\* lesson that it superseded.
SupersededStaysOut ==
  [][ \A s \in Statements :
        lessons[s] # None /\ lessons[s].status = "superseded" =>
          ~isActiveLesson(lessons'[s].status) ]_vars
=============================================================================
