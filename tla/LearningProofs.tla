--------------------------- MODULE LearningProofs ---------------------------
(***************************************************************************)
(* Theorems about Learning, for any number of ingests in flight, any       *)
(* statements, identities and signals, any thresholds and any failures:    *)
(* type correctness; and, as long as no two ingests in flight share a      *)
(* source identity (Apart), that a lesson counts no more than the evidence *)
(* stored for it, and that the evidence ids it retains are stored.         *)
(*                                                                         *)
(* The counting argument: evidence is settled when no ingest is still on   *)
(* its way to merge it.  A lesson, and every copy of a lesson that an      *)
(* ingest works on, counts at most the settled evidence of its statement;  *)
(* settled evidence never gets less, and an ingest that merges a copy      *)
(* settles one piece more.  Copies may be stale and writes may undo one    *)
(* another: that only lowers a count.                                      *)
(*                                                                         *)
(* With one ingest at a time copies are never stale (SerialInv).  Then     *)
(* settled evidence is counted exactly until something fails, a lesson     *)
(* that supersedes another one is right, and a superseded lesson stays     *)
(* out.                                                                    *)
(***************************************************************************)
EXTENDS Learning, FiniteSetTheorems, SequenceTheorems, TLAPS

Aggregating == {"read", "find", "supersede", "merge"}

\* An ingest that is not idle has its evidence, and what its next step reads.
Shape(k) ==
  \/ k = Idle
  \/ /\ k.pc # "idle"
     /\ k.evidence \in Evidence
     /\ k.pc \in {"find", "supersede"} => k.contradicts \in Statements
     /\ k.pc = "supersede" => k.old \in Lesson

\* A lesson, or none, retains no more ids than it may.
Fits(lesson) == lesson # None => Len(lesson.evidenceIds) <= MaxEvidenceIds

TInv ==
  /\ TypeOK
  /\ \A c \in Callers : Shape(call[c]) /\ Fits(call[c].old)

-----------------------------------------------------------------------------
(* Lessons. *)

\* The window keeps the last ids, at most MaxEvidenceIds of them.
LEMMA WindowIds ==
  ASSUME NEW ids \in Seq(Nat)
  PROVE  /\ Window(ids) \in Seq(Nat)
         /\ Len(Window(ids)) <= MaxEvidenceIds
         /\ \A i \in DOMAIN Window(ids) : \E j \in DOMAIN ids : Window(ids)[i] = ids[j]
<1>1. CASE Len(ids) > MaxEvidenceIds
  <2> DEFINE m == Len(ids) - MaxEvidenceIds + 1
  <2>1. m \in Int /\ Len(ids) \in Int /\ m >= 1 /\ MaxEvidenceIds \in Nat \ {0}
    BY <1>1, ConstantsAssumption
  <2>2. \A i \in m .. Len(ids) : i \in DOMAIN ids /\ ids[i] \in Nat
    BY <2>1
  <2> DEFINE w == SubSeq(ids, m, Len(ids))
  <2>3. /\ w \in Seq(Nat)
        /\ Len(w) = (IF m <= Len(ids) THEN Len(ids) - m + 1 ELSE 0)
        /\ \A i \in 1 .. Len(ids) - m + 1 : w[i] = ids[m + i - 1]
    BY <2>1, <2>2, SubSeqProperties
  <2>4. Len(w) = MaxEvidenceIds
    BY <2>1, <2>3
  <2>5. \A i \in DOMAIN w : m + i - 1 \in DOMAIN ids /\ w[i] = ids[m + i - 1]
    BY <2>1, <2>3, <2>4
  <2>6. Window(ids) = w
    BY <1>1 DEF Window
  <2>7. QED
    BY <2>1, <2>3, <2>4, <2>5, <2>6
<1>2. CASE ~(Len(ids) > MaxEvidenceIds)
  BY <1>2, ConstantsAssumption DEF Window
<1>3. QED
  BY <1>1, <1>2

\* A merge counts one more, and appends the id of the evidence it merges.
LEMMA MergedLesson ==
  ASSUME NEW previous \in Lesson \cup {None}, NEW e \in Evidence,
         NEW action \in SuggestedAction \cup {None},
         NEW superseded \in Statements \cup {None}
  PROVE  LET new == mergeLesson(previous, e, action, superseded)
             before == OrElse(previous, NoLesson(e))
         IN /\ new \in Lesson
            /\ new # None
            /\ Fits(new)
            /\ before.occurrenceCount \in Nat
            /\ new.occurrenceCount = before.occurrenceCount + 1
            /\ \A i \in DOMAIN new.evidenceIds :
                 \/ new.evidenceIds[i] = e.id
                 \/ \E j \in DOMAIN before.evidenceIds :
                      new.evidenceIds[i] = before.evidenceIds[j]
<1> DEFINE before == OrElse(previous, NoLesson(e))
           ids == Append(before.evidenceIds, e.id)
           new == mergeLesson(previous, e, action, superseded)
<1>1. lessonKindFromEvidence(e.kind) \in LessonKind
  <2>1. e.kind \in EvidenceKind
    BY DEF Evidence
  <2>2. CASE e.kind = "success"
    BY <2>2 DEF lessonKindFromEvidence, LessonKind
  <2>3. CASE e.kind = "failure"
    BY <2>3 DEF lessonKindFromEvidence, LessonKind
  <2>4. CASE e.kind = "policy-signal"
    BY <2>4 DEF lessonKindFromEvidence, LessonKind
  <2>5. CASE e.kind \notin {"success", "failure", "policy-signal"}
    <3>1. lessonKindFromEvidence(e.kind) = e.kind
      BY <2>5 DEF lessonKindFromEvidence
    <3>2. QED
      BY <2>1, <2>5, <3>1 DEF EvidenceKind, LessonKind
  <2>6. QED
    BY <2>2, <2>3, <2>4, <2>5
<1>2. before \in Lesson
  <2>1. NoLesson(e) \in Lesson
    BY <1>1 DEF NoLesson, Lesson, SuggestedAction, LessonStatus
  <2>2. QED
    BY <2>1 DEF OrElse
<1>3. e.id \in Nat /\ before.evidenceIds \in Seq(Nat) /\ before.occurrenceCount \in Nat
  BY <1>2 DEF Evidence, Lesson
<1>4. /\ ids \in Seq(Nat)
      /\ Len(ids) = Len(before.evidenceIds) + 1
      /\ \A i \in 1..Len(before.evidenceIds) : ids[i] = before.evidenceIds[i]
      /\ ids[Len(before.evidenceIds) + 1] = e.id
  BY <1>3, AppendProperties
<1>5. ASSUME NEW j \in DOMAIN ids
      PROVE  \/ ids[j] = e.id
             \/ \E n \in DOMAIN before.evidenceIds : ids[j] = before.evidenceIds[n]
  <2>1. j \in 1..Len(before.evidenceIds) \/ j = Len(before.evidenceIds) + 1
    BY <1>3, <1>4
  <2>2. DOMAIN before.evidenceIds = 1..Len(before.evidenceIds)
    BY <1>3
  <2>3. QED
    BY <1>4, <2>1, <2>2
<1>6. /\ new.evidenceIds = Window(ids)
      /\ new.occurrenceCount = before.occurrenceCount + 1
  BY DEF mergeLesson
<1>7. nextLessonStatus(e.learnable, before.occurrenceCount + 1, before.status) \in LessonStatus
  <2>1. CASE ~e.learnable
    BY <2>1 DEF nextLessonStatus, LessonStatus
  <2>2. CASE e.learnable /\ before.status = "superseded"
    BY <2>2 DEF nextLessonStatus, LessonStatus
  <2>3. CASE e.learnable /\ before.status # "superseded"
    <3>1. nextLessonStatus(e.learnable, before.occurrenceCount + 1, before.status)
            \in {"accepted", "candidate"}
      BY <2>3 DEF nextLessonStatus
    <3>2. QED
      BY <3>1 DEF LessonStatus
  <2>4. QED
    BY <2>1, <2>2, <2>3
<1>8. OrElse(action, before.action) \in SuggestedAction \cup {None}
  BY <1>2 DEF OrElse, Lesson
<1>9. OrElse(superseded, before.supersedes) \in Statements \cup {None}
  BY <1>2 DEF OrElse, Lesson
<1>10. new \in Lesson
  <2>1. before.kind \in LessonKind
    BY <1>2 DEF Lesson
  <2>2. Window(ids) \in Seq(Nat)
    BY <1>4, WindowIds
  <2>3. QED
    BY <1>3, <1>7, <1>8, <1>9, <2>1, <2>2 DEF mergeLesson, Lesson
<1>11. new # None
  BY <1>10, NoneAssumption
<1>12. Fits(new)
  BY <1>4, <1>6, WindowIds DEF Fits
<1>13. ASSUME NEW i \in DOMAIN new.evidenceIds
       PROVE  \/ new.evidenceIds[i] = e.id
              \/ \E j \in DOMAIN before.evidenceIds : new.evidenceIds[i] = before.evidenceIds[j]
  <2>1. \A m \in DOMAIN Window(ids) : \E n \in DOMAIN ids : Window(ids)[m] = ids[n]
    BY <1>4, WindowIds
  <2>2. i \in DOMAIN Window(ids) /\ new.evidenceIds[i] = Window(ids)[i]
    BY <1>6
  <2>3. PICK n \in DOMAIN ids : new.evidenceIds[i] = ids[n]
    BY <2>1, <2>2
  <2>4. QED
    BY <1>5, <2>3
<1>14. QED
  BY <1>3, <1>6, <1>10, <1>11, <1>12, <1>13
-----------------------------------------------------------------------------
(* Types. *)

\* What an ingest may write into the lessons.
LEMMA SupersedingLessons ==
  ASSUME TInv, NEW c \in Callers, call[c].pc = "supersede"
  PROVE  LET new == Superseding(call[c])
         IN /\ new \in [Statements -> Lesson \cup {None}]
            /\ \A s \in Statements : Fits(new[s])
<1> DEFINE k == call[c]
           old == [k.old EXCEPT !.status = "superseded"]
<1>1. k.contradicts \in Statements /\ k.old \in Lesson /\ Fits(k.old)
  BY DEF TInv, Shape, Idle
<1>2. old \in Lesson /\ Fits(old)
  BY <1>1, NoneAssumption DEF Lesson, LessonStatus, Fits
<1>3. lessons \in [Statements -> Lesson \cup {None}] /\ \A s \in Statements : Fits(lessons[s])
  BY DEF TInv, TypeOK, Fits
<1>4. QED
  BY <1>1, <1>2, <1>3 DEF Superseding

LEMMA MergingLessons ==
  ASSUME TInv, NEW c \in Callers, call[c].pc = "merge"
  PROVE  LET new == Merging(call[c])
         IN /\ new \in [Statements -> Lesson \cup {None}]
            /\ \A s \in Statements : Fits(new[s])
<1> DEFINE k == call[c]
           merged == mergeLesson(k.previous, k.evidence, k.action, k.superseded)
<1>1. k \in Call /\ k.evidence \in Evidence
  BY DEF TInv, TypeOK, Shape, Idle
<1>2. /\ k.previous \in Lesson \cup {None}
      /\ k.action \in SuggestedAction \cup {None}
      /\ k.superseded \in Statements \cup {None}
  BY <1>1 DEF Call
<1>3. merged \in Lesson /\ Fits(merged)
  BY <1>1, <1>2, MergedLesson
<1>4. lessons \in [Statements -> Lesson \cup {None}] /\ \A s \in Statements : Fits(lessons[s])
  BY DEF TInv, TypeOK, Fits
<1>5. QED
  BY <1>1, <1>3, <1>4 DEF Merging

\* A failed write left what a write leaves, or nothing.
LEMMA FailedWrite ==
  ASSUME TInv, NEW c \in Callers, call[c] # Idle, MaybeWritten(call[c])
  PROVE  /\ \/ evidence' = evidence
            \/ call[c].pc = "store" /\ evidence' = Stored(call[c].evidence)
         /\ \/ lessons' = lessons
            \/ call[c].pc = "supersede" /\ lessons' = Superseding(call[c])
            \/ call[c].pc = "merge" /\ lessons' = Merging(call[c])
<1>1. CASE call[c].pc = "store"
  BY <1>1 DEF MaybeWritten
<1>2. CASE call[c].pc = "supersede"
  BY <1>2 DEF MaybeWritten
<1>3. CASE call[c].pc = "merge"
  BY <1>3 DEF MaybeWritten
<1>4. CASE call[c].pc \notin {"store", "supersede", "merge"}
  BY <1>4 DEF MaybeWritten
<1>5. QED
  BY <1>1, <1>2, <1>3, <1>4

\* An ingest that is not idle has evidence of the right form.
LEMMA HasEvidence ==
  ASSUME TInv, NEW c \in Callers, call[c].pc # "idle"
  PROVE  /\ call[c] # Idle
         /\ call[c] \in Call
         /\ call[c].evidence \in Evidence
         /\ call[c].evidence.statement \in Statements
BY DEF TInv, TypeOK, Shape, Idle, Evidence

LEMMA TypeInit == Init => TInv
BY ConstantsAssumption DEF Init, TInv, TypeOK, Shape, Fits, Idle, Call

\* One ingest goes on, to a call of its type.
LEMMA CallTypes ==
  ASSUME TInv, NEW c \in Callers, NEW k \in Call, Shape(k), Fits(k.old),
         GoOn(c, k)
  PROVE  /\ call' \in [Callers -> Call]
         /\ \A d \in Callers : Shape(call'[d]) /\ Fits(call'[d].old)
BY DEF TInv, TypeOK, GoOn

LEMMA IdleCall == Idle \in Call /\ Shape(Idle) /\ Fits(Idle.old)
BY DEF Idle, Call, Shape, Fits
LEMMA TypeStep == TInv /\ [Next]_vars => TInv'
<1> SUFFICES ASSUME TInv, [Next]_vars PROVE TInv'
  OBVIOUS
<1> DEFINE Rest == /\ evidence' \subseteq Evidence
                   /\ lessons' \in [Statements -> Lesson \cup {None}]
                   /\ \A s \in Statements : Fits(lessons'[s])
                   /\ deliveries' \in 0..MaxDeliveries
                   /\ faults' \in 0..MaxFaults
           Calls == /\ call' \in [Callers -> Call]
                    /\ \A c \in Callers : Shape(call'[c]) /\ Fits(call'[c].old)
<1>a. /\ evidence \subseteq Evidence
      /\ lessons \in [Statements -> Lesson \cup {None}]
      /\ \A s \in Statements : Fits(lessons[s])
      /\ call \in [Callers -> Call]
      /\ deliveries \in 0..MaxDeliveries
      /\ faults \in 0..MaxFaults
  BY DEF TInv, TypeOK, Fits
<1>b. ASSUME Rest, Calls PROVE TInv'
  BY <1>b DEF TInv, TypeOK, Fits
<1>s. ASSUME NEW c \in Callers, call[c].pc = "store" PROVE Stored(call[c].evidence) \subseteq Evidence
  BY <1>a, <1>s, HasEvidence DEF Stored
<1>1. ASSUME NEW c \in Callers, NEW s \in Signals, Deliver(c, s) PROVE TInv'
  <2> DEFINE e == [id |-> deliveries + 1, statement |-> s.statement, identity |-> s.identity,
                   kind |-> s.kind, learnable |-> s.learnable]
             k == [Idle EXCEPT
                    !.pc = IF s.identity = None THEN "store" ELSE "check",
                    !.evidence = e, !.action = s.action, !.contradicts = s.contradicts]
  <2>1. s \in Signal /\ deliveries + 1 \in Nat /\ deliveries' \in 0..MaxDeliveries
    BY <1>1, <1>a, ConstantsAssumption DEF Deliver
  <2>2. e \in Evidence
    BY <2>1 DEF Signal, Evidence
  <2>3. k \in Call /\ k.pc \in {"check", "store"} /\ k.evidence = e /\ k.old = None
    BY <2>1, <2>2 DEF Idle, Call, Signal
  <2>4. Shape(k) /\ Fits(k.old)
    BY <2>2, <2>3 DEF Shape, Fits
  <2>5. Calls
    <3>1. GoOn(c, k)
      BY <1>1 DEF Deliver
    <3>2. QED
      BY <2>3, <2>4, <3>1, CallTypes
  <2>6. Rest
    BY <1>1, <1>a, <2>1 DEF Deliver
  <2>7. QED
    BY <1>b, <2>5, <2>6
<1>2. ASSUME NEW c \in Callers, Duplicate(c) PROVE TInv'
  <2>1. Calls
    BY <1>2, IdleCall, CallTypes DEF Duplicate
  <2>2. QED
    BY <1>2, <1>a, <1>b, <2>1 DEF Duplicate
<1>3. ASSUME NEW c \in Callers, Fresh(c) PROVE TInv'
  <2> DEFINE k == [call[c] EXCEPT !.pc = "store"]
  <2>1. k \in Call /\ Shape(k) /\ Fits(k.old)
    BY <1>3, HasEvidence DEF Fresh, TInv, Call, Shape
  <2>2. Calls
    BY <1>3, <2>1, CallTypes DEF Fresh
  <2>3. QED
    BY <1>3, <1>a, <1>b, <2>2 DEF Fresh
<1>4. ASSUME NEW c \in Callers, StoreEvidence(c) PROVE TInv'
  <2> DEFINE k == IF Aggregates THEN [call[c] EXCEPT !.pc = "read"] ELSE Idle
  <2>1. k \in Call /\ Shape(k) /\ Fits(k.old)
    BY <1>4, HasEvidence, IdleCall DEF StoreEvidence, TInv, Call, Shape
  <2>2. Calls
    BY <1>4, <2>1, CallTypes DEF StoreEvidence
  <2>3. QED
    BY <1>4, <1>a, <1>b, <1>s, <2>2 DEF StoreEvidence
<1>5. ASSUME NEW c \in Callers, ReadLesson(c) PROVE TInv'
  <2> DEFINE k == [call[c] EXCEPT
                    !.pc = IF call[c].contradicts = None THEN "merge" ELSE "find",
                    !.previous = lessons[call[c].evidence.statement]]
  <2>1. call[c].contradicts \in Statements \cup {None}
    BY <1>5, HasEvidence DEF ReadLesson, Call
  <2>2. k \in Call /\ Shape(k) /\ Fits(k.old)
    BY <1>5, <1>a, <2>1, HasEvidence DEF ReadLesson, TInv, Call, Shape
  <2>3. Calls
    BY <1>5, <2>2, CallTypes DEF ReadLesson
  <2>4. QED
    BY <1>5, <1>a, <1>b, <2>3 DEF ReadLesson
<1>6. ASSUME NEW c \in Callers, FindContradicted(c) PROVE TInv'
  <2>1. call[c].contradicts \in Statements
    BY <1>6, HasEvidence DEF FindContradicted, TInv, Shape
  <2> DEFINE old == lessons[call[c].contradicts]
             found == [call[c] EXCEPT !.pc = "supersede", !.old = old]
             none == [call[c] EXCEPT !.pc = "merge"]
  <2>2. old \in Lesson \cup {None} /\ Fits(old)
    BY <1>a, <2>1
  <2>3. none \in Call /\ Shape(none) /\ Fits(none.old)
    BY <1>6, HasEvidence DEF FindContradicted, TInv, Call, Shape
  <2>4. ASSUME old # None PROVE found \in Call /\ Shape(found) /\ Fits(found.old)
    <3>1. old \in Lesson /\ call[c] \in Call /\ call[c].evidence \in Evidence
      BY <1>6, <2>2, <2>4, HasEvidence DEF FindContradicted
    <3> HIDE DEF old
    <3>2. found \in Call /\ found.old = old
      BY <3>1 DEF Call
    <3>3. Shape(found)
      BY <2>1, <3>1 DEF Shape, Call
    <3>4. QED
      BY <2>2, <3>2, <3>3
  <2>5. Calls
    <3>1. GoOn(c, none) \/ (old # None /\ GoOn(c, found))
      BY <1>6 DEF FindContradicted
    <3>2. QED
      BY <2>3, <2>4, <3>1, CallTypes
  <2>6. QED
    BY <1>6, <1>a, <1>b, <2>5 DEF FindContradicted
<1>7. ASSUME NEW c \in Callers, Supersede(c) PROVE TInv'
  <2> DEFINE k == [call[c] EXCEPT !.pc = "merge", !.superseded = call[c].contradicts]
  <2>1. call[c].contradicts \in Statements
    BY <1>7, HasEvidence DEF Supersede, TInv, Shape
  <2>2. k \in Call /\ Shape(k) /\ Fits(k.old)
    BY <1>7, <2>1, HasEvidence DEF Supersede, TInv, Call, Shape
  <2>3. Calls
    BY <1>7, <2>2, CallTypes DEF Supersede
  <2>4. Rest
    BY <1>7, <1>a, SupersedingLessons DEF Supersede
  <2>5. QED
    BY <1>b, <2>3, <2>4
<1>8. ASSUME NEW c \in Callers, Merge(c) PROVE TInv'
  <2>1. Calls
    BY <1>8, IdleCall, CallTypes DEF Merge
  <2>2. Rest
    BY <1>8, <1>a, MergingLessons DEF Merge
  <2>3. QED
    BY <1>b, <2>1, <2>2
<1>9. ASSUME NEW c \in Callers, IngestFails(c) PROVE TInv'
  <2>1. Calls
    BY <1>9, IdleCall, CallTypes DEF IngestFails
  <2>2. call[c] # Idle /\ MaybeWritten(call[c])
    BY <1>9 DEF IngestFails
  <2>3. evidence' \subseteq Evidence
    BY <1>a, <1>s, <2>2, FailedWrite
  <2>4. lessons' \in [Statements -> Lesson \cup {None}] /\ \A s \in Statements : Fits(lessons'[s])
    BY <1>a, <2>2, FailedWrite, SupersedingLessons, MergingLessons
  <2>5. deliveries' \in 0..MaxDeliveries /\ faults' \in 0..MaxFaults
    BY <1>9, <1>a, ConstantsAssumption DEF IngestFails
  <2>6. QED
    BY <1>b, <2>1, <2>3, <2>4, <2>5
<1>10. CASE Crash
  <2>1. Calls
    BY <1>10, IdleCall DEF Crash
  <2>2. QED
    BY <1>10, <1>a, <1>b, <2>1, ConstantsAssumption DEF Crash
<1>11. CASE UNCHANGED vars
  BY <1>11 DEF vars, TInv, TypeOK, Shape, Fits
<1>12. QED
  BY <1>1, <1>2, <1>3, <1>4, <1>5, <1>6, <1>7, <1>8, <1>9, <1>10, <1>11 DEF Next, Ingest

\* Every variable keeps to its type, and a lesson to the evidence ids it may
\* retain, however many ingests overlap, fail or are cut off by a crash.
THEOREM TypeCorrect == Spec => []TypeOK
<1>1. TInv => TypeOK
  BY DEF TInv
<1>2. QED
  BY TypeInit, TypeStep, <1>1, PTL DEF Spec
-----------------------------------------------------------------------------
(* Evidence, and the ingests on their way with it. *)

\* No two ingests in flight share a source identity: nothing in ingest.ts sees
\* to it, its callers have to.
Apart ==
  \A c, d \in Callers :
    c # d /\ call[c].evidence # None /\ call[d].evidence # None =>
      ~SharesIdentity(call[c].evidence, call[d].evidence)

\* Evidence is new until it is stored; what would replace stored evidence is
\* never stored.
EvidenceOnce(k) ==
  k.pc # "idle" =>
    /\ k.evidence.id <= deliveries
    /\ k.pc \in {"check", "store"} => \A f \in evidence : f.id # k.evidence.id
    /\ k.pc = "store" => ~Known(k.evidence)
    /\ k.pc \in Aggregating => k.evidence \in evidence

Ids ==
  /\ IsFiniteSet(evidence)
  /\ \A e \in evidence : e.id <= deliveries
  /\ \A c \in Callers : EvidenceOnce(call[c])
  /\ \A c, d \in Callers :
       c # d /\ call[c].pc # "idle" /\ call[d].pc # "idle" =>
         call[c].evidence.id # call[d].evidence.id

\* What a step does to the evidence: nothing, or one ingest adds its own.
LEMMA EvidenceGrows ==
  ASSUME TInv, Ids, [Next]_vars
  PROVE  \/ evidence' = evidence
         \/ \E c \in Callers :
              /\ call[c].pc = "store"
              /\ evidence' = evidence \cup {call[c].evidence}
              /\ StoreEvidence(c) \/ IngestFails(c)
<1>1. ASSUME NEW c \in Callers, call[c].pc = "store"
      PROVE  Stored(call[c].evidence) = evidence \cup {call[c].evidence}
  BY <1>1 DEF Ids, EvidenceOnce, Stored, Known, SharesIdentity
<1>2. ASSUME NEW c \in Callers, StoreEvidence(c)
      PROVE  call[c].pc = "store" /\ evidence' = evidence \cup {call[c].evidence}
  BY <1>1, <1>2 DEF StoreEvidence
<1>3. ASSUME NEW c \in Callers, IngestFails(c)
      PROVE  \/ evidence' = evidence
             \/ call[c].pc = "store" /\ evidence' = evidence \cup {call[c].evidence}
  BY <1>1, <1>3, FailedWrite DEF IngestFails
<1>4. ASSUME NEW c \in Callers,
             \/ \E s \in Signals : Deliver(c, s)
             \/ Duplicate(c) \/ Fresh(c) \/ ReadLesson(c) \/ FindContradicted(c)
             \/ Supersede(c) \/ Merge(c)
      PROVE  evidence' = evidence
  BY <1>4 DEF Deliver, Duplicate, Fresh, ReadLesson, FindContradicted, Supersede, Merge
<1>5. ASSUME Crash \/ UNCHANGED vars PROVE evidence' = evidence
  BY <1>5 DEF Crash, vars
<1>6. QED
  BY <1>2, <1>3, <1>4, <1>5 DEF Next, Ingest

\* What a step does to an ingest: it begins with an id of its own, it goes on
\* with its evidence, or it is over.
LEMMA CallSteps ==
  ASSUME TInv, [Next]_vars, NEW c \in Callers
  PROVE  \/ call'[c] = call[c]
         \/ call'[c] = Idle
         \/ /\ call[c] = Idle
            /\ deliveries' = deliveries + 1
            /\ evidence' = evidence
            /\ call'[c].evidence.id = deliveries + 1
            /\ call'[c].pc \in {"check", "store"}
            /\ call'[c].pc = "store" => call'[c].evidence.identity = None
            /\ \A d \in Callers \ {c} : call'[d] = call[d]
         \/ /\ call'[c].evidence = call[c].evidence /\ call'[c].action = call[c].action
            /\ call[c].pc = "check" /\ call'[c].pc = "store"
            /\ ~Known(call[c].evidence)
            /\ evidence' = evidence
         \/ /\ call'[c].evidence = call[c].evidence /\ call'[c].action = call[c].action
            /\ call[c].pc \in {"store"} \cup Aggregating /\ call'[c].pc \in Aggregating
            /\ call[c].pc = "store" => call[c].evidence \in evidence'
<1> DEFINE Goal == \/ call'[c] = call[c]
                   \/ call'[c] = Idle
                   \/ /\ call[c] = Idle
                      /\ deliveries' = deliveries + 1
                      /\ evidence' = evidence
                      /\ call'[c].evidence.id = deliveries + 1
                      /\ call'[c].pc \in {"check", "store"}
                      /\ call'[c].pc = "store" => call'[c].evidence.identity = None
                      /\ \A d \in Callers \ {c} : call'[d] = call[d]
                   \/ /\ call'[c].evidence = call[c].evidence /\ call'[c].action = call[c].action
                      /\ call[c].pc = "check" /\ call'[c].pc = "store"
                      /\ ~Known(call[c].evidence)
                      /\ evidence' = evidence
                   \/ /\ call'[c].evidence = call[c].evidence /\ call'[c].action = call[c].action
                      /\ call[c].pc \in {"store"} \cup Aggregating /\ call'[c].pc \in Aggregating
                      /\ call[c].pc = "store" => call[c].evidence \in evidence'
<1>a. call \in [Callers -> Call]
  BY DEF TInv, TypeOK
<1>1. ASSUME NEW d \in Callers, NEW k, GoOn(d, k), d # c PROVE call'[c] = call[c]
  BY <1>a, <1>1 DEF GoOn
<1>2. ASSUME NEW k, GoOn(c, k)
      PROVE  call'[c] = k /\ \A d \in Callers \ {c} : call'[d] = call[d]
  BY <1>a, <1>2 DEF GoOn
<1>3. ASSUME NEW d \in Callers, Ingest(d), d # c PROVE Goal
  BY <1>1, <1>3 DEF Ingest, Deliver, Duplicate, Fresh, StoreEvidence, ReadLesson,
       FindContradicted, Supersede, Merge, IngestFails
<1>4. ASSUME NEW s \in Signals, Deliver(c, s) PROVE Goal
  <2> DEFINE e == [id |-> deliveries + 1, statement |-> s.statement, identity |-> s.identity,
                   kind |-> s.kind, learnable |-> s.learnable]
             k == [Idle EXCEPT
                    !.pc = IF s.identity = None THEN "store" ELSE "check",
                    !.evidence = e, !.action = s.action, !.contradicts = s.contradicts]
  <2>1. /\ call[c] = Idle /\ GoOn(c, k)
        /\ deliveries' = deliveries + 1 /\ evidence' = evidence
    BY <1>4 DEF Deliver
  <2>2. call'[c] = k /\ \A d \in Callers \ {c} : call'[d] = call[d]
    BY <1>2, <2>1
  <2>3. /\ k.evidence = e
        /\ k.pc = IF s.identity = None THEN "store" ELSE "check"
    BY DEF Idle
  <2>4. e.id = deliveries + 1 /\ e.identity = s.identity
    OBVIOUS
  <2> HIDE DEF e, k
  <2>5. QED
    BY <2>1, <2>2, <2>3, <2>4
<1>5. ASSUME Fresh(c) PROVE Goal
  BY <1>2, <1>5, HasEvidence DEF Fresh, Call
<1>6. ASSUME StoreEvidence(c) PROVE Goal
  <2>1. call[c].evidence \in evidence'
    BY <1>6 DEF StoreEvidence, Stored
  <2>2. CASE Aggregates
    BY <1>2, <1>6, <2>1, <2>2, HasEvidence DEF StoreEvidence, Aggregating, Call
  <2>3. CASE ~Aggregates
    BY <1>2, <1>6, <2>3 DEF StoreEvidence
  <2>4. QED
    BY <2>2, <2>3
<1>7. ASSUME ReadLesson(c) PROVE Goal
  <2> DEFINE k == [call[c] EXCEPT
                    !.pc = IF call[c].contradicts = None THEN "merge" ELSE "find",
                    !.previous = lessons[call[c].evidence.statement]]
  <2>1. call[c] \in Call /\ call[c].pc = "read" /\ call'[c] = k
    BY <1>2, <1>7, HasEvidence DEF ReadLesson
  <2>2. k.evidence = call[c].evidence /\ k.action = call[c].action /\ k.pc \in {"find", "merge"}
    BY <2>1 DEF Call
  <2> HIDE DEF k
  <2>3. QED
    BY <2>1, <2>2 DEF Aggregating
<1>8. ASSUME FindContradicted(c) PROVE Goal
  <2>1. call[c].pc = "find" /\ call[c] \in Call
    BY <1>8, HasEvidence DEF FindContradicted
  <2>2. CASE GoOn(c, [call[c] EXCEPT !.pc = "merge"])
    BY <1>2, <2>1, <2>2 DEF Aggregating, Call
  <2>3. CASE GoOn(c, [call[c] EXCEPT !.pc = "supersede", !.old = lessons[call[c].contradicts]])
    <3> DEFINE k == [call[c] EXCEPT !.pc = "supersede", !.old = lessons[call[c].contradicts]]
    <3>1. call'[c] = k
      BY <1>2, <2>3
    <3>2. k.evidence = call[c].evidence /\ k.action = call[c].action /\ k.pc = "supersede"
      BY <2>1 DEF Call
    <3> HIDE DEF k
    <3>3. QED
      BY <2>1, <3>1, <3>2 DEF Aggregating
  <2>4. QED
    BY <1>8, <2>2, <2>3 DEF FindContradicted
<1>9. ASSUME Supersede(c) PROVE Goal
  <2> DEFINE k == [call[c] EXCEPT !.pc = "merge", !.superseded = call[c].contradicts]
  <2>1. call[c] \in Call /\ call[c].pc = "supersede" /\ call'[c] = k
    BY <1>2, <1>9, HasEvidence DEF Supersede
  <2>2. k.evidence = call[c].evidence /\ k.action = call[c].action /\ k.pc = "merge"
    BY <2>1 DEF Call
  <2> HIDE DEF k
  <2>3. QED
    BY <2>1, <2>2 DEF Aggregating
<1>10. ASSUME Duplicate(c) \/ Merge(c) \/ IngestFails(c) PROVE Goal
  BY <1>2, <1>10 DEF Duplicate, Merge, IngestFails
<1>11. ASSUME Crash \/ UNCHANGED vars PROVE Goal
  BY <1>11 DEF Crash, vars
<1>12. QED
  BY <1>3, <1>4, <1>5, <1>6, <1>7, <1>8, <1>9, <1>10, <1>11 DEF Next, Ingest
\* An ingest that stores its evidence, or fails, does not stand there any more.
LEMMA StoredOrFailed ==
  ASSUME TInv, NEW c \in Callers, StoreEvidence(c) \/ IngestFails(c)
  PROVE  call'[c].pc \in {"idle", "read"}
<1>1. call \in [Callers -> Call]
  BY DEF TInv, TypeOK
<1>2. ASSUME NEW k, GoOn(c, k) PROVE call'[c] = k
  BY <1>1, <1>2 DEF GoOn
<1>3. CASE IngestFails(c)
  BY <1>2, <1>3 DEF IngestFails, Idle
<1>4. CASE StoreEvidence(c)
  <2>1. CASE Aggregates
    BY <1>2, <1>4, <2>1, HasEvidence DEF StoreEvidence, Call
  <2>2. CASE ~Aggregates
    BY <1>2, <1>4, <2>2 DEF StoreEvidence, Idle
  <2>3. QED
    BY <2>1, <2>2
<1>5. QED
  BY <1>3, <1>4

LEMMA IdsInit == Init => Ids
BY FS_EmptySet DEF Init, Ids, EvidenceOnce, Idle

LEMMA IdsStep == TInv /\ Ids /\ Apart /\ [Next]_vars => Ids'
<1> SUFFICES ASSUME TInv, Ids, Apart, [Next]_vars PROVE Ids'
  OBVIOUS
<1>a. deliveries \in Nat /\ deliveries' \in Nat /\ deliveries <= deliveries'
  <2>1. deliveries \in Nat /\ deliveries' \in Nat
    BY TypeStep, ConstantsAssumption DEF TInv, TypeOK
  <2>2. deliveries' = deliveries \/ deliveries' = deliveries + 1
    BY DEF Next, vars, Ingest, Deliver, Duplicate, Fresh, StoreEvidence, ReadLesson,
       FindContradicted, Supersede, Merge, IngestFails, Crash
  <2>3. QED
    BY <2>1, <2>2
<1>b. \A e \in evidence : e \in Evidence /\ e.id \in Nat
  BY DEF TInv, TypeOK, Evidence
<1>c. \A c \in Callers : call[c].pc # "idle" =>
        call[c].evidence \in Evidence /\ call[c].evidence.id \in Nat
  BY HasEvidence DEF Evidence
<1>d. evidence \subseteq evidence'
  BY EvidenceGrows
<1>1. IsFiniteSet(evidence')
  BY EvidenceGrows, FS_AddElement DEF Ids
<1>2. \A e \in evidence' : e.id <= deliveries'
  BY EvidenceGrows, <1>a, <1>b, <1>c DEF Ids, EvidenceOnce
<1>3. ASSUME NEW c \in Callers PROVE EvidenceOnce(call[c])'
  \* What is stored in the step is another ingest's.
  <2>1. ASSUME call[c].pc \in {"check", "store"}, call'[c].pc \in {"check", "store"}
        PROVE  \A f \in evidence' : f.id # call[c].evidence.id
    <3>1. ~StoreEvidence(c) /\ ~IngestFails(c)
      BY <2>1, StoredOrFailed
    <3>2. QED
      BY <2>1, <3>1, EvidenceGrows DEF Ids, EvidenceOnce
  <2>2. ASSUME call[c].pc = "store", call'[c].pc = "store"
        PROVE  \A f \in evidence' : ~SharesIdentity(call[c].evidence, f)
    <3>1. ~StoreEvidence(c) /\ ~IngestFails(c)
      BY <2>2, StoredOrFailed
    <3>2. ~Known(call[c].evidence)
      BY <2>2 DEF Ids, EvidenceOnce
    <3>3. \A f \in evidence' : f \in evidence \/ ~SharesIdentity(call[c].evidence, f)
      BY <2>2, <3>1, <1>c, EvidenceGrows, NoneAssumption DEF Apart
    <3>4. QED
      BY <3>2, <3>3 DEF Known
  <2>3. CASE call'[c] = call[c]
    BY <2>1, <2>2, <2>3, <1>a, <1>c, <1>d DEF Ids, EvidenceOnce, Known
  <2>4. CASE call'[c] = Idle
    BY <2>4 DEF EvidenceOnce, Idle
  <2>5. CASE /\ call[c] = Idle
             /\ deliveries' = deliveries + 1
             /\ evidence' = evidence
             /\ call'[c].evidence.id = deliveries + 1
             /\ call'[c].pc \in {"check", "store"}
             /\ call'[c].pc = "store" => call'[c].evidence.identity = None
    <3>1. \A f \in evidence' : f.id # call'[c].evidence.id
      BY <2>5, <1>a, <1>b DEF Ids
    <3>2. call'[c].pc = "store" => ~Known(call[c].evidence)'
      BY <2>5 DEF Known, SharesIdentity
    <3>3. QED
      BY <2>5, <3>1, <3>2, <1>a DEF EvidenceOnce, Aggregating
  <2>6. CASE /\ call'[c].evidence = call[c].evidence
             /\ call[c].pc = "check" /\ call'[c].pc = "store"
             /\ ~Known(call[c].evidence)
             /\ evidence' = evidence
    BY <2>6, <1>a, <1>c DEF Ids, EvidenceOnce, Aggregating, Known
  <2>7. CASE /\ call'[c].evidence = call[c].evidence
             /\ call[c].pc \in {"store"} \cup Aggregating /\ call'[c].pc \in Aggregating
             /\ call[c].pc = "store" => call[c].evidence \in evidence'
    BY <2>7, <1>a, <1>c, <1>d DEF Ids, EvidenceOnce, Aggregating
  <2>8. QED
    BY <2>3, <2>4, <2>5, <2>6, <2>7, CallSteps
<1>4. ASSUME NEW c \in Callers, NEW d \in Callers, c # d,
             call'[c].pc # "idle", call'[d].pc # "idle"
      PROVE  call'[c].evidence.id # call'[d].evidence.id
  <2>1. ASSUME NEW b \in Callers, call'[b].pc # "idle"
        PROVE  \/ call[b].pc # "idle" /\ call'[b].evidence = call[b].evidence
               \/ /\ call'[b].evidence.id = deliveries + 1
                  /\ \A a \in Callers \ {b} : call'[a] = call[a]
    BY <2>1, CallSteps DEF Aggregating, Idle
  <2>2. \A b \in Callers : call[b].pc # "idle" => call[b].evidence.id <= deliveries
    BY DEF Ids, EvidenceOnce
  <2>3. QED
    BY <1>4, <2>1, <2>2, <1>a, <1>c DEF Ids
<1>5. QED
  BY <1>1, <1>2, <1>3, <1>4 DEF Ids
-----------------------------------------------------------------------------
(* Counting. *)

\* The evidence of a statement that no ingest is still going to merge.
Settled(s) ==
  {e \in EvidenceOf(s) : \A c \in Callers : call[c].pc \in Aggregating => call[c].evidence # e}

\* A lesson, or a copy of one, counts and names what is there.
Backed(lesson, settled, stored) ==
  lesson # None =>
    /\ lesson.occurrenceCount <= Cardinality(settled)
    /\ \A i \in DOMAIN lesson.evidenceIds : \E e \in stored : e.id = lesson.evidenceIds[i]

BackedFor(lesson, s) == Backed(lesson, Settled(s), EvidenceOf(s))

CopiesBacked(k) ==
  \A s \in Statements :
    /\ k.pc \in {"find", "supersede", "merge"} /\ k.evidence.statement = s => BackedFor(k.previous, s)
    /\ k.pc = "supersede" /\ k.contradicts = s => BackedFor(k.old, s)

Counts ==
  /\ \A s \in Statements : BackedFor(lessons[s], s)
  /\ \A c \in Callers : CopiesBacked(call[c])

\* Settled evidence stays settled, and stored evidence stored.
LEMMA SettledGrows ==
  ASSUME TInv, Ids, Ids', [Next]_vars, NEW s \in Statements
  PROVE  /\ Settled(s) \subseteq Settled(s)'
         /\ EvidenceOf(s) \subseteq EvidenceOf(s)'
         /\ IsFiniteSet(Settled(s)) /\ IsFiniteSet(Settled(s)')
<1>1. evidence \subseteq evidence'
  BY EvidenceGrows
<1>2. EvidenceOf(s) \subseteq EvidenceOf(s)'
  BY <1>1 DEF EvidenceOf
<1>3. ASSUME NEW e \in Settled(s), NEW c \in Callers, call'[c].pc \in Aggregating
      PROVE  call'[c].evidence # e
  <2>1. e \in evidence /\ (call[c].pc \in Aggregating => call[c].evidence # e)
    BY <1>3 DEF Settled, EvidenceOf
  <2>2. call[c].pc = "store" => call[c].evidence # e
    BY <2>1 DEF Ids, EvidenceOnce
  <2>3. /\ call'[c].evidence = call[c].evidence
        /\ call[c].pc \in {"store"} \cup Aggregating
    BY <1>3, CallSteps DEF Aggregating, Idle
  <2>4. QED
    BY <2>1, <2>2, <2>3
<1>4. Settled(s) \subseteq Settled(s)'
  BY <1>2, <1>3 DEF Settled
<1>5. Settled(s) \in SUBSET evidence /\ Settled(s)' \in SUBSET evidence'
  BY DEF Settled, EvidenceOf
<1>6. IsFiniteSet(Settled(s)) /\ IsFiniteSet(Settled(s)')
  BY <1>5, FS_Subset DEF Ids
<1>7. QED
  BY <1>2, <1>4, <1>6

\* What is backed now is backed after the step.
LEMMA StaysBacked ==
  ASSUME TInv, Ids, Ids', [Next]_vars, NEW s \in Statements,
         NEW lesson \in Lesson \cup {None}, BackedFor(lesson, s)
  PROVE  Backed(lesson, Settled(s)', EvidenceOf(s)')
<1>1. CASE lesson = None
  BY <1>1 DEF Backed
<1>2. CASE lesson # None
  <2>1. /\ lesson.occurrenceCount \in Nat
        /\ lesson.occurrenceCount <= Cardinality(Settled(s))
        /\ \A i \in DOMAIN lesson.evidenceIds :
             \E e \in EvidenceOf(s) : e.id = lesson.evidenceIds[i]
    BY <1>2 DEF BackedFor, Backed, Lesson
  <2>2. /\ Cardinality(Settled(s)) <= Cardinality(Settled(s)')
        /\ Cardinality(Settled(s)) \in Nat /\ Cardinality(Settled(s)') \in Nat
    BY SettledGrows, FS_Subset, FS_CardinalityType
  <2>3. QED
    BY <2>1, <2>2, SettledGrows DEF Backed
<1>3. QED
  BY <1>1, <1>2

\* What a step does to the lessons, and to the copies of an ingest.
LEMMA LessonSteps ==
  ASSUME TInv, [Next]_vars
  PROVE  \/ lessons' = lessons
         \/ \E c \in Callers : call[c].pc = "supersede" /\ lessons' = Superseding(call[c])
         \/ \E c \in Callers : /\ call[c].pc = "merge" /\ call'[c] = Idle
                               /\ lessons' = Merging(call[c])
<1>1. ASSUME NEW c \in Callers, GoOn(c, Idle) PROVE call'[c] = Idle
  BY <1>1 DEF GoOn, TInv, TypeOK
<1>2. ASSUME NEW c \in Callers, Merge(c)
      PROVE  call[c].pc = "merge" /\ call'[c] = Idle /\ lessons' = Merging(call[c])
  BY <1>1, <1>2 DEF Merge
<1>3. ASSUME NEW c \in Callers, IngestFails(c)
      PROVE  \/ lessons' = lessons
             \/ call[c].pc = "supersede" /\ lessons' = Superseding(call[c])
             \/ call[c].pc = "merge" /\ call'[c] = Idle /\ lessons' = Merging(call[c])
  BY <1>1, <1>3, FailedWrite DEF IngestFails
<1>4. QED
  BY <1>2, <1>3 DEF Next, Ingest, vars, Deliver, Duplicate, Fresh, StoreEvidence,
       ReadLesson, FindContradicted, Supersede, Crash

LEMMA CopySteps ==
  ASSUME TInv, [Next]_vars, NEW c \in Callers
  PROVE  /\ call'[c].pc \in {"find", "supersede", "merge"} =>
              /\ call'[c].evidence = call[c].evidence
              /\ call[c].pc # "idle"
              /\ \/ /\ call[c].pc \in {"find", "supersede", "merge"}
                    /\ call'[c].previous = call[c].previous
                 \/ call'[c].previous = lessons[call[c].evidence.statement]
         /\ call'[c].pc = "supersede" =>
              /\ call'[c].contradicts = call[c].contradicts
              /\ call[c].contradicts \in Statements
              /\ \/ call[c].pc = "supersede" /\ call'[c].old = call[c].old
                 \/ call'[c].old = lessons[call[c].contradicts]
<1> DEFINE Goal ==
      /\ call'[c].pc \in {"find", "supersede", "merge"} =>
              /\ call'[c].evidence = call[c].evidence
              /\ call[c].pc # "idle"
              /\ \/ /\ call[c].pc \in {"find", "supersede", "merge"}
                    /\ call'[c].previous = call[c].previous
                 \/ call'[c].previous = lessons[call[c].evidence.statement]
      /\ call'[c].pc = "supersede" =>
              /\ call'[c].contradicts = call[c].contradicts
              /\ call[c].contradicts \in Statements
              /\ \/ call[c].pc = "supersede" /\ call'[c].old = call[c].old
                 \/ call'[c].old = lessons[call[c].contradicts]
<1>a. call \in [Callers -> Call] /\ Shape(call[c])
  BY DEF TInv, TypeOK
<1>b. call[c].pc \in {"find", "supersede"} => call[c].contradicts \in Statements
  BY <1>a DEF Shape, Idle
<1>1. ASSUME call'[c] = call[c] PROVE Goal
  BY <1>1, <1>b
<1>2. ASSUME call'[c].pc \notin {"find", "supersede", "merge"} PROVE Goal
  BY <1>2
<1>3. ASSUME NEW d \in Callers, NEW k, GoOn(d, k)
      PROVE  IF d = c THEN call'[c] = k ELSE call'[c] = call[c]
  BY <1>a, <1>3 DEF GoOn
<1>4. ASSUME NEW d \in Callers, Ingest(d), d # c PROVE Goal
  BY <1>1, <1>3, <1>4 DEF Ingest, Deliver, Duplicate, Fresh, StoreEvidence, ReadLesson,
       FindContradicted, Supersede, Merge, IngestFails
<1>5. ASSUME ReadLesson(c) PROVE Goal
  <2> DEFINE k == [call[c] EXCEPT
                    !.pc = IF call[c].contradicts = None THEN "merge" ELSE "find",
                    !.previous = lessons[call[c].evidence.statement]]
  <2>1. call[c] \in Call /\ call[c].pc = "read" /\ call'[c] = k
    BY <1>3, <1>5, HasEvidence DEF ReadLesson
  <2>2. /\ k.evidence = call[c].evidence /\ k.pc \in {"find", "merge"}
        /\ k.previous = lessons[call[c].evidence.statement]
    BY <2>1 DEF Call
  <2> HIDE DEF k
  <2>3. QED
    BY <2>1, <2>2
<1>6. ASSUME FindContradicted(c) PROVE Goal
  <2>1. call[c].pc = "find" /\ call[c] \in Call
    BY <1>6, HasEvidence DEF FindContradicted
  <2>2. CASE GoOn(c, [call[c] EXCEPT !.pc = "merge"])
    <3> DEFINE k == [call[c] EXCEPT !.pc = "merge"]
    <3>1. call'[c] = k
      BY <1>3, <2>2
    <3>2. k.evidence = call[c].evidence /\ k.pc = "merge" /\ k.previous = call[c].previous
      BY <2>1 DEF Call
    <3> HIDE DEF k
    <3>3. QED
      BY <2>1, <3>1, <3>2
  <2>3. CASE GoOn(c, [call[c] EXCEPT !.pc = "supersede", !.old = lessons[call[c].contradicts]])
    <3> DEFINE k == [call[c] EXCEPT !.pc = "supersede", !.old = lessons[call[c].contradicts]]
    <3>1. call'[c] = k
      BY <1>3, <2>3
    <3>2. /\ k.evidence = call[c].evidence /\ k.pc = "supersede"
          /\ k.previous = call[c].previous /\ k.contradicts = call[c].contradicts
          /\ k.old = lessons[call[c].contradicts]
      BY <2>1 DEF Call
    <3> HIDE DEF k
    <3>3. QED
      BY <1>b, <2>1, <3>1, <3>2
  <2>4. QED
    BY <1>6, <2>2, <2>3 DEF FindContradicted
<1>7. ASSUME Supersede(c) PROVE Goal
  <2> DEFINE k == [call[c] EXCEPT !.pc = "merge", !.superseded = call[c].contradicts]
  <2>1. call[c] \in Call /\ call[c].pc = "supersede" /\ call'[c] = k
    BY <1>3, <1>7, HasEvidence DEF Supersede
  <2>2. k.evidence = call[c].evidence /\ k.pc = "merge" /\ k.previous = call[c].previous
    BY <2>1 DEF Call
  <2> HIDE DEF k
  <2>3. QED
    BY <2>1, <2>2
<1>8. ASSUME Fresh(c) PROVE Goal
  BY <1>2, <1>3, <1>8, HasEvidence DEF Fresh, Call
<1>9. ASSUME NEW s \in Signals, Deliver(c, s) PROVE Goal
  <2>1. call[c] = Idle
    BY <1>9 DEF Deliver
  <2>2. call'[c] = call[c] \/ call'[c].pc \in {"idle", "check", "store"}
    BY <2>1, CallSteps DEF Idle, Aggregating
  <2>3. QED
    BY <1>1, <1>2, <2>2
<1>10. ASSUME StoreEvidence(c) \/ IngestFails(c) PROVE Goal
  BY <1>2, <1>10, StoredOrFailed
<1>11. ASSUME Duplicate(c) \/ Merge(c) \/ Crash PROVE Goal
  <2>1. call'[c] = Idle
    BY <1>3, <1>11 DEF Duplicate, Merge, Crash
  <2>2. QED
    BY <1>2, <2>1 DEF Idle
<1>12. ASSUME UNCHANGED vars PROVE Goal
  BY <1>1, <1>12 DEF vars
<1>13. QED
  BY <1>4, <1>5, <1>6, <1>7, <1>8, <1>9, <1>10, <1>11, <1>12 DEF Next, Ingest
LEMMA CountsInit == Init => Counts
BY DEF Init, Counts, CopiesBacked, BackedFor, Backed, Idle

\* A merge counts one piece more, which it settles.
LEMMA MergeIsBacked ==
  ASSUME TInv, Ids, Ids', Counts, [Next]_vars,
         NEW c \in Callers, call[c].pc = "merge", call'[c] = Idle,
         NEW s \in Statements, call[c].evidence.statement = s
  PROVE  LET k == call[c]
         IN Backed(mergeLesson(k.previous, k.evidence, k.action, k.superseded),
                   Settled(s)', EvidenceOf(s)')
<1> DEFINE k == call[c]
           e == k.evidence
           before == OrElse(k.previous, NoLesson(e))
           new == mergeLesson(k.previous, e, k.action, k.superseded)
           settled == Settled(s)
           settledNext == Settled(s)'
           storedNext == EvidenceOf(s)'
<1>1. k \in Call /\ e \in Evidence /\ s \in Statements
  BY HasEvidence
<1>2. /\ k.previous \in Lesson \cup {None}
      /\ k.action \in SuggestedAction \cup {None}
      /\ k.superseded \in Statements \cup {None}
  BY <1>1 DEF Call
<1>3. /\ before.occurrenceCount \in Nat
      /\ new.occurrenceCount = before.occurrenceCount + 1
      /\ \A i \in DOMAIN new.evidenceIds :
           \/ new.evidenceIds[i] = e.id
           \/ \E j \in DOMAIN before.evidenceIds : new.evidenceIds[i] = before.evidenceIds[j]
  BY <1>1, <1>2, MergedLesson
<1>4. /\ settled \subseteq settledNext
      /\ EvidenceOf(s) \subseteq storedNext
      /\ IsFiniteSet(settled) /\ IsFiniteSet(settledNext)
  BY <1>1, SettledGrows
<1>5. e \in evidence /\ e \notin settled
  BY DEF Ids, EvidenceOnce, Aggregating, Settled
<1>6. e \in EvidenceOf(s) /\ e \in storedNext
  BY <1>4, <1>5 DEF EvidenceOf
<1>7. ASSUME NEW d \in Callers, call'[d].pc \in Aggregating PROVE call'[d].evidence # e
  <2>1. d # c
    BY <1>7 DEF Aggregating, Idle
  <2>2. call'[d].evidence = call[d].evidence /\ call[d].pc # "idle"
    BY <1>7, CallSteps DEF Aggregating, Idle
  <2>3. QED
    BY <2>1, <2>2 DEF Ids
<1>8. e \in settledNext
  BY <1>6, <1>7 DEF Settled
<1>9. /\ Cardinality(settled) \in Nat /\ Cardinality(settledNext) \in Nat
      /\ Cardinality(settled) + 1 <= Cardinality(settledNext)
  <2>1. settled \cup {e} \in SUBSET settledNext
    BY <1>4, <1>8
  <2>2. Cardinality(settled \cup {e}) = Cardinality(settled) + 1
    BY <1>4, <1>5, FS_AddElement
  <2>3. Cardinality(settled \cup {e}) <= Cardinality(settledNext)
    BY <1>4, <2>1, FS_Subset
  <2>4. QED
    BY <1>4, <2>2, <2>3, FS_CardinalityType
<1>10. Backed(k.previous, settled, EvidenceOf(s))
  BY DEF Counts, CopiesBacked, BackedFor
<1>11. /\ before.occurrenceCount <= Cardinality(settled)
       /\ \A j \in DOMAIN before.evidenceIds : \E f \in EvidenceOf(s) : f.id = before.evidenceIds[j]
  <2>1. CASE k.previous = None
    <3>1. before.occurrenceCount = 0 /\ before.evidenceIds = <<>>
      BY <2>1 DEF OrElse, NoLesson
    <3>2. QED
      BY <1>9, <3>1
  <2>2. CASE k.previous # None
    BY <1>10, <2>2 DEF OrElse, Backed
  <2>3. QED
    BY <2>1, <2>2
<1>12. new.occurrenceCount <= Cardinality(settledNext)
  BY <1>3, <1>9, <1>11
<1>13. \A i \in DOMAIN new.evidenceIds : \E f \in storedNext : f.id = new.evidenceIds[i]
  BY <1>3, <1>4, <1>6, <1>11
<1>14. QED
  BY <1>12, <1>13 DEF Backed

LEMMA CountsStep == TInv /\ Ids /\ Ids' /\ Counts /\ [Next]_vars => Counts'
<1> SUFFICES ASSUME TInv, Ids, Ids', Counts, [Next]_vars PROVE Counts'
  OBVIOUS
<1>a. /\ lessons \in [Statements -> Lesson \cup {None}]
      /\ call \in [Callers -> Call]
  BY DEF TInv, TypeOK
<1>b. ASSUME NEW s \in Statements PROVE Backed(lessons[s], Settled(s)', EvidenceOf(s)')
  BY <1>a, StaysBacked DEF Counts
<1>1. ASSUME NEW s \in Statements PROVE Backed(lessons'[s], Settled(s)', EvidenceOf(s)')
  <2>1. CASE lessons'[s] = lessons[s]
    BY <1>b, <2>1
  <2>2. ASSUME NEW c \in Callers, call[c].pc = "supersede", lessons' = Superseding(call[c]),
               lessons'[s] # lessons[s]
        PROVE  Backed(lessons'[s], Settled(s)', EvidenceOf(s)')
    <3> DEFINE old == call[c].old
               new == [old EXCEPT !.status = "superseded"]
    <3>1. call[c].contradicts = s /\ lessons'[s] = new
      BY <1>a, <2>2 DEF Superseding
    <3>2. old \in Lesson
      BY <2>2 DEF TInv, Shape, Idle
    <3>3. Backed(old, Settled(s)', EvidenceOf(s)')
      <4>1. BackedFor(old, s)
        BY <2>2, <3>1 DEF Counts, CopiesBacked
      <4>2. QED
        BY <3>2, <4>1, StaysBacked
    <3>4. old # None /\ new.occurrenceCount = old.occurrenceCount /\ new.evidenceIds = old.evidenceIds
      BY <3>2, NoneAssumption DEF Lesson
    <3>5. QED
      BY <3>1, <3>3, <3>4 DEF Backed
  <2>3. ASSUME NEW c \in Callers, call[c].pc = "merge", call'[c] = Idle,
               lessons' = Merging(call[c]), lessons'[s] # lessons[s]
        PROVE  Backed(lessons'[s], Settled(s)', EvidenceOf(s)')
    <3> DEFINE k == call[c]
               new == mergeLesson(k.previous, k.evidence, k.action, k.superseded)
    <3>1. k.evidence.statement = s /\ lessons'[s] = new
      BY <1>a, <2>3 DEF Merging
    <3>2. QED
      BY <2>3, <3>1, MergeIsBacked
  <2>4. QED
    BY <2>1, <2>2, <2>3, LessonSteps
<1>2. ASSUME NEW c \in Callers, call'[c].pc \in {"find", "supersede", "merge"},
             NEW s \in Statements, call'[c].evidence.statement = s
      PROVE  Backed(call'[c].previous, Settled(s)', EvidenceOf(s)')
  <2>1. call[c].evidence.statement = s /\ call[c].pc # "idle"
    BY <1>2, CopySteps
  <2>2. call[c].previous \in Lesson \cup {None}
    BY <2>1, HasEvidence DEF Call
  <2>3. CASE call'[c].previous = lessons[s]
    BY <1>b, <2>3
  <2>4. CASE call[c].pc \in {"find", "supersede", "merge"} /\ call'[c].previous = call[c].previous
    <3>1. BackedFor(call[c].previous, s)
      BY <2>1, <2>4 DEF Counts, CopiesBacked
    <3>2. QED
      BY <2>2, <2>4, <3>1, StaysBacked
  <2>5. QED
    BY <1>2, <2>1, <2>3, <2>4, CopySteps
<1>3. ASSUME NEW c \in Callers, call'[c].pc = "supersede",
             NEW s \in Statements, call'[c].contradicts = s
      PROVE  Backed(call'[c].old, Settled(s)', EvidenceOf(s)')
  <2>1. call[c].contradicts = s
    BY <1>3, CopySteps
  <2>2. CASE call'[c].old = lessons[s]
    BY <1>b, <2>2
  <2>3. CASE call[c].pc = "supersede" /\ call'[c].old = call[c].old
    <3>1. BackedFor(call[c].old, s)
      BY <2>1, <2>3 DEF Counts, CopiesBacked
    <3>2. call[c].old \in Lesson \cup {None}
      BY <1>a DEF Call
    <3>3. QED
      BY <2>3, <3>1, <3>2, StaysBacked
  <2>4. QED
    BY <1>3, <2>1, <2>2, <2>3, CopySteps
<1>4. QED
  BY <1>1, <1>2, <1>3 DEF Counts, CopiesBacked, BackedFor

LEMMA Inductive == Spec /\ []Apart => [](TInv /\ Ids /\ Counts)
<1>1. Init => TInv /\ Ids /\ Counts
  BY TypeInit, IdsInit, CountsInit
<1>2. TInv /\ Ids /\ Counts /\ Apart /\ [Next]_vars => (TInv /\ Ids /\ Counts)'
  BY TypeStep, IdsStep, CountsStep
<1>3. QED
  BY <1>1, <1>2, PTL DEF Spec

\* A crash or a failure elsewhere, with no ingest in flight here, counts as a
\* fault and changes nothing else.
LEMMA OnlyFaults ==
  ASSUME TInv, UNCHANGED <<evidence, lessons, call, deliveries>>, faults' \in 0..MaxFaults
  PROVE  TInv' /\ (Ids => Ids') /\ (Counts => Counts')
<1>1. TInv'
  BY DEF TInv, TypeOK, Shape, Fits
<1>2. Ids => Ids'
  BY DEF Ids, EvidenceOnce, Known
<1>3. \A s \in Statements : Settled(s)' = Settled(s) /\ EvidenceOf(s)' = EvidenceOf(s)
  BY DEF Settled, EvidenceOf
<1>4. Counts => Counts'
  BY <1>3 DEF Counts, CopiesBacked, BackedFor, Backed
<1>5. QED
  BY <1>1, <1>2, <1>4

\* Stored evidence changes only by a putEvidence, whoever else is ingesting.
LEMMA EvidenceWrites ==
  ASSUME [Next]_vars
  PROVE  evidence' = evidence \/ \E c \in Callers : evidence' = Stored(call[c].evidence)
<1>1. ASSUME NEW c \in Callers, Ingest(c)
      PROVE  evidence' = evidence \/ evidence' = Stored(call[c].evidence)
  <2>1. CASE \/ \E s \in Signals : Deliver(c, s)
             \/ Duplicate(c) \/ Fresh(c) \/ ReadLesson(c) \/ FindContradicted(c)
             \/ Supersede(c) \/ Merge(c)
    BY <2>1 DEF Deliver, Duplicate, Fresh, ReadLesson, FindContradicted, Supersede, Merge
  <2>2. CASE StoreEvidence(c) \/ IngestFails(c)
    BY <2>2 DEF StoreEvidence, IngestFails, MaybeWritten
  <2>3. QED
    BY <1>1, <2>1, <2>2 DEF Ingest
<1>2. QED
  BY <1>1 DEF Next, Crash, vars

LEMMA BackedIsCounted ==
  ASSUME TInv, Ids, Counts
  PROVE  CountsStoredEvidence
<1> SUFFICES ASSUME NEW s \in Statements, lessons[s] # None
             PROVE  lessons[s].occurrenceCount <= Cardinality(EvidenceOf(s))
  BY DEF CountsStoredEvidence
<1>1. lessons[s].occurrenceCount \in Nat
  BY DEF TInv, TypeOK, Lesson
<1>2. lessons[s].occurrenceCount <= Cardinality(Settled(s))
  BY DEF Counts, BackedFor, Backed
<1>3. Settled(s) \in SUBSET EvidenceOf(s) /\ EvidenceOf(s) \in SUBSET evidence
  BY DEF Settled, EvidenceOf
<1>4. /\ IsFiniteSet(EvidenceOf(s)) /\ IsFiniteSet(Settled(s))
      /\ Cardinality(Settled(s)) <= Cardinality(EvidenceOf(s))
  BY <1>3, FS_Subset DEF Ids
<1>5. QED
  BY <1>1, <1>2, <1>4, FS_CardinalityType

\* A lesson never counts more than the evidence stored for it, whatever reads
\* and writes of other ingests, failures and crashes come in between: what an
\* ingest needs for it is that no other one in flight has its source identity.
THEOREM Counted == Spec /\ []Apart => []CountsStoredEvidence
BY BackedIsCounted, Inductive, PTL

\* The evidence ids that a lesson retains are ids of stored evidence of its
\* statement, so that the sources counted through them exist.
THEOREM Retained == Spec /\ []Apart => []RetainedIsStored
<1>1. Counts => RetainedIsStored
  BY DEF Counts, BackedFor, Backed, RetainedIsStored
<1>2. QED
  BY <1>1, Inductive, PTL

\* With one ingest at a time nothing is left to assume.
THEOREM CountedOneAtATime ==
  ASSUME \A c, d \in Callers : c = d
  PROVE  Spec => [](CountsStoredEvidence /\ RetainedIsStored)
<1>1. Apart
  BY DEF Apart
<1>2. QED
  BY <1>1, Counted, Retained, PTL
-----------------------------------------------------------------------------
(* One ingest at a time. *)

OneCaller == \A c, d \in Callers : c = d

\* A copy that an ingest holds is still what is stored, up to the lesson that
\* it has superseded itself, which is another one.
Alone(k) ==
  /\ k.pc \in {"find", "supersede", "merge"} => k.previous = lessons[k.evidence.statement]
  /\ k.pc = "supersede" =>
       /\ k.contradicts # k.evidence.statement
       /\ k.old = lessons[k.contradicts]
  /\ k.pc # "merge" => k.superseded = None
  /\ k.pc = "merge" /\ k.superseded # None =>
       /\ k.superseded # k.evidence.statement
       /\ lessons[k.superseded] # None
       /\ lessons[k.superseded].status = "superseded"

\* No lesson supersedes itself, and only a policy signal rejects one.
Links ==
  \A s \in Statements :
    lessons[s] # None =>
      /\ lessons[s].supersedes # s
      /\ lessons[s].status = "rejected" => \E e \in EvidenceOf(s) : ~e.learnable

CountOf(lesson) == IF lesson = None THEN 0 ELSE lesson.occurrenceCount

\* Until something fails, what is settled has been counted.
AllCounted ==
  faults = 0 => \A s \in Statements : Cardinality(Settled(s)) = CountOf(lessons[s])

SerialInv ==
  /\ \A c \in Callers : Alone(call[c])
  /\ Links
  /\ SupersessionIsDone

LEMMA OneIsApart == ASSUME OneCaller PROVE Apart
BY DEF OneCaller, Apart

\* What the lessons are after a step of the only caller: the same, with the
\* contradicted lesson superseded, or with the evidence merged.
LEMMA SerialLessons ==
  ASSUME OneCaller, TInv, Ids, SerialInv, [Next]_vars
  PROVE  \/ lessons' = lessons
         \/ \E c \in Callers, t \in Statements :
              /\ call[c].pc = "supersede" /\ t = call[c].contradicts
              /\ t # call[c].evidence.statement
              /\ lessons[t] \in Lesson
              /\ lessons' = [lessons EXCEPT ![t] = [lessons[t] EXCEPT !.status = "superseded"]]
         \/ \E c \in Callers, s \in Statements : \E e \in EvidenceOf(s) :
              /\ call[c].pc = "merge" /\ e = call[c].evidence /\ e \in Evidence
              /\ call'[c] = Idle
              /\ call[c].action \in SuggestedAction \cup {None}
              /\ call[c].superseded \in Statements \cup {None}
              /\ lessons[s] \in Lesson \cup {None}
              /\ lessons' = [lessons EXCEPT
                               ![s] = mergeLesson(lessons[s], e, call[c].action, call[c].superseded)]
<1>1. ASSUME NEW c \in Callers, call[c].pc = "supersede", lessons' = Superseding(call[c])
      PROVE  \E t \in Statements :
               /\ t = call[c].contradicts
               /\ t # call[c].evidence.statement
               /\ lessons[t] \in Lesson
               /\ lessons' = [lessons EXCEPT ![t] = [lessons[t] EXCEPT !.status = "superseded"]]
  <2>1. /\ call[c].contradicts \in Statements
        /\ call[c].old \in Lesson
    BY <1>1 DEF TInv, Shape, Idle
  <2>2. /\ call[c].contradicts # call[c].evidence.statement
        /\ call[c].old = lessons[call[c].contradicts]
    BY <1>1 DEF SerialInv, Alone
  <2>3. QED
    BY <1>1, <2>1, <2>2 DEF Superseding
<1>2. ASSUME NEW c \in Callers, call[c].pc = "merge", call'[c] = Idle,
             lessons' = Merging(call[c])
      PROVE  \E s \in Statements : \E e \in EvidenceOf(s) :
               /\ e = call[c].evidence /\ e \in Evidence
               /\ call'[c] = Idle
               /\ call[c].action \in SuggestedAction \cup {None}
               /\ call[c].superseded \in Statements \cup {None}
               /\ lessons[s] \in Lesson \cup {None}
               /\ lessons' = [lessons EXCEPT
                                ![s] = mergeLesson(lessons[s], e, call[c].action,
                                                   call[c].superseded)]
  <2>1. /\ call[c] \in Call /\ call[c].evidence \in Evidence
        /\ call[c].evidence.statement \in Statements
    BY <1>2, HasEvidence
  <2>2. /\ call[c].action \in SuggestedAction \cup {None}
        /\ call[c].superseded \in Statements \cup {None}
    BY <2>1 DEF Call
  <2>3. call[c].previous = lessons[call[c].evidence.statement]
    BY <1>2 DEF SerialInv, Alone
  <2>4. call[c].evidence \in EvidenceOf(call[c].evidence.statement)
    BY <1>2 DEF Ids, EvidenceOnce, Aggregating, EvidenceOf
  <2>5. lessons[call[c].evidence.statement] \in Lesson \cup {None}
    BY <2>1 DEF TInv, TypeOK
  <2>6. QED
    BY <1>2, <2>1, <2>2, <2>3, <2>4, <2>5 DEF Merging
<1>3. QED
  BY <1>1, <1>2, LessonSteps

LEMMA AloneStep ==
  ASSUME OneCaller, TInv, Ids, SerialInv, [Next]_vars, NEW c \in Callers
  PROVE  Alone(call[c])'
<1>a. /\ call \in [Callers -> Call] /\ Shape(call[c]) /\ Alone(call[c])
      /\ lessons \in [Statements -> Lesson \cup {None}]
  BY DEF TInv, TypeOK, SerialInv
<1>b. ASSUME NEW k, GoOn(c, k) PROVE call'[c] = k
  BY <1>a, <1>b DEF GoOn
<1>1. ASSUME call'[c] = Idle PROVE Alone(call[c])'
  BY <1>1 DEF Alone, Idle
<1>2. ASSUME NEW s \in Signals, Deliver(c, s) PROVE Alone(call[c])'
  <2> DEFINE k == [Idle EXCEPT
                    !.pc = IF s.identity = None THEN "store" ELSE "check",
                    !.evidence = [id |-> deliveries + 1, statement |-> s.statement,
                                  identity |-> s.identity, kind |-> s.kind,
                                  learnable |-> s.learnable],
                    !.action = s.action, !.contradicts = s.contradicts]
  <2>1. call'[c] = k
    BY <1>2, <1>b DEF Deliver
  <2>2. k.pc \in {"check", "store"} /\ k.superseded = None
    BY DEF Idle
  <2> HIDE DEF k
  <2>3. QED
    BY <2>1, <2>2 DEF Alone
<1>3. ASSUME Fresh(c) PROVE Alone(call[c])'
  <2> DEFINE k == [call[c] EXCEPT !.pc = "store"]
  <2>1. call'[c] = k /\ call[c].pc = "check"
    BY <1>3, <1>b DEF Fresh
  <2>2. k.pc = "store" /\ k.superseded = None
    BY <1>a, <2>1 DEF Call, Alone
  <2> HIDE DEF k
  <2>3. QED
    BY <2>1, <2>2 DEF Alone
<1>4. ASSUME StoreEvidence(c), call'[c] # Idle PROVE Alone(call[c])'
  <2> DEFINE k == [call[c] EXCEPT !.pc = "read"]
  <2>1. call'[c] = k /\ call[c].pc = "store"
    BY <1>4, <1>b DEF StoreEvidence
  <2>2. k.pc = "read" /\ k.superseded = None
    BY <1>a, <2>1 DEF Call, Alone
  <2> HIDE DEF k
  <2>3. QED
    BY <2>1, <2>2 DEF Alone
<1>5. ASSUME ReadLesson(c) PROVE Alone(call[c])'
  <2> DEFINE k == [call[c] EXCEPT
                    !.pc = IF call[c].contradicts = None THEN "merge" ELSE "find",
                    !.previous = lessons[call[c].evidence.statement]]
  <2>1. call'[c] = k /\ call[c].pc = "read" /\ lessons' = lessons
    BY <1>5, <1>b DEF ReadLesson
  <2>2. /\ k.pc \in {"merge", "find"} /\ k.superseded = None
        /\ k.previous = lessons[k.evidence.statement]
    BY <1>a, <2>1 DEF Call, Alone
  <2> HIDE DEF k
  <2>3. QED
    BY <2>1, <2>2 DEF Alone
<1>6. ASSUME FindContradicted(c) PROVE Alone(call[c])'
  <2>1. call[c].pc = "find" /\ lessons' = lessons
    BY <1>6 DEF FindContradicted
  <2>2. call[c].previous = lessons[call[c].evidence.statement] /\ call[c].superseded = None
    BY <1>a, <2>1 DEF Alone
  <2>3. CASE GoOn(c, [call[c] EXCEPT !.pc = "merge"])
    <3> DEFINE k == [call[c] EXCEPT !.pc = "merge"]
    <3>1. call'[c] = k
      BY <1>b, <2>3
    <3>2. k.pc = "merge" /\ k.superseded = None /\ k.previous = lessons[k.evidence.statement]
      BY <1>a, <2>2 DEF Call
    <3> HIDE DEF k
    <3>3. QED
      BY <2>1, <3>1, <3>2 DEF Alone
  <2>4. CASE /\ call[c].contradicts # call[c].evidence.statement
             /\ GoOn(c, [call[c] EXCEPT !.pc = "supersede", !.old = lessons[call[c].contradicts]])
    <3> DEFINE k == [call[c] EXCEPT !.pc = "supersede", !.old = lessons[call[c].contradicts]]
    <3>1. call'[c] = k
      BY <1>b, <2>4
    <3>2. /\ k.pc = "supersede" /\ k.superseded = None
          /\ k.previous = lessons[k.evidence.statement]
          /\ k.old = lessons[k.contradicts] /\ k.contradicts # k.evidence.statement
      BY <1>a, <2>2, <2>4 DEF Call
    <3> HIDE DEF k
    <3>3. QED
      BY <2>1, <3>1, <3>2 DEF Alone
  <2>5. QED
    BY <1>6, <2>3, <2>4 DEF FindContradicted
<1>7. ASSUME Supersede(c) PROVE Alone(call[c])'
  <2> DEFINE k == [call[c] EXCEPT !.pc = "merge", !.superseded = call[c].contradicts]
             new == [call[c].old EXCEPT !.status = "superseded"]
  <2>1. /\ call'[c] = k /\ call[c].pc = "supersede"
        /\ lessons' = [lessons EXCEPT ![call[c].contradicts] = new]
    BY <1>7, <1>b DEF Supersede, Superseding
  <2>2. /\ call[c].contradicts \in Statements /\ call[c].old \in Lesson
        /\ call[c].evidence.statement \in Statements
    BY <1>a, <2>1 DEF Shape, Idle, Evidence
  <2>3. /\ call[c].previous = lessons[call[c].evidence.statement]
        /\ call[c].contradicts # call[c].evidence.statement
    BY <1>a, <2>1 DEF Alone
  <2>4. new \in Lesson /\ new.status = "superseded" /\ new # None
    BY <2>2, NoneAssumption DEF Lesson, LessonStatus
  <2>5. lessons'[call[c].contradicts] = new
    BY <1>a, <2>1, <2>2
  <2>6. lessons'[call[c].evidence.statement] = call[c].previous
    BY <1>a, <2>1, <2>2, <2>3
  <2>7. /\ k.pc = "merge" /\ k.superseded = call[c].contradicts
        /\ k.evidence = call[c].evidence /\ k.previous = call[c].previous
    BY <1>a DEF Call
  <2> HIDE DEF k, new
  <2>8. QED
    BY <2>1, <2>3, <2>4, <2>5, <2>6, <2>7 DEF Alone
<1>8. ASSUME NEW d \in Callers, Ingest(d) PROVE Alone(call[c])'
  <2>1. d = c
    BY DEF OneCaller
  <2>2. CASE Duplicate(c) \/ Merge(c) \/ IngestFails(c)
    BY <1>b, <1>1, <2>2 DEF Duplicate, Merge, IngestFails
  <2>3. CASE StoreEvidence(c)
    BY <1>1, <1>4, <2>3
  <2>4. QED
    BY <1>8, <1>2, <1>3, <1>5, <1>6, <1>7, <2>1, <2>2, <2>3 DEF Ingest
<1>9. CASE Crash
  BY <1>1, <1>9 DEF Crash
<1>10. CASE UNCHANGED vars
  BY <1>a, <1>10 DEF vars, Alone
<1>11. QED
  BY <1>8, <1>9, <1>10 DEF Next

\* What a merge makes of the links and the status of a lesson.
LEMMA MergedLinks ==
  ASSUME NEW previous \in Lesson \cup {None}, NEW e \in Evidence,
         NEW action \in SuggestedAction \cup {None},
         NEW superseded \in Statements \cup {None}
  PROVE  LET new == mergeLesson(previous, e, action, superseded)
         IN /\ new \in Lesson /\ new # None
            /\ \/ superseded # None /\ new.supersedes = superseded
               \/ superseded = None /\ previous # None /\ new.supersedes = previous.supersedes
               \/ superseded = None /\ previous = None /\ new.supersedes = None
            /\ new.status = "rejected" <=> ~e.learnable
            /\ previous # None /\ previous.status = "superseded" =>
                 ~isActiveLesson(new.status)
<1> DEFINE before == OrElse(previous, NoLesson(e))
           new == mergeLesson(previous, e, action, superseded)
<1>1. new \in Lesson /\ new # None /\ before.occurrenceCount \in Nat
  BY MergedLesson
<1>2. /\ new.supersedes = OrElse(superseded, before.supersedes)
      /\ new.status = nextLessonStatus(e.learnable, before.occurrenceCount + 1, before.status)
  BY DEF mergeLesson
<1>3. /\ previous # None => before = previous
      /\ previous = None => before.supersedes = None
  BY DEF OrElse, NoLesson
<1>4. \/ superseded # None /\ new.supersedes = superseded
      \/ superseded = None /\ previous # None /\ new.supersedes = previous.supersedes
      \/ superseded = None /\ previous = None /\ new.supersedes = None
  BY <1>2, <1>3 DEF OrElse
<1>5. CASE ~e.learnable
  BY <1>1, <1>2, <1>4, <1>5 DEF nextLessonStatus, isActiveLesson
<1>6. CASE e.learnable /\ before.status = "superseded"
  BY <1>1, <1>2, <1>4, <1>6 DEF nextLessonStatus, isActiveLesson
<1>7. CASE e.learnable /\ before.status # "superseded"
  <2>1. new.status \in {"accepted", "candidate"}
    BY <1>2, <1>7 DEF nextLessonStatus
  <2>2. QED
    BY <1>1, <1>3, <1>4, <1>7, <2>1
<1>8. QED
  BY <1>5, <1>6, <1>7

LEMMA LinksStep ==
  ASSUME OneCaller, TInv, Ids, SerialInv, [Next]_vars
  PROVE  Links'
<1>a. /\ lessons \in [Statements -> Lesson \cup {None}]
      /\ evidence \subseteq evidence'
      /\ Links
  BY EvidenceGrows DEF TInv, TypeOK, SerialInv
<1>b. \A s \in Statements : EvidenceOf(s) \subseteq EvidenceOf(s)'
  BY <1>a DEF EvidenceOf
<1> DEFINE Linked(s, lesson) ==
             lesson # None =>
               /\ lesson.supersedes # s
               /\ lesson.status = "rejected" => \E e \in EvidenceOf(s)' : ~e.learnable
<1>c. \A s \in Statements : Linked(s, lessons[s])
  BY <1>a, <1>b DEF Links
<1>1. CASE lessons' = lessons
  BY <1>c, <1>1 DEF Links
<1>2. ASSUME NEW t \in Statements, lessons[t] \in Lesson,
             lessons' = [lessons EXCEPT ![t] = [lessons[t] EXCEPT !.status = "superseded"]]
      PROVE  Links'
  <2> DEFINE new == [lessons[t] EXCEPT !.status = "superseded"]
  <2>1. Linked(t, new)
    BY <1>c, <1>2, NoneAssumption DEF Lesson
  <2> HIDE DEF new
  <2>2. \A s \in Statements : lessons'[s] = IF s = t THEN new ELSE lessons[s]
    BY <1>a, <1>2 DEF new
  <2>3. QED
    BY <1>c, <2>1, <2>2 DEF Links
<1>3. ASSUME NEW c \in Callers, NEW s \in Statements, NEW e \in EvidenceOf(s),
             call[c].pc = "merge", e = call[c].evidence, e \in Evidence,
             call[c].action \in SuggestedAction \cup {None},
             call[c].superseded \in Statements \cup {None},
             lessons[s] \in Lesson \cup {None},
             lessons' = [lessons EXCEPT
                           ![s] = mergeLesson(lessons[s], e, call[c].action, call[c].superseded)]
      PROVE  Links'
  <2> DEFINE new == mergeLesson(lessons[s], e, call[c].action, call[c].superseded)
  <2>1. s = e.statement /\ e \in EvidenceOf(s)'
    BY <1>3, <1>b DEF EvidenceOf
  <2>2. call[c].superseded # None => call[c].superseded # s
    BY <1>3, <2>1 DEF SerialInv, Alone
  <2>3. Linked(s, new)
    <3>1. new.supersedes # s
      <4>1. \/ call[c].superseded # None /\ new.supersedes = call[c].superseded
            \/ lessons[s] # None /\ new.supersedes = lessons[s].supersedes
            \/ new.supersedes = None
        BY DEF mergeLesson, OrElse, NoLesson
      <4>2. None # s
        BY NoneAssumption
      <4> HIDE DEF new
      <4>3. QED
        BY <1>c, <2>2, <4>1, <4>2
    <3>2. new.status = "rejected" => ~e.learnable
      BY <1>3, MergedLinks
    <3>3. QED
      BY <2>1, <3>1, <3>2
  <2> HIDE DEF new
  <2>4. \A r \in Statements : lessons'[r] = IF r = s THEN new ELSE lessons[r]
    BY <1>a, <1>3 DEF new
  <2>5. QED
    BY <1>c, <2>3, <2>4 DEF Links
<1>4. QED
  BY <1>1, <1>2, <1>3, SerialLessons

\* A lesson that is out stays out, but for a policy signal.
LEMMA OutStays ==
  ASSUME OneCaller, TInv, Ids, SerialInv, [Next]_vars,
         NEW t \in Statements, lessons[t] # None
  PROVE  /\ lessons'[t] # None
         /\ lessons[t].status = "superseded" => ~isActiveLesson(lessons'[t].status)
         /\ ~isActiveLesson(lessons[t].status) =>
              \/ ~isActiveLesson(lessons'[t].status)
              \/ \E e \in EvidenceOf(t)' : ~e.learnable
<1>a. /\ lessons \in [Statements -> Lesson \cup {None}]
      /\ evidence \subseteq evidence'
      /\ Links
  BY EvidenceGrows DEF TInv, TypeOK, SerialInv
<1>b. lessons[t].status \in LessonStatus /\ lessons[t] \in Lesson
  BY <1>a DEF Lesson
<1>1. CASE lessons'[t] = lessons[t]
  BY <1>1 DEF isActiveLesson
<1>2. ASSUME lessons'[t] = [lessons[t] EXCEPT !.status = "superseded"]
      PROVE  lessons'[t] # None /\ lessons'[t].status = "superseded"
  BY <1>2, <1>b, NoneAssumption DEF Lesson, LessonStatus
<1>3. ASSUME NEW e \in Evidence, NEW action \in SuggestedAction \cup {None},
             NEW superseded \in Statements \cup {None},
             lessons'[t] = mergeLesson(lessons[t], e, action, superseded)
      PROVE  /\ lessons'[t] # None
             /\ lessons[t].status = "superseded" => ~isActiveLesson(lessons'[t].status)
  BY <1>b, <1>3, MergedLinks
<1>4. ASSUME ~isActiveLesson(lessons[t].status), lessons[t].status # "superseded"
      PROVE  \E e \in EvidenceOf(t)' : ~e.learnable
  <2>1. lessons[t].status = "rejected"
    BY <1>b, <1>4 DEF LessonStatus, isActiveLesson
  <2>2. QED
    BY <1>a, <2>1 DEF Links, EvidenceOf
<1>5. \/ lessons'[t] = lessons[t]
      \/ lessons'[t] = [lessons[t] EXCEPT !.status = "superseded"]
      \/ \E e \in Evidence, action \in SuggestedAction \cup {None},
            superseded \in Statements \cup {None} :
           lessons'[t] = mergeLesson(lessons[t], e, action, superseded)
  BY <1>a, SerialLessons
<1>6. QED
  BY <1>1, <1>2, <1>3, <1>4, <1>5 DEF isActiveLesson

\* The link of a lesson after a step is the one that it had, or that of the
\* ingest which merges into it.
LEMMA LinkSteps ==
  ASSUME OneCaller, TInv, Ids, SerialInv, [Next]_vars, NEW s \in Statements,
         lessons'[s] # None, lessons'[s].supersedes # None
  PROVE  \/ lessons[s] # None /\ lessons'[s].supersedes = lessons[s].supersedes
         \/ \E c \in Callers :
              /\ call[c].pc = "merge" /\ call[c].evidence.statement = s
              /\ lessons'[s].supersedes = call[c].superseded
              /\ \A r \in Statements \ {s} : lessons'[r] = lessons[r]
<1>a. lessons \in [Statements -> Lesson \cup {None}]
  BY DEF TInv, TypeOK
<1>1. CASE lessons' = lessons
  BY <1>1
<1>2. ASSUME NEW t \in Statements, lessons[t] \in Lesson,
             lessons' = [lessons EXCEPT ![t] = [lessons[t] EXCEPT !.status = "superseded"]]
      PROVE  lessons[s] # None /\ lessons'[s].supersedes = lessons[s].supersedes
  BY <1>a, <1>2, NoneAssumption DEF Lesson
<1>3. ASSUME NEW c \in Callers, NEW t \in Statements, NEW e \in EvidenceOf(t),
             call[c].pc = "merge", e = call[c].evidence,
             lessons' = [lessons EXCEPT
                           ![t] = mergeLesson(lessons[t], e, call[c].action, call[c].superseded)]
      PROVE  \/ lessons[s] # None /\ lessons'[s].supersedes = lessons[s].supersedes
             \/ /\ call[c].pc = "merge" /\ call[c].evidence.statement = s
                /\ lessons'[s].supersedes = call[c].superseded
                /\ \A r \in Statements \ {s} : lessons'[r] = lessons[r]
  <2> DEFINE new == mergeLesson(lessons[t], e, call[c].action, call[c].superseded)
  <2>1. e.statement = t
    BY DEF EvidenceOf
  <2>2. \/ new.supersedes = call[c].superseded
        \/ lessons[t] # None /\ new.supersedes = lessons[t].supersedes
        \/ new.supersedes = None
    BY DEF mergeLesson, OrElse, NoLesson
  <2> HIDE DEF new
  <2>3. \A r \in Statements : lessons'[r] = IF r = t THEN new ELSE lessons[r]
    BY <1>a, <1>3 DEF new
  <2>4. QED
    BY <1>3, <2>1, <2>2, <2>3
<1>4. QED
  BY <1>1, <1>2, <1>3, SerialLessons

LEMMA DoneStep ==
  ASSUME OneCaller, TInv, TInv', Ids, SerialInv, [Next]_vars
  PROVE  SupersessionIsDone'
<1>a. /\ lessons' \in [Statements -> Lesson \cup {None}]
      /\ evidence \subseteq evidence'
      /\ lessons \in [Statements -> Lesson \cup {None}]
  BY EvidenceGrows DEF TInv, TypeOK
<1> DEFINE Out(t) == \/ lessons[t] # None /\ ~isActiveLesson(lessons[t].status)
                     \/ \E e \in evidence : e.statement = t /\ ~e.learnable
<1>1. ASSUME NEW s \in Statements, NEW t \in Statements,
             lessons'[s] # None, lessons'[s].supersedes = t
      PROVE  Out(t)'
  <2>1. t # None
    BY NoneAssumption
  <2>2. CASE lessons[s] # None /\ t = lessons[s].supersedes
    <3>1. Out(t)
      BY <2>1, <2>2 DEF SerialInv, SupersessionIsDone, EvidenceOf
    <3>2. QED
      BY <1>a, <3>1, OutStays DEF EvidenceOf
  <2>3. ASSUME NEW c \in Callers, call[c].pc = "merge", call[c].evidence.statement = s,
               t = call[c].superseded,
               \A r \in Statements \ {s} : lessons'[r] = lessons[r]
        PROVE  Out(t)'
    <3>1. t # s /\ lessons[t] # None /\ lessons[t].status = "superseded"
      BY <2>1, <2>3 DEF SerialInv, Alone
    <3>2. QED
      BY <2>3, <3>1 DEF isActiveLesson
  <2>4. QED
    BY <1>1, <2>1, <2>2, <2>3, LinkSteps
<1>2. \A s \in Statements : lessons'[s] # None /\ lessons'[s].supersedes # None =>
        lessons'[s].supersedes \in Statements
  BY <1>a DEF Lesson
<1>3. \A s \in Statements : lessons'[s] # None /\ lessons'[s].supersedes # None =>
        \/ /\ lessons'[lessons'[s].supersedes] # None
           /\ ~isActiveLesson(lessons'[lessons'[s].supersedes].status)
        \/ \E e \in evidence' : e.statement = lessons'[s].supersedes /\ ~e.learnable
  BY <1>1, <1>2
<1>4. QED
  BY <1>3 DEF SupersessionIsDone, EvidenceOf, isActiveLesson

LEMMA SerialInit == Init => SerialInv
BY DEF Init, SerialInv, Alone, Idle, Links, SupersessionIsDone

LEMMA SerialStep ==
  ASSUME OneCaller, TInv, Ids, SerialInv, [Next]_vars
  PROVE  SerialInv'
BY TypeStep, AloneStep, LinksStep, DoneStep DEF SerialInv

LEMMA SerialInductive ==
  ASSUME OneCaller
  PROVE  Spec => [](TInv /\ Ids /\ SerialInv)
<1>1. Init => TInv /\ Ids /\ SerialInv
  BY TypeInit, IdsInit, SerialInit
<1>2. TInv /\ Ids /\ SerialInv /\ [Next]_vars => (TInv /\ Ids /\ SerialInv)'
  BY TypeStep, OneIsApart, IdsStep, SerialStep
<1>3. QED
  BY <1>1, <1>2, PTL DEF Spec

\* With one ingest at a time, a lesson that says it supersedes another one is
\* right, through failures and crashes at any store call.
THEOREM SupersedesOut ==
  ASSUME OneCaller
  PROVE  Spec => []SupersessionIsDone
<1>1. SerialInv => SupersessionIsDone
  BY DEF SerialInv
<1>2. QED
  BY <1>1, SerialInductive, PTL

\* With one ingest at a time, no write brings a superseded lesson back.
THEOREM StaysOut ==
  ASSUME OneCaller
  PROVE  Spec => SupersededStaysOut
<1>1. TInv /\ Ids /\ SerialInv /\ [Next]_vars =>
        [\A s \in Statements :
           lessons[s] # None /\ lessons[s].status = "superseded" =>
             ~isActiveLesson(lessons'[s].status)]_vars
  BY OutStays
<1>2. QED
  BY <1>1, SerialInductive, PTL DEF Spec, SupersededStaysOut
-----------------------------------------------------------------------------
(* Nothing is left out. *)

\* What an ingest has stored and not yet merged.
OnTheWay(k) == IF k.pc \in Aggregating THEN {k.evidence} ELSE {}

LEMMA SettledByOne ==
  ASSUME OneCaller, NEW c \in Callers, NEW s \in Statements
  PROVE  /\ Settled(s) = EvidenceOf(s) \ OnTheWay(call[c])
         /\ Settled(s)' = EvidenceOf(s)' \ OnTheWay(call[c])'
<1>1. \A d \in Callers : d = c
  BY DEF OneCaller
<1>2. QED
  BY <1>1 DEF Settled, OnTheWay

\* A step that does not fail stores evidence and is on its way with it, or
\* merges what it was on its way with, or changes neither.
LEMMA WaySteps ==
  ASSUME OneCaller, Aggregates, TInv, Ids, SerialInv, NEW c \in Callers, Ingest(c),
         ~IngestFails(c)
  PROVE  \/ /\ evidence' = evidence /\ OnTheWay(call[c])' = OnTheWay(call[c])
            /\ \A s \in Statements : CountOf(lessons[s])' = CountOf(lessons[s])
         \/ /\ call[c].evidence \notin evidence
            /\ evidence' = evidence \cup {call[c].evidence}
            /\ OnTheWay(call[c]) = {} /\ OnTheWay(call[c])' = {call[c].evidence}
            /\ lessons' = lessons
         \/ /\ evidence' = evidence
            /\ call[c].evidence \in evidence /\ call[c].evidence.statement \in Statements
            /\ OnTheWay(call[c]) = {call[c].evidence} /\ OnTheWay(call[c])' = {}
            /\ \A s \in Statements :
                 CountOf(lessons[s])' = IF s = call[c].evidence.statement
                                        THEN CountOf(lessons[s]) + 1 ELSE CountOf(lessons[s])
<1> DEFINE Same == /\ evidence' = evidence /\ OnTheWay(call[c])' = OnTheWay(call[c])
                   /\ \A s \in Statements : CountOf(lessons[s])' = CountOf(lessons[s])
<1>a. /\ call \in [Callers -> Call] /\ Shape(call[c])
      /\ lessons \in [Statements -> Lesson \cup {None}]
  BY DEF TInv, TypeOK
<1>b. ASSUME NEW k, GoOn(c, k) PROVE call'[c] = k
  BY <1>a, <1>b DEF GoOn
<1>1. ASSUME evidence' = evidence, lessons' = lessons,
             call[c].pc \notin Aggregating, call'[c].pc \notin Aggregating
      PROVE  Same
  BY <1>1 DEF OnTheWay
<1>2. ASSUME evidence' = evidence, lessons' = lessons, call'[c].evidence = call[c].evidence,
             call[c].pc \in Aggregating, call'[c].pc \in Aggregating
      PROVE  Same
  BY <1>2 DEF OnTheWay
<1>3. ASSUME NEW s \in Signals, Deliver(c, s) PROVE Same
  <2> DEFINE k == [Idle EXCEPT
                    !.pc = IF s.identity = None THEN "store" ELSE "check",
                    !.evidence = [id |-> deliveries + 1, statement |-> s.statement,
                                  identity |-> s.identity, kind |-> s.kind,
                                  learnable |-> s.learnable],
                    !.action = s.action, !.contradicts = s.contradicts]
  <2>1. /\ call'[c] = k /\ call[c] = Idle
        /\ evidence' = evidence /\ lessons' = lessons
    BY <1>3, <1>b DEF Deliver
  <2>2. k.pc \in {"check", "store"} /\ Idle.pc = "idle"
    BY DEF Idle
  <2> HIDE DEF k
  <2>3. QED
    BY <1>1, <2>1, <2>2 DEF Aggregating
<1>4. ASSUME Duplicate(c) \/ Fresh(c) PROVE Same
  <2>1. /\ call[c].pc = "check" /\ evidence' = evidence /\ lessons' = lessons
        /\ call'[c] = Idle \/ call'[c] = [call[c] EXCEPT !.pc = "store"]
    BY <1>4, <1>b DEF Duplicate, Fresh
  <2>2. call'[c].pc \in {"idle", "store"}
    BY <1>a, <2>1 DEF Idle, Call
  <2>3. QED
    BY <1>1, <2>1, <2>2 DEF Aggregating
<1>5. ASSUME StoreEvidence(c)
      PROVE  /\ call[c].evidence \notin evidence
             /\ evidence' = evidence \cup {call[c].evidence}
             /\ OnTheWay(call[c]) = {} /\ OnTheWay(call[c])' = {call[c].evidence}
             /\ lessons' = lessons
  <2>1. /\ call[c].pc = "store" /\ evidence' = Stored(call[c].evidence) /\ lessons' = lessons
        /\ call'[c] = [call[c] EXCEPT !.pc = "read"]
    BY <1>5, <1>b DEF StoreEvidence
  <2>2. call[c].evidence \notin evidence /\ ~Known(call[c].evidence)
    BY <2>1 DEF Ids, EvidenceOnce
  <2>3. evidence' = evidence \cup {call[c].evidence}
    BY <2>1, <2>2 DEF Stored, Known, SharesIdentity
  <2>4. call'[c].pc = "read" /\ call'[c].evidence = call[c].evidence
    BY <1>a, <2>1 DEF Call
  <2>5. QED
    BY <2>1, <2>2, <2>3, <2>4 DEF OnTheWay, Aggregating
<1>6. ASSUME ReadLesson(c) PROVE Same
  <2> DEFINE k == [call[c] EXCEPT
                    !.pc = IF call[c].contradicts = None THEN "merge" ELSE "find",
                    !.previous = lessons[call[c].evidence.statement]]
  <2>1. call'[c] = k /\ call[c].pc = "read" /\ evidence' = evidence /\ lessons' = lessons
    BY <1>6, <1>b DEF ReadLesson
  <2>2. k.pc \in {"merge", "find"} /\ k.evidence = call[c].evidence
    BY <1>a DEF Call
  <2> HIDE DEF k
  <2>3. QED
    BY <1>2, <2>1, <2>2 DEF Aggregating
<1>7. ASSUME FindContradicted(c) PROVE Same
  <2> DEFINE found == [call[c] EXCEPT !.pc = "supersede", !.old = lessons[call[c].contradicts]]
             none == [call[c] EXCEPT !.pc = "merge"]
  <2>1. /\ call'[c] = found \/ call'[c] = none
        /\ call[c].pc = "find" /\ evidence' = evidence /\ lessons' = lessons
    BY <1>7, <1>b DEF FindContradicted
  <2>2. /\ found.pc = "supersede" /\ found.evidence = call[c].evidence
        /\ none.pc = "merge" /\ none.evidence = call[c].evidence
    BY <1>a DEF Call
  <2> HIDE DEF found, none
  <2>3. QED
    BY <1>2, <2>1, <2>2 DEF Aggregating
<1>8. ASSUME Supersede(c) PROVE Same
  <2> DEFINE k == [call[c] EXCEPT !.pc = "merge", !.superseded = call[c].contradicts]
             new == [call[c].old EXCEPT !.status = "superseded"]
  <2>1. /\ call'[c] = k /\ call[c].pc = "supersede" /\ evidence' = evidence
        /\ lessons' = [lessons EXCEPT ![call[c].contradicts] = new]
    BY <1>8, <1>b DEF Supersede, Superseding
  <2>2. k.pc = "merge" /\ k.evidence = call[c].evidence
    BY <1>a DEF Call
  <2>3. OnTheWay(call[c])' = OnTheWay(call[c])
    <3> HIDE DEF k
    <3>1. QED
      BY <2>1, <2>2 DEF OnTheWay, Aggregating
  <2>4. call[c].old \in Lesson /\ call[c].old = lessons[call[c].contradicts]
    BY <1>a, <2>1 DEF Shape, Idle, SerialInv, Alone
  <2>5. new # None /\ call[c].old # None /\ new.occurrenceCount = call[c].old.occurrenceCount
    BY <2>4, NoneAssumption DEF Lesson, LessonStatus
  <2> HIDE DEF new
  <2>6. \A s \in Statements : lessons'[s] = IF s = call[c].contradicts THEN new ELSE lessons[s]
    BY <1>a, <2>1
  <2>7. QED
    BY <2>1, <2>3, <2>4, <2>5, <2>6 DEF CountOf
<1>9. ASSUME Merge(c)
      PROVE  /\ evidence' = evidence
             /\ call[c].evidence \in evidence /\ call[c].evidence.statement \in Statements
             /\ OnTheWay(call[c]) = {call[c].evidence} /\ OnTheWay(call[c])' = {}
             /\ \A s \in Statements :
                  CountOf(lessons[s])' = IF s = call[c].evidence.statement
                                         THEN CountOf(lessons[s]) + 1 ELSE CountOf(lessons[s])
  <2> DEFINE k == call[c]
             u == k.evidence.statement
             new == mergeLesson(k.previous, k.evidence, k.action, k.superseded)
  <2>1. /\ call'[c] = Idle /\ k.pc = "merge" /\ evidence' = evidence
        /\ lessons' = [lessons EXCEPT ![u] = new]
    BY <1>9, <1>b DEF Merge, Merging
  <2>2. k \in Call /\ k.evidence \in Evidence /\ u \in Statements
    BY <2>1, HasEvidence
  <2>3. /\ k.previous \in Lesson \cup {None}
        /\ k.action \in SuggestedAction \cup {None}
        /\ k.superseded \in Statements \cup {None}
    BY <2>2 DEF Call
  <2>4. k.previous = lessons[u]
    BY <2>1 DEF SerialInv, Alone
  <2>5. new # None /\ new.occurrenceCount = CountOf(lessons[u]) + 1
    <3>1. new # None /\ new.occurrenceCount = OrElse(k.previous, NoLesson(k.evidence)).occurrenceCount + 1
      BY <2>2, <2>3, MergedLesson
    <3>2. OrElse(k.previous, NoLesson(k.evidence)).occurrenceCount = CountOf(k.previous)
      BY DEF OrElse, NoLesson, CountOf
    <3>3. QED
      BY <2>4, <3>1, <3>2
  <2>6. k.evidence \in evidence
    BY <2>1 DEF Ids, EvidenceOnce, Aggregating
  <2>7. OnTheWay(call[c]) = {k.evidence} /\ OnTheWay(call[c])' = {}
    BY <2>1 DEF OnTheWay, Aggregating, Idle
  <2> HIDE DEF new
  <2>8. \A s \in Statements : lessons'[s] = IF s = u THEN new ELSE lessons[s]
    BY <1>a, <2>1
  <2>9. QED
    BY <2>1, <2>2, <2>5, <2>6, <2>7, <2>8 DEF CountOf
<1>10. QED
  BY <1>3, <1>4, <1>5, <1>6, <1>7, <1>8, <1>9 DEF Ingest

LEMMA CountedStep ==
  ASSUME OneCaller, Aggregates, TInv, Ids, SerialInv, AllCounted, [Next]_vars
  PROVE  AllCounted'
<1> SUFFICES ASSUME faults' = 0, NEW s \in Statements
             PROVE  Cardinality(Settled(s)') = CountOf(lessons[s])'
  BY DEF AllCounted
<1>1. faults = 0 /\ ~Crash /\ \A c \in Callers : ~IngestFails(c)
  <2>1. faults \in Nat
    BY ConstantsAssumption DEF TInv, TypeOK
  <2>2. faults' = faults \/ faults' = faults + 1
    BY DEF Next, vars, Ingest, Deliver, Duplicate, Fresh, StoreEvidence, ReadLesson,
       FindContradicted, Supersede, Merge, IngestFails, Crash
  <2>3. ASSUME Crash \/ \E c \in Callers : IngestFails(c) PROVE faults' = faults + 1
    BY <2>3 DEF Crash, IngestFails
  <2>4. QED
    BY <2>1, <2>2, <2>3
<1>2. Cardinality(Settled(s)) = CountOf(lessons[s])
  BY <1>1 DEF AllCounted
<1>3. IsFiniteSet(Settled(s))
  <2>1. Settled(s) \in SUBSET evidence
    BY DEF Settled, EvidenceOf
  <2>2. QED
    BY <2>1, FS_Subset DEF Ids
<1>4. CASE UNCHANGED vars
  BY <1>2, <1>4 DEF vars, Settled, EvidenceOf, CountOf
<1>5. ASSUME NEW c \in Callers, Ingest(c)
      PROVE  Cardinality(Settled(s)') = CountOf(lessons[s])'
  <2> DEFINE e == call[c].evidence
  <2>1. /\ Settled(s) = EvidenceOf(s) \ OnTheWay(call[c])
        /\ Settled(s)' = EvidenceOf(s)' \ OnTheWay(call[c])'
    BY SettledByOne
  <2>2. ASSUME Settled(s)' = Settled(s), CountOf(lessons[s])' = CountOf(lessons[s])
        PROVE  Cardinality(Settled(s)') = CountOf(lessons[s])'
    BY <1>2, <2>2
  <2>3. CASE /\ evidence' = evidence /\ OnTheWay(call[c])' = OnTheWay(call[c])
             /\ CountOf(lessons[s])' = CountOf(lessons[s])
    BY <2>1, <2>2, <2>3 DEF EvidenceOf
  <2>4. CASE /\ e \notin evidence /\ evidence' = evidence \cup {e}
             /\ OnTheWay(call[c]) = {} /\ OnTheWay(call[c])' = {e}
             /\ lessons' = lessons
    <3>1. Settled(s)' = Settled(s)
      BY <2>1, <2>4 DEF EvidenceOf
    <3>2. QED
      BY <2>2, <2>4, <3>1 DEF CountOf
  <2>5. CASE /\ evidence' = evidence /\ e \in evidence
             /\ OnTheWay(call[c]) = {e} /\ OnTheWay(call[c])' = {}
             /\ CountOf(lessons[s])' = IF s = e.statement
                                       THEN CountOf(lessons[s]) + 1 ELSE CountOf(lessons[s])
    <3>1. CASE s = e.statement
      <4>1. Settled(s)' = Settled(s) \cup {e} /\ e \notin Settled(s)
        BY <2>1, <2>5, <3>1 DEF EvidenceOf
      <4>2. Cardinality(Settled(s) \cup {e}) = Cardinality(Settled(s)) + 1
        BY <1>3, <4>1, FS_AddElement
      <4>3. QED
        BY <1>2, <2>5, <3>1, <4>1, <4>2
    <3>2. CASE s # e.statement
      <4>1. Settled(s)' = Settled(s)
        BY <2>1, <2>5, <3>2 DEF EvidenceOf
      <4>2. QED
        BY <2>2, <2>5, <3>2, <4>1
    <3>3. QED
      BY <3>1, <3>2
  <2>6. QED
    BY <1>1, <1>5, <2>3, <2>4, <2>5, WaySteps
<1>6. QED
  BY <1>1, <1>4, <1>5 DEF Next

\* Where evidence is aggregated, and as long as nothing failed: whenever no
\* ingest is in flight, each lesson counts exactly the evidence stored for it,
\* whatever window of it the lesson retains and however often it was superseded.
THEOREM NothingUncounted ==
  ASSUME OneCaller, Aggregates
  PROVE  Spec => []NothingIsUncounted
<1>1. Init => AllCounted
  <2>1. ASSUME Init, NEW s \in Statements PROVE Settled(s) = {} /\ CountOf(lessons[s]) = 0
    BY <2>1 DEF Init, Settled, EvidenceOf, CountOf
  <2>2. QED
    BY <2>1, FS_EmptySet DEF AllCounted
<1>2. TInv /\ Ids /\ SerialInv /\ AllCounted /\ [Next]_vars => AllCounted'
  BY CountedStep
<1>3. AllCounted => NothingIsUncounted
  <2>1. ASSUME NEW s \in Statements, \A c \in Callers : call[c] = Idle
        PROVE  Settled(s) = EvidenceOf(s)
    BY <2>1 DEF Settled, Idle, Aggregating
  <2>2. QED
    BY <2>1 DEF AllCounted, NothingIsUncounted, CountOf
<1>4. QED
  BY <1>1, <1>2, <1>3, SerialInductive, PTL DEF Spec
=============================================================================
