--------------------------- MODULE EvolutionProofs ---------------------------
(***************************************************************************)
(* Theorems about Evolution, for any options, contexts and payloads, any   *)
(* number of overlapping tool calls and extractions, of hooks and of       *)
(* failures.                                                               *)
(*                                                                         *)
(* What its ingests do is proved in LearningProofs, of which this module   *)
(* takes an instance: every step of Evolution is a step of Learning or     *)
(* leaves its variables alone (LearningSteps), and as long as the sources  *)
(* keep ingests of one identity apart, so does Evolution (ApartStep).      *)
(* What may be published unseen is proved in AssemblyProofs.               *)
(***************************************************************************)
EXTENDS Evolution, AssemblyProofs, FiniteSetTheorems, SequenceTheorems

LP == INSTANCE LearningProofs WITH Signals <- L!Signal

-----------------------------------------------------------------------------
(* The two instances of Learning say the same. *)

LEMMA SameData ==
  /\ L!Signal = LP!Signal
  /\ L!Evidence = LP!Evidence
  /\ L!Lesson = LP!Lesson
  /\ L!Call = LP!Call
  /\ L!Idle = LP!Idle
  /\ L!Threshold = LP!Threshold
  /\ \A s : L!EvidenceOf(s) = LP!EvidenceOf(s)
BY DEF L!Signal, LP!Signal, L!Evidence, LP!Evidence, L!Lesson, LP!Lesson, L!Call, LP!Call,
     L!Idle, LP!Idle, L!Threshold, LP!Threshold, L!EvidenceOf, LP!EvidenceOf,
     L!EvidenceKind, LP!EvidenceKind, L!SuggestedAction, LP!SuggestedAction,
     L!LessonKind, LP!LessonKind, L!LessonStatus, LP!LessonStatus

LEMMA SameSteps ==
  ASSUME NEW c, NEW s
  PROVE  /\ L!Deliver(c, s) <=> LP!Deliver(c, s)
         /\ L!Duplicate(c) <=> LP!Duplicate(c)
         /\ L!Fresh(c) <=> LP!Fresh(c)
         /\ L!StoreEvidence(c) <=> LP!StoreEvidence(c)
         /\ L!ReadLesson(c) <=> LP!ReadLesson(c)
         /\ L!FindContradicted(c) <=> LP!FindContradicted(c)
         /\ L!Supersede(c) <=> LP!Supersede(c)
         /\ L!Merge(c) <=> LP!Merge(c)
         /\ L!IngestFails(c) <=> LP!IngestFails(c)
BY DEF L!Deliver, LP!Deliver, L!Duplicate, LP!Duplicate, L!Fresh, LP!Fresh,
     L!StoreEvidence, LP!StoreEvidence, L!ReadLesson, LP!ReadLesson,
     L!FindContradicted, LP!FindContradicted, L!Supersede, LP!Supersede,
     L!Merge, LP!Merge, L!IngestFails, LP!IngestFails, L!MaybeWritten, LP!MaybeWritten,
     L!GoOn, LP!GoOn, L!Idle, LP!Idle, L!Known, LP!Known, L!SharesIdentity, LP!SharesIdentity,
     L!Stored, LP!Stored, L!isActiveLesson, LP!isActiveLesson,
     L!Superseding, LP!Superseding, L!Merging, LP!Merging,
     L!mergeLesson, LP!mergeLesson, L!OrElse, LP!OrElse, L!NoLesson, LP!NoLesson,
     L!Window, LP!Window, L!nextLessonStatus, LP!nextLessonStatus,
     L!Threshold, LP!Threshold, L!lessonKindFromEvidence, LP!lessonKindFromEvidence

LEMMA SameInit == L!Init <=> LP!Init
BY SameData DEF L!Init, LP!Init

LEMMA SameTypes == L!TypeOK <=> LP!TypeOK
BY SameData DEF L!TypeOK, LP!TypeOK

LEMMA SameCardinality ==
  \A S : /\ Cardinality(S) = LP!Cardinality(S) /\ Cardinality(S) = L!Cardinality(S)
         /\ IsFiniteSet(S) <=> LP!IsFiniteSet(S)
BY DEF Cardinality, L!Cardinality, LP!Cardinality, IsFiniteSet, LP!IsFiniteSet

LEMMA SameCounts == L!CountsStoredEvidence <=> LP!CountsStoredEvidence
BY SameData, SameCardinality DEF L!CountsStoredEvidence, LP!CountsStoredEvidence

LEMMA LearningAssumptions == LP!ConstantsAssumption /\ LP!NoneAssumption
BY SameData, LearningAssumption DEF LP!ConstantsAssumption, LP!NoneAssumption

-----------------------------------------------------------------------------
(* The inductive invariant. *)

\* The loop of an evolution has a runtime to promote with, and only it promotes.
AssembledInv ==
  /\ evolution \in Evolution
  /\ evolution.loop => evolution.improvement # None
  /\ \A c \in Callers : run[c].promoting # None => evolution.loop

\* Only the first hook may be the application's.
ApplicationFirst(todo) ==
  /\ todo \in Seq(Hook)
  /\ \A n \in DOMAIN todo : todo[n] = "application" => n = 1

HooksInv ==
  /\ attached \in 0..MaxAttached
  /\ ApplicationFirst(hooks)
  /\ Len(hooks) <= attached + 1

\* An ingest works on the signal of its caller's hooks.
Carries(k, signal) ==
  /\ k.evidence.statement = signal.statement
  /\ k.evidence.identity = signal.identity
  /\ k.evidence.kind = signal.kind
  /\ k.action = signal.action

\* A caller that runs hooks has hooks left and a signal; an ingest, and the
\* promotion after it, belong to the hook that it is at.
Runs(r, k) ==
  /\ r \in Run
  /\ ApplicationFirst(r.todo)
  /\ r = NotRunning \/ (r.todo # <<>> /\ r.signal # None)
  /\ k # L!Idle \/ r.promoting # None =>
       r.todo # <<>> /\ Head(r.todo) \in {"evolution", "extractor"}
  /\ k # L!Idle => r.promoting = None /\ Carries(k, r.signal)
  /\ r.names # {} => r.signal.identity \in r.names

RunsInv ==
  /\ run \in [Callers -> Run]
  /\ \A c \in Callers : Runs(run[c], call[c])

HistoryInv ==
  /\ asked \subseteq Statements
  /\ published \subseteq [statement : Statements, structural : BOOLEAN]
  /\ handled \subseteq SUBSET Identities
  /\ apart \in BOOLEAN

TInv == LP!TInv /\ AssembledInv /\ HooksInv /\ RunsInv /\ HistoryInv

\* What Learning's count needs holds as long as ingests have been apart.
CountsInv == apart => LP!Apart /\ LP!Ids /\ LP!Counts

\* A lesson, or a copy of one, that a skill is drafted from once accepted.
Drafts(lesson) ==
  lesson # None /\ (lesson.kind = "procedure" \/ lesson.action \in SkillActions)

DraftAsked(lesson, s) == Drafts(lesson) => s \in asked

CopiesAsked(k) ==
  /\ k.pc \in {"find", "supersede", "merge"} => DraftAsked(k.previous, k.evidence.statement)
  /\ k.pc = "supersede" => DraftAsked(k.old, k.contradicts)

\* Whatever makes a lesson one to draft a skill from came from an extractor.
AskedInv ==
  /\ \A c \in Callers :
       /\ run[c].signal # None /\ AsksForSkill(run[c].signal) => run[c].signal.statement \in asked
       /\ CopiesAsked(call[c])
  /\ \A s \in Statements : DraftAsked(lessons[s], s)

Earned(s) == (apart => Cardinality(L!EvidenceOf(s)) >= L!Threshold) /\ s \in asked

\* What is being promoted has been earned, as has what is published.
EarnedInv ==
  /\ \A c \in Callers : run[c].promoting # None => Earned(run[c].promoting)
  /\ PublishedIsEarned

StoredIdentity(i) == \E e \in evidence : e.identity = i

\* An ingest that aggregates, and the promotion after it, have stored the
\* evidence of their signal, or another source has replaced it by its own.
KeptInv ==
  \A c \in Callers :
    /\ call[c].pc \in LP!Aggregating \/ run[c].promoting # None
    /\ run[c].signal.identity # None
    => StoredIdentity(run[c].signal.identity)

FailuresInv == KeptInv /\ FailuresAreStored

IInv == TInv /\ CountsInv /\ AskedInv /\ EarnedInv /\ FailuresInv

-----------------------------------------------------------------------------
(* Hooks, signals and what is put together. *)

\* Attaching or merging puts evolution's hook last.
LEMMA ComposedHooks ==
  ASSUME NEW caller, ApplicationFirst(caller)
  PROVE  /\ ApplicationFirst(Composed(caller))
         /\ Len(Composed(caller)) = Len(caller) + 1
         /\ Composed(caller) # <<>>
<1> DEFINE added == <<"evolution">>
<1>1. caller \in Seq(Hook) /\ added \in Seq(Hook) /\ Len(added) = 1 /\ Len(caller) \in Nat
  BY DEF ApplicationFirst, Hook
<1>2. /\ Composed(caller) \in Seq(Hook)
      /\ Len(Composed(caller)) = Len(caller) + Len(added)
      /\ \A n \in 1..(Len(caller) + Len(added)) :
           Composed(caller)[n] = IF n <= Len(caller) THEN caller[n] ELSE added[n - Len(caller)]
  BY <1>1, ConcatProperties DEF Composed
<1>3. ASSUME NEW n \in DOMAIN Composed(caller), Composed(caller)[n] = "application"
      PROVE  n = 1
  <2>1. n \in 1..(Len(caller) + 1)
    BY <1>1, <1>2, <1>3
  <2>2. CASE n <= Len(caller)
    <3>1. n \in DOMAIN caller /\ caller[n] = "application"
      BY <1>1, <1>2, <1>3, <2>1, <2>2
    <3>2. QED
      BY <3>1 DEF ApplicationFirst
  <2>3. CASE ~(n <= Len(caller))
    BY <1>1, <1>2, <1>3, <2>1, <2>3
  <2>4. QED
    BY <2>2, <2>3
<1>4. Composed(caller) # <<>>
  BY <1>1, <1>2
<1>5. QED
  BY <1>1, <1>2, <1>3, <1>4 DEF ApplicationFirst

\* The hooks that are left have none of the application's.
LEMMA RestHooks ==
  ASSUME NEW todo, ApplicationFirst(todo), todo # <<>>
  PROVE  ApplicationFirst(Tail(todo))
<1>1. todo \in Seq(Hook) /\ Len(todo) \in Nat /\ Len(todo) # 0
  BY DEF ApplicationFirst
<1>2. /\ Tail(todo) \in Seq(Hook)
      /\ Len(Tail(todo)) = Len(todo) - 1
      /\ \A n \in 1..Len(Tail(todo)) : Tail(todo)[n] = todo[n + 1]
  BY <1>1, HeadTailProperties
<1>3. ASSUME NEW n \in DOMAIN Tail(todo) PROVE Tail(todo)[n] # "application"
  <2>1. n \in 1..Len(Tail(todo)) /\ n + 1 \in DOMAIN todo /\ n + 1 # 1
    BY <1>1, <1>2
  <2>2. QED
    BY <1>2, <2>1 DEF ApplicationFirst
<1>4. QED
  BY <1>2, <1>3 DEF ApplicationFirst

\* At one of evolution's hooks, none of the application's is left.
LEMMA PastApplication ==
  ASSUME NEW todo, ApplicationFirst(todo), todo # <<>>, Head(todo) \in {"evolution", "extractor"}
  PROVE  \A n \in DOMAIN todo : todo[n] # "application"
BY DEF ApplicationFirst

LEMMA NoHooks == ApplicationFirst(<<>>) /\ ApplicationFirst(<<"application">>)
                 /\ ApplicationFirst(<<"extractor">>)
BY DEF ApplicationFirst, Hook

\* What the adapters read of a tool call is a signal, and never asks for a skill.
LEMMA ToolSignals ==
  ASSUME NEW context \in Contexts
  PROVE  ToolSignal(context) \in L!Signal /\ ~AsksForSkill(ToolSignal(context))
<1>1. context \in Context
  BY EvolutionAssumption
<1>2. sourceIdentity(context) \in Identities \cup {None}
  BY DEF sourceIdentity, OrElse, Usable
<1>3. ToolSignal(context) \in L!Signal
  BY <1>1, <1>2 DEF Context, ToolSignal, L!Signal, L!EvidenceKind
<1>4. None \notin SkillActions
  BY LearningAssumption DEF SkillActions, L!SuggestedAction
<1>5. QED
  BY <1>3, <1>4 DEF ToolSignal, AsksForSkill

\* The identity that is read is one that the call carries, if it carries any.
LEMMA NamedSignals ==
  ASSUME NEW context \in Contexts
  PROVE  /\ NamesOf(context) \in SUBSET Identities
         /\ NamesOf(context) # {} => ToolSignal(context).identity \in NamesOf(context)
<1> DEFINE source == MergedField(context, "sourceIdentity")
           tool   == MergedField(context, "toolCallId")
<1>1. None \notin Identities
  BY LearningAssumption
<1>2. \A i \in Identities : i \in NamesOf(context) <=> i = source \/ i = tool
  BY <1>1 DEF NamesOf, MergedField
<1>3. NamesOf(context) \in SUBSET Identities
  BY DEF NamesOf
<1>4. ToolSignal(context).identity = OrElse(Usable(source), Usable(tool))
  BY DEF ToolSignal, sourceIdentity
<1>5. QED
  BY <1>1, <1>2, <1>3, <1>4 DEF OrElse, Usable

LEMMA ParsedSignals ==
  ASSUME NEW payload \in Payloads, Parsed(payload) # None
  PROVE  Parsed(payload) \in L!Signal
<1>1. payload \in Payload
  BY EvolutionAssumption
<1>2. Usable(payload.sourceIdentity) \in Identities \cup {None}
  BY DEF Usable
<1>3. payload.kind \in L!EvidenceKind
  BY DEF Parsed, LearningSignalKinds, L!EvidenceKind
<1>4. payload.statement \in Statements /\ payload.learnable \in BOOLEAN
      /\ payload.contradicts \in Statements \cup {None}
  BY <1>1 DEF Payload
<1>5. QED
  BY <1>2, <1>3, <1>4 DEF Parsed, L!Signal

\* createMastraEvolution puts together an Evolution.
LEMMA Assembled ==
  ASSUME NEW o \in Options
  PROVE  LET e == createMastraEvolution(o)
         IN e \in Evolution /\ (e.loop => e.improvement # None)
<1> DEFINE store == resolveStore(o)
           improvement == materializeImprovement(o, store)
<1>1. o \in Option
  BY EvolutionAssumption
<1>2. /\ o.learning.autonomy \in AutonomyLevels \cup {None}
      /\ o.improvement.autonomy \in AutonomyLevels \cup {None}
      /\ o.improvement.config \in Config
      /\ o.improvement.runtime \in ImprovementRuntime \cup {None}
      /\ o.workspace \in Workspace \cup {None}
      /\ o.store \in {"local", "postgres", None}
  BY <1>1 DEF Option, LearningOption, ImprovementOption
<1>3. materializeLearning(o) \in LearningRuntime \cup {None}
  BY <1>2 DEF materializeLearning, LearningRuntime, OrElse, LEARN_AUTONOMY, AutonomyLevels
<1>4. improvement \in ImprovementRuntime \cup {None}
  <2>1. CASE o.improvement.form = "runtime"
    BY <1>2, <2>1 DEF materializeImprovement, willConstructImprovement
  <2>2. CASE o.improvement.form # "runtime" /\ willConstructImprovement(o.improvement)
    <3>1. OrElse(o.improvement.autonomy, ENTERPRISE_SKILL_AUTONOMY) \in AutonomyLevels
      BY <1>2 DEF OrElse, ENTERPRISE_SKILL_AUTONOMY, AutonomyLevels
    <3>2. store \in {"local", "postgres", "workspace"}
      BY <1>2, <2>2 DEF resolveStore
    <3>3. resolvePublisherDirectory(o.workspace, store) \in Directories \cup {None}
      BY <3>2 DEF resolvePublisherDirectory, Directories
    <3>4. QED
      BY <1>2, <2>2, <3>1, <3>3, ConstructedIsRuntime DEF materializeImprovement
  <2>3. CASE o.improvement.form # "runtime" /\ ~willConstructImprovement(o.improvement)
    BY <2>3 DEF materializeImprovement
  <2>4. QED
    BY <2>1, <2>2, <2>3
<1>5. (o.workspace # None /\ o.workspace.setter) \in BOOLEAN
      /\ (o.workspace # None /\ o.workspace.getter) \in BOOLEAN
  BY <1>2 DEF Workspace
<1>6. QED
  BY <1>3, <1>4, <1>5 DEF createMastraEvolution, Evolution, shouldAutoPromote

-----------------------------------------------------------------------------
(* Steps. *)

\* A step of a caller that runs Learning is one of Learning's, or counts as a
\* failure there.
Quiet == /\ UNCHANGED <<evidence, lessons, call, deliveries>>
         /\ faults' \in 0..MaxFaults

LEMMA LearningSteps ==
  ASSUME TInv, [Next]_vars
  PROVE  [LP!Next]_(LP!vars) \/ Quiet
<1>1. ASSUME NEW c \in Callers, Step(c) PROVE [LP!Next]_(LP!vars)
  <2>1. ASSUME \/ ToolCall(c) \/ Extracted(c) \/ ApplicationReturns(c) \/ ApplicationThrows(c)
               \/ NothingToIngest(c) \/ Promoted(c)
        PROVE  UNCHANGED LP!vars
    BY <2>1 DEF ToolCall, Extracted, ApplicationReturns, ApplicationThrows, NothingToIngest,
         Promoted, learning, LP!vars
  <2>2. ASSUME IngestBegins(c) PROVE LP!Next
    <3>1. run[c].todo # <<>>
      BY <2>2 DEF IngestBegins, AtHook
    <3>2. run[c] \in Run /\ (run[c] = NotRunning \/ (run[c].todo # <<>> /\ run[c].signal # None))
      BY DEF TInv, RunsInv, Runs
    <3>3. run[c].signal \in L!Signal
      BY <3>1, <3>2 DEF Run, NotRunning
    <3>4. LP!Deliver(c, run[c].signal)
      BY <2>2, SameSteps DEF IngestBegins
    <3>5. QED
      BY <3>3, <3>4 DEF LP!Next, LP!Ingest
  <2>3. ASSUME IngestGoesOn(c) \/ IngestReturnsNoLesson(c) \/ IngestThrows(c)
               \/ IngestReturnsLesson(c)
        PROVE  LP!Next
    <3>1. \/ LP!Duplicate(c) \/ LP!Fresh(c) \/ LP!StoreEvidence(c) \/ LP!ReadLesson(c)
          \/ LP!FindContradicted(c) \/ LP!Supersede(c) \/ LP!Merge(c) \/ LP!IngestFails(c)
      BY <2>3, SameSteps DEF IngestGoesOn, IngestReturnsNoLesson, IngestThrows, IngestReturnsLesson
    <3>2. QED
      BY <3>1 DEF LP!Next, LP!Ingest
  <2>4. QED
    BY <1>1, <2>1, <2>2, <2>3 DEF Step
<1>2. CASE Crash
  <2>1. faults < MaxFaults /\ faults \in 0..MaxFaults /\ MaxFaults \in Nat
    BY <1>2, LearningAssumption DEF Crash, TInv, LP!TInv, LP!TypeOK
  <2>2. faults' \in 0..MaxFaults
    BY <1>2, <2>1 DEF Crash
  <2>3. call' = [c \in Callers |-> LP!Idle]
    BY <1>2, SameData DEF Crash
  <2>4. CASE \E c \in Callers : call[c] # LP!Idle
    BY <1>2, <2>3, <2>4 DEF Crash, LP!Crash, LP!Next
  <2>5. CASE \A c \in Callers : call[c] = LP!Idle
    <3>1. call \in [Callers -> LP!Call]
      BY DEF TInv, LP!TInv, LP!TypeOK
    <3>2. call' = call
      BY <2>3, <2>5, <3>1
    <3>3. QED
      BY <1>2, <2>2, <3>2 DEF Crash, Quiet
  <2>6. QED
    BY <2>4, <2>5
<1>3. CASE Attach \/ UNCHANGED vars
  BY <1>3 DEF Attach, vars, learning, LP!vars
<1>4. QED
  BY <1>1, <1>2, <1>3 DEF Next

LEMMA LearningStep == TInv /\ [Next]_vars => LP!TInv'
<1> SUFFICES ASSUME TInv, [Next]_vars PROVE LP!TInv'
  OBVIOUS
<1>1. LP!TInv
  BY DEF TInv
<1>2. CASE [LP!Next]_(LP!vars)
  BY <1>1, <1>2, LP!TypeStep, LearningAssumptions
<1>3. CASE Quiet
  BY <1>1, <1>3, LP!OnlyFaults, LearningAssumptions DEF Quiet
<1>4. QED
  BY <1>2, <1>3, LearningSteps

\* What a step does to its caller: its hooks begin, are over, or go on with the
\* next one; the hook's ingest begins or goes on, or returns a lesson to promote.
Begins(c) ==
  /\ run[c] = NotRunning
  /\ run'[c] \in Run /\ run'[c].promoting = None
  /\ ApplicationFirst(run'[c].todo) /\ run'[c].todo # <<>>
  /\ run'[c].signal # None
  /\ run'[c].names # {} => run'[c].signal.identity \in run'[c].names
  /\ AsksForSkill(run'[c].signal) => run'[c].signal.statement \in asked'
  /\ call'[c] = L!Idle

Over(c) == run'[c] = NotRunning /\ call'[c] = L!Idle

NextHook(c) ==
  /\ run[c].todo # <<>> /\ Tail(run[c].todo) # <<>>
  /\ run'[c] = [run[c] EXCEPT !.todo = Tail(run[c].todo), !.promoting = None]
  /\ call'[c] = L!Idle

Ingests(c) ==
  /\ run'[c] = run[c] /\ run[c].promoting = None
  /\ run[c].todo # <<>> /\ Head(run[c].todo) \in {"evolution", "extractor"}
  /\ Carries(call'[c], run[c].signal)
  /\ call'[c].evidence = call[c].evidence \/ IngestBegins(c)

Returns(c) ==
  /\ call[c] # L!Idle /\ call'[c] = L!Idle
  /\ run'[c] = [run[c] EXCEPT !.promoting = call[c].evidence.statement]

LEMMA RunTypes ==
  ASSUME TInv
  PROVE  /\ run \in [Callers -> Run]
         /\ call \in [Callers -> LP!Call]
         /\ \A c \in Callers : Runs(run[c], call[c])
BY DEF TInv, RunsInv, LP!TInv, LP!TypeOK

LEMMA OtherCallers ==
  ASSUME TInv, NEW c \in Callers, Step(c), NEW d \in Callers \ {c}
  PROVE  run'[d] = run[d] /\ call'[d] = call[d]
<1>1. ASSUME NEW next, GoOn(c, next) PROVE run'[d] = run[d]
  BY <1>1, RunTypes DEF GoOn
<1>2. ASSUME NEW next, L!GoOn(c, next) PROVE call'[d] = call[d]
  BY <1>2, RunTypes DEF L!GoOn
<1>3. run'[d] = run[d]
  <2>1. ASSUME HookOver(c) \/ HookDone(c) PROVE run'[d] = run[d]
    BY <1>1, <2>1 DEF HookOver, HookDone
  <2>2. ASSUME ToolCall(c) \/ Extracted(c) \/ ApplicationThrows(c) PROVE run'[d] = run[d]
    BY <1>1, <2>2 DEF ToolCall, Extracted, ApplicationThrows
  <2>3. ASSUME \/ ApplicationReturns(c) \/ NothingToIngest(c) \/ IngestReturnsNoLesson(c)
               \/ IngestThrows(c) \/ Promoted(c)
        PROVE  run'[d] = run[d]
    BY <2>1, <2>3 DEF ApplicationReturns, NothingToIngest, IngestReturnsNoLesson,
         IngestThrows, Promoted
  <2>4. ASSUME IngestReturnsLesson(c) PROVE run'[d] = run[d]
    BY <1>1, <2>1, <2>4 DEF IngestReturnsLesson
  <2>5. ASSUME IngestBegins(c) \/ IngestGoesOn(c) PROVE run'[d] = run[d]
    BY <2>5 DEF IngestBegins, IngestGoesOn
  <2>6. QED
    BY <2>2, <2>3, <2>4, <2>5 DEF Step
<1>4. call'[d] = call[d]
  <2>1. ASSUME \/ L!Deliver(c, run[c].signal) \/ L!Duplicate(c) \/ L!Fresh(c)
               \/ L!StoreEvidence(c) \/ L!ReadLesson(c) \/ L!FindContradicted(c)
               \/ L!Supersede(c) \/ L!Merge(c) \/ L!IngestFails(c)
        PROVE  call'[d] = call[d]
    BY <1>2, <2>1 DEF L!Deliver, L!Duplicate, L!Fresh, L!StoreEvidence, L!ReadLesson,
         L!FindContradicted, L!Supersede, L!Merge, L!IngestFails
  <2>2. ASSUME \/ IngestBegins(c) \/ IngestGoesOn(c) \/ IngestReturnsNoLesson(c)
               \/ IngestThrows(c) \/ IngestReturnsLesson(c)
        PROVE  call'[d] = call[d]
    BY <2>1, <2>2 DEF IngestBegins, IngestGoesOn, IngestReturnsNoLesson,
         IngestThrows, IngestReturnsLesson
  <2>3. ASSUME \/ ToolCall(c) \/ Extracted(c) \/ ApplicationReturns(c)
               \/ ApplicationThrows(c) \/ NothingToIngest(c) \/ Promoted(c)
        PROVE  call'[d] = call[d]
    BY <2>3 DEF ToolCall, Extracted, ApplicationReturns, ApplicationThrows, NothingToIngest,
         Promoted, learning
  <2>4. QED
    BY <2>2, <2>3 DEF Step
<1>5. QED
  BY <1>3, <1>4

\* The hook at the head is over: the others follow, if there are any.
LEMMA DoneHook ==
  ASSUME TInv, NEW c \in Callers, HookOver(c), run[c].todo # <<>>, call'[c] = L!Idle
  PROVE  Over(c) \/ NextHook(c)
<1> DEFINE rest == Tail(run[c].todo)
<1>1. CASE rest = <<>>
  BY <1>1, RunTypes DEF HookOver, GoOn, Over
<1>2. CASE rest # <<>>
  BY <1>2, RunTypes DEF HookOver, GoOn, NextHook
<1>3. QED
  BY <1>1, <1>2

\* Where a caller's hooks begin.
LEMMA HooksBegin ==
  ASSUME TInv, NEW c \in Callers, ToolCall(c) \/ Extracted(c)
  PROVE  Begins(c)
<1> DEFINE Ran(todo, failed, signal, names) ==
      [todo |-> todo, failed |-> failed, signal |-> signal, promoting |-> None,
       names |-> names]
<1>1. run[c] = NotRunning /\ call[c] = L!Idle /\ call' = call
  <2>1. run[c] = NotRunning /\ call' = call
    BY DEF ToolCall, Extracted, learning
  <2>2. call[c] = L!Idle
    BY <2>1, RunTypes DEF Runs, NotRunning
  <2>3. QED
    BY <2>1, <2>2
<1>2. ASSUME NEW todo, NEW failed \in BOOLEAN, NEW signal \in L!Signal,
             NEW names \in SUBSET Identities,
             ApplicationFirst(todo), todo # <<>>, GoOn(c, Ran(todo, failed, signal, names)),
             names # {} => signal.identity \in names,
             AsksForSkill(signal) => signal.statement \in asked'
      PROVE  Begins(c)
  <2>1. run'[c] = Ran(todo, failed, signal, names)
    BY <1>2, RunTypes DEF GoOn
  <2>2. run'[c] \in Run
    BY <1>2, <2>1 DEF Run, ApplicationFirst
  <2>3. signal # None
    BY LearningAssumption
  <2>4. QED
    BY <1>1, <1>2, <2>1, <2>2, <2>3 DEF Begins
<1>3. CASE ToolCall(c)
  <2>1. PICK context \in Contexts, todo \in {hooks, Composed(<<>>), Composed(<<"application">>)} :
          /\ todo # <<>>
          /\ GoOn(c, Ran(todo, context.failed, ToolSignal(context), NamesOf(context)))
    BY <1>3 DEF ToolCall
  <2>2. ApplicationFirst(todo)
    BY ComposedHooks, NoHooks DEF TInv, HooksInv
  <2>3. context.failed \in BOOLEAN
    BY EvolutionAssumption DEF Context
  <2>4. QED
    BY <1>2, <2>1, <2>2, <2>3, ToolSignals, NamedSignals
<1>4. CASE Extracted(c)
  <2>1. PICK payload \in Payloads :
          /\ Parsed(payload) # None
          /\ GoOn(c, Ran(<<"extractor">>, FALSE, Parsed(payload), {}))
          /\ AsksForSkill(Parsed(payload)) => Parsed(payload).statement \in asked'
    BY <1>4 DEF Extracted
  <2>2. <<"extractor">> # <<>> /\ FALSE \in BOOLEAN
    OBVIOUS
  <2>3. Parsed(payload) \in L!Signal
    BY <2>1, ParsedSignals
  <2>4. {} \in SUBSET Identities /\ ({} # {} => Parsed(payload).identity \in {})
    OBVIOUS
  <2>5. QED
    BY <1>2, <2>1, <2>2, <2>3, <2>4, NoHooks
<1>5. QED
  BY <1>3, <1>4

\* Where an ingest begins or goes on.
LEMMA IngestSteps ==
  ASSUME TInv, NEW c \in Callers, IngestBegins(c) \/ IngestGoesOn(c)
  PROVE  Ingests(c)
<1>1. CASE IngestBegins(c)
  <2>1. /\ run'[c] = run[c] /\ run[c].promoting = None
        /\ run[c].todo # <<>> /\ Head(run[c].todo) \in {"evolution", "extractor"}
        /\ L!Deliver(c, run[c].signal)
    BY <1>1 DEF IngestBegins, AtHook
  <2>2. Carries(call'[c], run[c].signal)
    BY <2>1, RunTypes DEF L!Deliver, L!GoOn, L!Idle, Carries
  <2>3. QED
    BY <1>1, <2>1, <2>2 DEF Ingests
<1>2. CASE IngestGoesOn(c)
  <2>1. \/ L!Fresh(c) \/ L!StoreEvidence(c) \/ L!ReadLesson(c) \/ L!FindContradicted(c)
        \/ L!Supersede(c)
    BY <1>2 DEF IngestGoesOn
  <2>2. call[c].pc # "idle" /\ call'[c] # L!Idle
    BY <1>2, <2>1 DEF IngestGoesOn, L!Fresh, L!StoreEvidence, L!ReadLesson,
         L!FindContradicted, L!Supersede
  <2>3. call[c] # L!Idle
    BY <2>2 DEF L!Idle
  <2>4. call'[c].evidence = call[c].evidence /\ call'[c].action = call[c].action
    <3>1. call \in [Callers -> LP!Call]
      BY RunTypes
    <3>2. ASSUME NEW k, L!GoOn(c, k) PROVE call'[c] = k
      BY <3>1, <3>2 DEF L!GoOn
    <3>3. CASE L!Fresh(c)
      BY <3>1, <3>2, <3>3 DEF L!Fresh, LP!Call
    <3>4. CASE L!StoreEvidence(c)
      BY <2>2, <3>1, <3>2, <3>4 DEF L!StoreEvidence, LP!Call
    <3>5. CASE L!ReadLesson(c)
      BY <3>1, <3>2, <3>5 DEF L!ReadLesson, LP!Call
    <3>6. CASE L!FindContradicted(c)
      BY <3>1, <3>2, <3>6 DEF L!FindContradicted, LP!Call
    <3>7. CASE L!Supersede(c)
      BY <3>1, <3>2, <3>7 DEF L!Supersede, LP!Call
    <3>8. QED
      BY <2>1, <3>3, <3>4, <3>5, <3>6, <3>7
  <2>5. run' = run
    BY <1>2 DEF IngestGoesOn
  <2>6. QED
    BY <2>3, <2>4, <2>5, RunTypes DEF Runs, Carries, Ingests
<1>3. QED
  BY <1>1, <1>2

\* Where an ingest returns, with a lesson or without one.
LEMMA ReturnSteps ==
  ASSUME TInv, NEW c \in Callers,
         IngestReturnsNoLesson(c) \/ IngestThrows(c) \/ IngestReturnsLesson(c)
  PROVE  /\ call[c] # L!Idle /\ call'[c] = L!Idle
         /\ run[c].todo # <<>>
         /\ \/ /\ (Over(c) \/ NextHook(c)) /\ HookDone(c)
               /\ IngestReturnsNoLesson(c) \/ IngestReturnsLesson(c)
            \/ (Over(c) \/ NextHook(c)) /\ IngestThrows(c)
            \/ Returns(c) /\ IngestReturnsLesson(c)
<1>1. call[c] # L!Idle
  <2>1. call[c].pc # "idle" \/ L!IngestFails(c)
    BY DEF IngestReturnsNoLesson, IngestThrows, IngestReturnsLesson, L!Duplicate,
         L!StoreEvidence, L!Merge
  <2>2. QED
    BY <2>1 DEF L!IngestFails, L!Idle
<1>2. run[c].todo # <<>>
  BY <1>1, RunTypes DEF Runs
<1>3. CASE IngestReturnsNoLesson(c)
  BY <1>1, <1>2, <1>3, DoneHook DEF IngestReturnsNoLesson, HookDone
<1>4. CASE IngestReturnsLesson(c)
  <2>1. call'[c] = L!Idle
    BY <1>4, RunTypes DEF IngestReturnsLesson, L!Merge, L!GoOn
  <2>2. CASE HookDone(c)
    BY <1>1, <1>2, <2>1, <2>2, DoneHook DEF HookDone
  <2>3. CASE GoOn(c, [run[c] EXCEPT !.promoting = call[c].evidence.statement])
    BY <1>1, <1>2, <1>4, <2>1, <2>3, RunTypes DEF GoOn, Returns
  <2>4. QED
    BY <1>4, <2>2, <2>3 DEF IngestReturnsLesson
<1>5. CASE IngestThrows(c)
  <2>1. call'[c] = L!Idle
    BY <1>5, RunTypes DEF IngestThrows, L!IngestFails, L!GoOn
  <2>2. QED
    BY <1>1, <1>2, <1>5, <2>1, DoneHook DEF IngestThrows
<1>6. QED
  BY <1>3, <1>4, <1>5

LEMMA CallerSteps ==
  ASSUME TInv, NEW c \in Callers, Step(c)
  PROVE  Begins(c) \/ Over(c) \/ NextHook(c) \/ Ingests(c) \/ Returns(c)
<1>1. CASE ApplicationReturns(c) \/ NothingToIngest(c)
  <2>1. HookOver(c) /\ run[c].todo # <<>> /\ call[c] = L!Idle /\ call' = call
    BY <1>1 DEF ApplicationReturns, NothingToIngest, AtHook, HookDone, learning
  <2>2. QED
    BY <2>1, DoneHook
<1>2. CASE ApplicationThrows(c)
  BY <1>2, RunTypes DEF ApplicationThrows, AtHook, GoOn, Over, learning
<1>3. CASE Promoted(c)
  <2>1. HookOver(c) /\ run[c].promoting # None /\ call' = call
    BY <1>3 DEF Promoted, HookDone, learning
  <2>2. run[c].todo # <<>> /\ call[c] = L!Idle
    BY <2>1, RunTypes DEF Runs
  <2>3. QED
    BY <2>1, <2>2, DoneHook
<1>4. QED
  BY <1>1, <1>2, <1>3, HooksBegin, IngestSteps, ReturnSteps DEF Step

\* What a caller's hooks are after its step fits.
LEMMA RunsAgain ==
  ASSUME TInv, NEW c \in Callers,
         Begins(c) \/ Over(c) \/ NextHook(c) \/ Ingests(c) \/ Returns(c)
  PROVE  run'[c] \in Run /\ Runs(run'[c], call'[c])
<1>1. Runs(run[c], call[c]) /\ run[c] \in Run
  BY RunTypes
<1>2. CASE Begins(c)
  BY <1>2 DEF Begins, Runs
<1>3. CASE Over(c)
  <2>1. NotRunning \in Run
    BY DEF NotRunning, Run
  <2>2. QED
    BY <1>3, <2>1, NoHooks DEF Over, Runs, NotRunning
<1>4. CASE NextHook(c)
  <2>1. ApplicationFirst(Tail(run[c].todo))
    BY <1>1, <1>4, RestHooks DEF NextHook, Runs
  <2>2. run[c].signal # None
    BY <1>1, <1>4 DEF NextHook, Runs, NotRunning
  <2>3. run'[c] \in Run
    BY <1>1, <1>4, <2>1 DEF NextHook, Run, ApplicationFirst
  <2>4. /\ run'[c].todo = Tail(run[c].todo) /\ run'[c].signal = run[c].signal
        /\ run'[c].promoting = None /\ run'[c].names = run[c].names
    BY <1>1, <1>4 DEF NextHook, Run
  <2>5. run'[c].names # {} => run'[c].signal.identity \in run'[c].names
    BY <1>1, <2>4 DEF Runs
  <2>6. QED
    BY <1>4, <2>1, <2>2, <2>3, <2>4, <2>5 DEF NextHook, Runs
<1>5. CASE Ingests(c)
  BY <1>1, <1>5 DEF Ingests, Runs
<1>6. CASE Returns(c)
  <2>1. call[c].evidence.statement \in Statements
    <3>1. run[c].signal \in L!Signal
      BY <1>1, <1>6 DEF Returns, Runs, NotRunning, Run
    <3>2. QED
      BY <1>1, <1>6, <3>1 DEF Returns, Runs, Carries, L!Signal
  <2>2. run'[c] \in Run
    BY <1>1, <1>6, <2>1 DEF Returns, Run
  <2>3. run'[c].todo = run[c].todo /\ run'[c].signal = run[c].signal
    BY <1>1, <1>6 DEF Returns, Run
  <2>4. run[c].todo # <<>> /\ Head(run[c].todo) \in {"evolution", "extractor"}
        /\ run[c].signal # None
    BY <1>1, <1>6 DEF Returns, Runs, NotRunning
  <2>5. QED
    BY <1>1, <1>6, <2>2, <2>3, <2>4 DEF Returns, Runs
<1>7. QED
  BY <1>2, <1>3, <1>4, <1>5, <1>6

-----------------------------------------------------------------------------
(* Types. *)

\* The process starts with no hooks of evolution's.
LEMMA StartingHooks ==
  ASSUME NEW h \in {<<>>, <<"application">>}
  PROVE  ApplicationFirst(h) /\ Len(h) <= 1
<1>1. CASE h = <<>>
  BY <1>1, NoHooks
<1>2. CASE h = <<"application">>
  BY <1>2, NoHooks
<1>3. QED
  BY <1>1, <1>2

LEMMA TypeInit == Init => TInv
<1> SUFFICES ASSUME Init PROVE TInv
  OBVIOUS
<1>1. LP!TInv
  BY SameInit, LearningAssumptions, LP!TypeInit DEF Init
<1>2. AssembledInv
  BY Assembled DEF Init, AssembledInv, NotRunning
<1>3. HooksInv
  <2>1. hooks \in {<<>>, <<"application">>} /\ attached = 0
    BY DEF Init
  <2>2. ApplicationFirst(hooks) /\ Len(hooks) <= 1
    BY <2>1, StartingHooks
  <2>3. QED
    BY <2>1, <2>2, EvolutionAssumption DEF HooksInv
<1>4. RunsInv
  <2>1. NotRunning \in Run
    BY DEF NotRunning, Run
  <2>2. call = [c \in Callers |-> L!Idle]
    BY DEF Init, L!Init
  <2>3. QED
    BY <2>1, <2>2, NoHooks DEF Init, RunsInv, Runs, NotRunning
<1>5. HistoryInv
  BY DEF Init, HistoryInv
<1>6. QED
  BY <1>1, <1>2, <1>3, <1>4, <1>5 DEF TInv

\* A step of a caller, and what else may happen.
LEMMA OtherSteps ==
  ASSUME TInv, Attach \/ UNCHANGED vars
  PROVE  /\ UNCHANGED <<evidence, lessons, call, deliveries, faults>>
         /\ UNCHANGED <<evolution, run, asked, published, handled, apart>>
         /\ HooksInv'
<1>1. UNCHANGED <<evidence, lessons, call, deliveries, faults>>
      /\ UNCHANGED <<evolution, run, asked, published, handled, apart>>
  BY DEF Attach, vars, learning, history
<1>2. HooksInv'
  <2>1. CASE Attach
    <3>1. ApplicationFirst(hooks) /\ Len(hooks) <= attached + 1 /\ attached \in 0..MaxAttached
          /\ MaxAttached \in Nat \ {0}
      BY EvolutionAssumption DEF TInv, HooksInv
    <3> DEFINE before == IF evolution.getter THEN hooks ELSE <<>>
    <3>2. ApplicationFirst(before) /\ Len(before) <= attached + 1
      BY <3>1, NoHooks
    <3>3. Len(before) \in Nat
      BY <3>2 DEF ApplicationFirst
    <3>4. hooks' = Composed(before) /\ attached' = attached + 1 /\ attached < MaxAttached
      BY <2>1 DEF Attach
    <3>5. ApplicationFirst(Composed(before)) /\ Len(Composed(before)) = Len(before) + 1
      BY <3>2, ComposedHooks
    <3>6. attached' \in 0..MaxAttached /\ Len(hooks') <= attached' + 1
      BY <3>1, <3>2, <3>3, <3>4, <3>5
    <3>7. QED
      BY <3>4, <3>5, <3>6 DEF HooksInv, ApplicationFirst
  <2>2. CASE UNCHANGED vars
    BY <2>2 DEF vars, TInv, HooksInv, ApplicationFirst
  <2>3. QED
    BY <2>1, <2>2
<1>3. QED
  BY <1>1, <1>2

\* What is being promoted after a step was before it, or has just been merged.
LEMMA PromotionSteps ==
  ASSUME TInv, NEW c \in Callers, Step(c), NEW d \in Callers, run'[d].promoting # None
  PROVE  \/ d # c /\ run'[d] = run[d]
         \/ /\ d = c /\ IngestReturnsLesson(c) /\ Returns(c)
            /\ evolution.loop
            /\ shouldDraftSkill(lessons'[call[c].evidence.statement])
            /\ run'[c].promoting = call[c].evidence.statement
            /\ run'[c].signal = run[c].signal
<1>1. run[c] \in Run
  BY RunTypes
<1>2. CASE d # c
  BY <1>2, OtherCallers
<1>3. CASE d = c
  <2>1. ~Begins(c) /\ ~Over(c) /\ ~Ingests(c)
    BY <1>3 DEF Begins, Over, Ingests, NotRunning
  <2>2. ~NextHook(c)
    BY <1>1, <1>3 DEF NextHook, Run
  <2>3. Returns(c)
    BY <2>1, <2>2, CallerSteps
  <2>4. call[c] # L!Idle /\ call'[c] = L!Idle /\ run'[c] # run[c]
    BY <1>3, <2>3, RunTypes DEF Returns, Runs
  <2>5. IngestReturnsNoLesson(c) \/ IngestThrows(c) \/ IngestReturnsLesson(c)
    <3>1. ASSUME IngestBegins(c) \/ IngestGoesOn(c) PROVE FALSE
      BY <2>4, <3>1, IngestSteps DEF Ingests
    <3>2. ASSUME \/ ToolCall(c) \/ Extracted(c) \/ ApplicationReturns(c)
                 \/ ApplicationThrows(c) \/ NothingToIngest(c) \/ Promoted(c)
          PROVE  call' = call
      BY <3>2 DEF ToolCall, Extracted, ApplicationReturns, ApplicationThrows, NothingToIngest,
           Promoted, learning
    <3>3. QED
      BY <2>4, <3>1, <3>2 DEF Step
  <2>6. IngestReturnsLesson(c) /\ ~HookDone(c)
    <3>1. ASSUME HookDone(c) PROVE FALSE
      BY <2>1, <2>2, <2>4, <2>5, <3>1, ReturnSteps, DoneHook DEF HookDone
    <3>2. QED
      BY <2>1, <2>2, <2>5, <3>1, ReturnSteps
  <2>7. /\ run'[c].promoting = call[c].evidence.statement
        /\ run'[c].signal = run[c].signal
    BY <1>1, <2>3 DEF Returns, Run
  <2>8. QED
    BY <1>3, <2>3, <2>6, <2>7 DEF IngestReturnsLesson
<1>4. QED
  BY <1>2, <1>3

\* A step of a caller leaves what was put together and attached alone, and
\* promotes only with a loop.
LEMMA StepAssembled ==
  ASSUME TInv, NEW c \in Callers, Step(c)
  PROVE  AssembledInv' /\ HooksInv'
<1>1. UNCHANGED <<evolution, hooks, attached>>
  BY DEF Step, ToolCall, Extracted, ApplicationReturns, ApplicationThrows, NothingToIngest,
       IngestBegins, IngestGoesOn, IngestReturnsNoLesson, IngestThrows, IngestReturnsLesson,
       Promoted
<1>2. ASSUME NEW d \in Callers, run'[d].promoting # None PROVE evolution.loop
  BY <1>2, PromotionSteps DEF TInv, AssembledInv
<1>3. HooksInv'
  BY <1>1 DEF TInv, HooksInv, ApplicationFirst
<1>4. QED
  BY <1>1, <1>2, <1>3 DEF TInv, AssembledInv

\* Whoever publishes unseen has a loop, so a runtime.
LEMMA LoopRuntime ==
  ASSUME TInv, NEW c \in Callers, run[c].promoting # None
  PROVE  evolution.improvement \in ImprovementRuntime
BY DEF TInv, AssembledInv, Evolution

\* A hook that ran without an error handled the call that it was on.
LEMMA Handles ==
  ASSUME TInv, NEW c \in Callers, HookDone(c), run[c].todo # <<>>
  PROVE  \/ handled' = handled
         \/ /\ Head(run[c].todo) = "evolution" /\ run[c].failed /\ evolution.learning # None
            /\ run[c].names \in SUBSET Identities
            /\ handled' = handled \cup ({run[c].names} \ {{}})
<1>1. run[c].names \in SUBSET Identities
  BY RunTypes DEF Run
<1>2. QED
  BY <1>1 DEF HookDone

\* The steps on which a hook ends without an error.
EndsWell(c) ==
  /\ HookDone(c) /\ run[c].todo # <<>>
  /\ \/ ApplicationReturns(c) \/ NothingToIngest(c) \/ IngestReturnsNoLesson(c)
     \/ IngestReturnsLesson(c) \/ Promoted(c)

\* Which steps handle a call, ask and publish.
LEMMA HistorySteps ==
  ASSUME TInv, NEW c \in Callers, Step(c)
  PROVE  /\ handled' = handled \/ EndsWell(c)
         /\ asked' = asked \/ Extracted(c)
         /\ published' = published \/ Promoted(c)
         /\ apart' = apart \/ IngestBegins(c)
<1>1. ASSUME Promoted(c) PROVE EndsWell(c)
  BY <1>1, RunTypes DEF Promoted, Runs, EndsWell
<1>2. ASSUME ApplicationReturns(c) \/ NothingToIngest(c) PROVE EndsWell(c)
  BY <1>2 DEF ApplicationReturns, NothingToIngest, AtHook, EndsWell
<1>3. ASSUME IngestReturnsNoLesson(c) \/ IngestReturnsLesson(c)
      PROVE  handled' = handled \/ EndsWell(c)
  BY <1>3, ReturnSteps DEF IngestReturnsNoLesson, IngestReturnsLesson, EndsWell
<1>4. ASSUME \/ ToolCall(c) \/ Extracted(c) \/ ApplicationThrows(c) \/ IngestBegins(c)
             \/ IngestGoesOn(c) \/ IngestThrows(c)
      PROVE  handled' = handled
  BY <1>4 DEF ToolCall, Extracted, ApplicationThrows, IngestBegins, IngestGoesOn,
     IngestThrows, history
<1>5. handled' = handled \/ EndsWell(c)
  BY <1>1, <1>2, <1>3, <1>4 DEF Step
<1>6. QED
  BY <1>5 DEF Step, ToolCall, Extracted, ApplicationReturns, ApplicationThrows, NothingToIngest,
     IngestBegins, IngestGoesOn, IngestReturnsNoLesson, IngestThrows, IngestReturnsLesson,
     Promoted, history

LEMMA StepHistory ==
  ASSUME TInv, NEW c \in Callers, Step(c)
  PROVE  HistoryInv'
<1>1. HistoryInv
  BY DEF TInv
<1>2. asked' \subseteq Statements
  <2>1. CASE Extracted(c)
    BY <1>1, <2>1, ParsedSignals DEF Extracted, HistoryInv, L!Signal
  <2>2. QED
    BY <1>1, <2>1, HistorySteps DEF HistoryInv
<1>3. published' \subseteq [statement : Statements, structural : BOOLEAN]
  <2>1. CASE Promoted(c)
    <3>1. run[c].promoting # None /\ run[c].promoting \in Statements
      BY <2>1, RunTypes DEF Promoted, Run
    <3>2. Evaluations(evolution.improvement) \subseteq Evaluation
      BY <3>1, LoopRuntime, AnswersAreEvaluations
    <3>3. \/ published' = published
          \/ \E e \in Evaluations(evolution.improvement) :
               published' = published \cup
                 {[statement |-> run[c].promoting, structural |-> e.structural]}
      BY <2>1 DEF Promoted
    <3>4. QED
      BY <1>1, <3>1, <3>2, <3>3 DEF HistoryInv, Evaluation
  <2>2. QED
    BY <1>1, <2>1, HistorySteps DEF HistoryInv
<1>4. handled' \subseteq SUBSET Identities
  BY <1>1, HistorySteps, Handles DEF HistoryInv, EndsWell
<1>5. apart' \in BOOLEAN
  BY <1>1, HistorySteps DEF HistoryInv, IngestBegins
<1>6. QED
  BY <1>2, <1>3, <1>4, <1>5 DEF HistoryInv

LEMMA StepRuns ==
  ASSUME TInv, NEW c \in Callers, Step(c)
  PROVE  RunsInv'
<1>1. run' = [d \in Callers |-> run'[d]]
  <2>1. ASSUME NEW next, GoOn(c, next) PROVE run' = [d \in Callers |-> run'[d]]
    BY <2>1, RunTypes DEF GoOn
  <2>2. ASSUME HookOver(c) PROVE run' = [d \in Callers |-> run'[d]]
    BY <2>1, <2>2 DEF HookOver
  <2>3. ASSUME run' = run PROVE run' = [d \in Callers |-> run'[d]]
    BY <2>3, RunTypes
  <2>4. (\E next : GoOn(c, next)) \/ HookOver(c) \/ run' = run
    BY DEF HookDone, Step, ToolCall, Extracted, ApplicationReturns, ApplicationThrows,
         NothingToIngest,
         IngestBegins, IngestGoesOn, IngestReturnsNoLesson, IngestThrows, IngestReturnsLesson,
       Promoted
  <2>5. QED
    BY <2>1, <2>2, <2>3, <2>4
<1>2. ASSUME NEW d \in Callers PROVE run'[d] \in Run /\ Runs(run'[d], call'[d])
  <2>1. CASE d = c
    BY <2>1, CallerSteps, RunsAgain
  <2>2. CASE d # c
    BY <2>2, OtherCallers, RunTypes
  <2>3. QED
    BY <2>1, <2>2
<1>3. QED
  BY <1>1, <1>2 DEF RunsInv

\* A signal that a caller has after a step it had before, unless it begins.
LEMMA SignalStays ==
  ASSUME TInv, NEW c \in Callers, Step(c), NEW d \in Callers, run'[d].signal # None,
         ~(Begins(c) /\ d = c)
  PROVE  run[d].signal = run'[d].signal
<1>1. CASE d # c
  BY <1>1, OtherCallers
<1>2. CASE d = c
  <2>1. run[c] \in Run
    BY RunTypes
  <2>2. CASE NextHook(c) \/ Returns(c)
    BY <1>2, <2>1, <2>2 DEF NextHook, Returns, Run
  <2>3. CASE Over(c) \/ Ingests(c)
    BY <1>2, <2>3 DEF Over, Ingests, NotRunning
  <2>4. QED
    BY <1>2, <2>2, <2>3, CallerSteps
<1>3. QED
  BY <1>1, <1>2

LEMMA CrashTypes ==
  ASSUME TInv, Crash
  PROVE  AssembledInv' /\ HooksInv' /\ RunsInv' /\ HistoryInv'
<1>1. run' = [c \in Callers |-> NotRunning] /\ call' = [c \in Callers |-> L!Idle]
  BY DEF Crash
<1>2. AssembledInv'
  BY <1>1 DEF Crash, TInv, AssembledInv, NotRunning
<1>3. HooksInv'
  <2>1. hooks' \in {<<>>, <<"application">>} /\ attached' = 0
    BY DEF Crash
  <2>2. ApplicationFirst(hooks') /\ Len(hooks') <= 1
    BY <2>1, StartingHooks
  <2>3. QED
    BY <2>1, <2>2, EvolutionAssumption DEF HooksInv, ApplicationFirst
<1>4. RunsInv'
  <2>1. NotRunning \in Run
    BY DEF NotRunning, Run
  <2>2. Runs(NotRunning, L!Idle)
    BY <2>1, NoHooks DEF Runs, NotRunning
  <2>3. QED
    BY <1>1, <2>1, <2>2 DEF RunsInv
<1>5. HistoryInv'
  BY DEF Crash, history, TInv, HistoryInv
<1>6. QED
  BY <1>2, <1>3, <1>4, <1>5

LEMMA TypeStep == TInv /\ [Next]_vars => TInv'
<1> SUFFICES ASSUME TInv, [Next]_vars PROVE TInv'
  OBVIOUS
<1>1. LP!TInv'
  BY LearningStep
<1>2. ASSUME NEW c \in Callers, Step(c) PROVE TInv'
  BY <1>1, <1>2, StepAssembled, StepRuns, StepHistory DEF TInv
<1>3. CASE Crash
  BY <1>1, <1>3, CrashTypes DEF TInv
<1>4. CASE Attach \/ UNCHANGED vars
  <2>1. AssembledInv' /\ RunsInv' /\ HistoryInv'
    BY <1>4, OtherSteps DEF TInv, AssembledInv, RunsInv, HistoryInv
  <2>2. QED
    BY <1>1, <1>4, <2>1, OtherSteps DEF TInv
<1>5. QED
  BY <1>2, <1>3, <1>4 DEF Next

LEMMA TypeInductive == Spec => []TInv
BY TypeInit, TypeStep, PTL DEF Spec

\* Every variable of Evolution holds a value of its type, hooks stay within
\* their bound, and an ingest or a promotion belongs to one of evolution's hooks.
THEOREM TypeCorrect == Spec => []TypeOK
<1>1. TInv => TypeOK
  <2> SUFFICES ASSUME TInv PROVE TypeOK
    OBVIOUS
  <2>1. L!TypeOK
    BY SameTypes DEF TInv, LP!TInv
  <2>2. hooks \in Seq(Hook) /\ Len(hooks) <= MaxAttached + 1 /\ attached \in 0..MaxAttached
    BY EvolutionAssumption DEF TInv, HooksInv, ApplicationFirst
  <2>3. /\ run \in [Callers -> Run]
        /\ \A c \in Callers :
             call[c] # L!Idle \/ run[c].promoting # None =>
               run[c].todo # <<>> /\ Head(run[c].todo) \in {"evolution", "extractor"}
    BY RunTypes DEF Runs
  <2>4. QED
    BY <2>1, <2>2, <2>3 DEF TInv, AssembledInv, HistoryInv, TypeOK
<1>2. QED
  BY <1>1, TypeInductive, PTL

\* An ingest runs only once the application's hook of the same call has
\* returned: evolution's hooks come after it however often they are attached.
THEOREM ApplicationFirstOfAll == Spec => []ApplicationRunsFirst
<1>1. TInv => ApplicationRunsFirst
  <2> SUFFICES ASSUME TInv, NEW c \in Callers, call[c] # L!Idle
               PROVE  "application" \notin {run[c].todo[i] : i \in DOMAIN run[c].todo}
    BY DEF ApplicationRunsFirst
  <2>1. /\ ApplicationFirst(run[c].todo) /\ run[c].todo # <<>>
        /\ Head(run[c].todo) \in {"evolution", "extractor"}
    BY RunTypes DEF Runs
  <2>2. QED
    BY <2>1, PastApplication
<1>2. QED
  BY <1>1, TypeInductive, PTL

-----------------------------------------------------------------------------
(* As long as ingests of one identity are apart, evidence is counted once. *)

\* Ingests that have been apart stay apart until one begins with an identity
\* that another one has.
LEMMA ApartBefore == [Next]_vars /\ apart' => apart
<1>1. ASSUME NEW c \in Callers, Step(c), apart' PROVE apart
  BY <1>1 DEF Step, ToolCall, Extracted, ApplicationReturns, ApplicationThrows, NothingToIngest,
     IngestBegins, IngestGoesOn, IngestReturnsNoLesson, IngestThrows, IngestReturnsLesson,
     Promoted, history
<1>2. QED
  BY <1>1 DEF Next, Attach, Crash, history, vars

\* An ingest keeps its evidence until it is over.
LEMMA EvidenceOfIngest ==
  ASSUME TInv, NEW c \in Callers, Step(c), NEW d \in Callers, call'[d].evidence # None,
         ~(IngestBegins(c) /\ d = c)
  PROVE  call'[d].evidence = call[d].evidence
<1>1. CASE d # c
  BY <1>1, OtherCallers
<1>2. CASE d = c
  <2>1. call'[c] # L!Idle
    BY <1>2 DEF L!Idle
  <2>2. Ingests(c)
    BY <2>1, CallerSteps DEF Begins, Over, NextHook, Returns
  <2>3. QED
    BY <1>2, <2>2 DEF Ingests
<1>3. QED
  BY <1>1, <1>2

LEMMA ApartStep ==
  ASSUME TInv, LP!Apart, [Next]_vars, apart'
  PROVE  LP!Apart'
<1> SUFFICES ASSUME NEW a \in Callers, NEW b \in Callers, a # b,
                    call'[a].evidence # None, call'[b].evidence # None,
                    call'[a].evidence.identity # None,
                    call'[a].evidence.identity = call'[b].evidence.identity
             PROVE  FALSE
  BY DEF LP!Apart, LP!SharesIdentity
<1>1. ASSUME call'[a].evidence = call[a].evidence, call'[b].evidence = call[b].evidence
      PROVE  FALSE
  BY <1>1 DEF LP!Apart, LP!SharesIdentity
<1>2. ASSUME NEW c \in Callers, Step(c) PROVE FALSE
  <2>1. ASSUME IngestBegins(c)
        PROVE  /\ call'[c].evidence.identity = run[c].signal.identity
               /\ run[c].signal.identity = None \/ ~Ingesting(run[c].signal.identity)
    BY <2>1, IngestSteps DEF Ingests, Carries, IngestBegins
  <2>2. CASE IngestBegins(c) /\ a = c
    <3>1. call'[b].evidence = call[b].evidence
      BY <1>2, <2>2, EvidenceOfIngest
    <3>2. QED
      BY <2>1, <2>2, <3>1 DEF Ingesting
  <2>3. CASE IngestBegins(c) /\ b = c
    <3>1. call'[a].evidence = call[a].evidence
      BY <1>2, <2>3, EvidenceOfIngest
    <3>2. QED
      BY <2>1, <2>3, <3>1 DEF Ingesting
  <2>4. CASE ~(IngestBegins(c) /\ a = c) /\ ~(IngestBegins(c) /\ b = c)
    BY <1>1, <1>2, <2>4, EvidenceOfIngest
  <2>5. QED
    BY <2>2, <2>3, <2>4
<1>3. CASE Crash
  BY <1>3 DEF Crash, L!Idle
<1>4. CASE Attach \/ UNCHANGED vars
  BY <1>1, <1>4, OtherSteps
<1>5. QED
  BY <1>2, <1>3, <1>4 DEF Next

LEMMA CountsInit == Init => CountsInv
<1> SUFFICES ASSUME Init PROVE LP!Apart /\ LP!Ids /\ LP!Counts
  BY DEF CountsInv
<1>1. LP!Init
  BY SameInit DEF Init
<1>2. LP!Apart
  BY <1>1 DEF LP!Init, LP!Idle, LP!Apart
<1>3. QED
  BY <1>1, <1>2, LP!IdsInit, LP!CountsInit, LearningAssumptions

LEMMA CountsStep == TInv /\ CountsInv /\ [Next]_vars => CountsInv'
<1> SUFFICES ASSUME TInv, CountsInv, [Next]_vars, apart'
             PROVE  LP!Apart' /\ LP!Ids' /\ LP!Counts'
  BY DEF CountsInv
<1>1. LP!TInv /\ LP!Apart /\ LP!Ids /\ LP!Counts
  BY ApartBefore DEF TInv, CountsInv
<1>2. LP!Apart'
  BY <1>1, ApartStep
<1>3. CASE [LP!Next]_(LP!vars)
  <2>1. LP!Ids'
    BY <1>1, <1>3, LP!IdsStep, LearningAssumptions
  <2>2. LP!Counts'
    BY <1>1, <1>3, <2>1, LP!CountsStep, LearningAssumptions
  <2>3. QED
    BY <1>2, <2>1, <2>2
<1>4. CASE Quiet
  BY <1>1, <1>2, <1>4, LP!OnlyFaults, LearningAssumptions DEF Quiet
<1>5. QED
  BY <1>3, <1>4, LearningSteps

LEMMA CountedOnce == TInv /\ CountsInv => ToolCallsCountOnce
<1> SUFFICES ASSUME TInv, CountsInv, apart PROVE L!CountsStoredEvidence
  BY DEF ToolCallsCountOnce
<1>1. LP!CountsStoredEvidence
  BY LP!BackedIsCounted, LearningAssumptions DEF TInv, CountsInv
<1>2. QED
  BY <1>1, SameCounts

\* Whatever hooks run, overlap, come again, fail or are attached again, and
\* whatever the extractors bring: a lesson counts no more than the evidence
\* stored for it, until a source brings an identity again while that is being
\* ingested.
THEOREM CallsCountOnce == Spec => []ToolCallsCountOnce
<1>1. Init => TInv /\ CountsInv
  BY TypeInit, CountsInit
<1>2. TInv /\ CountsInv /\ [Next]_vars => (TInv /\ CountsInv)'
  BY TypeStep, CountsStep
<1>3. QED
  BY <1>1, <1>2, CountedOnce, PTL DEF Spec

\* As in Learning, where the sources keep ingests of one identity apart, no
\* lesson ever counts more than the evidence stored for it: apart turns FALSE
\* only on a step that leaves two ingests with one identity.
THEOREM ApartCountsOnce == Spec /\ []LP!Apart => []L!CountsStoredEvidence
<1>1. ASSUME TInv, apart, LP!Apart', [Next]_vars PROVE apart'
  <2>1. ASSUME NEW c \in Callers, IngestBegins(c) PROVE apart'
    <3>1. SUFFICES ASSUME run[c].signal.identity # None, Ingesting(run[c].signal.identity)
                   PROVE  FALSE
      BY <1>1, <2>1 DEF IngestBegins
    <3>2. PICK d \in Callers : call[d].evidence # None
                              /\ call[d].evidence.identity = run[c].signal.identity
      BY <3>1 DEF Ingesting
    <3>3. call[c].evidence = None /\ Step(c)
      BY <1>1, <2>1 DEF IngestBegins, AtHook, L!Idle, Step
    <3>4. call'[c].evidence # None /\ call'[c].evidence.identity = run[c].signal.identity
      <4>1. LP!TInv'
        BY <1>1, LearningStep
      <4>2. call'[c].pc # "idle"
        BY <1>1, <2>1, RunTypes DEF IngestBegins, L!Deliver, L!GoOn
      <4>3. call'[c].evidence \in LP!Evidence
        BY <4>1, <4>2 DEF LP!TInv, LP!Shape, LP!Idle
      <4>4. QED
        BY <1>1, <2>1, <4>3, SameData, LearningAssumption, IngestSteps DEF Ingests, Carries
    <3>5. c # d /\ call'[d] = call[d]
      BY <1>1, <3>2, <3>3, OtherCallers
    <3>6. QED
      BY <1>1, <3>1, <3>2, <3>4, <3>5 DEF LP!Apart, LP!SharesIdentity
  <2>2. ASSUME NEW c \in Callers, Step(c) PROVE apart'
    BY <1>1, <2>1, <2>2, HistorySteps
  <2>3. CASE Attach \/ Crash \/ UNCHANGED vars
    BY <1>1, <2>3 DEF Attach, Crash, history, vars
  <2>4. QED
    BY <1>1, <2>2, <2>3 DEF Next
<1>2. Init => apart
  BY DEF Init
<1>3. TInv /\ apart /\ LP!Apart' /\ [Next]_vars => apart'
  BY <1>1
<1>4. apart /\ ToolCallsCountOnce => L!CountsStoredEvidence
  BY DEF ToolCallsCountOnce
<1>5. QED
  BY <1>2, <1>3, <1>4, TypeInductive, CallsCountOnce, PTL DEF Spec

-----------------------------------------------------------------------------
(* What a skill is drafted from was asked for. *)

LEMMA AskedGrows == [Next]_vars => asked \subseteq asked'
<1>1. ASSUME NEW c \in Callers, Step(c) PROVE asked \subseteq asked'
  BY <1>1 DEF Step, ToolCall, Extracted, ApplicationReturns, ApplicationThrows, NothingToIngest,
     IngestBegins, IngestGoesOn, IngestReturnsNoLesson, IngestThrows, IngestReturnsLesson,
     Promoted, history
<1>2. QED
  BY <1>1 DEF Next, Attach, Crash, history, vars

\* A signal that asks for a skill has been asked for, whoever still works on it.
LEMMA SignalsAsked ==
  ASSUME TInv, AskedInv, [Next]_vars, NEW d \in Callers, run'[d].signal # None,
         AsksForSkill(run'[d].signal)
  PROVE  run'[d].signal.statement \in asked'
<1>1. ASSUME run[d].signal = run'[d].signal PROVE run'[d].signal.statement \in asked'
  BY <1>1, AskedGrows DEF AskedInv
<1>2. ASSUME NEW c \in Callers, Step(c) PROVE run'[d].signal.statement \in asked'
  <2>1. CASE Begins(c) /\ d = c
    BY <2>1 DEF Begins
  <2>2. CASE ~(Begins(c) /\ d = c)
    BY <1>1, <1>2, <2>2, SignalStays
  <2>3. QED
    BY <2>1, <2>2
<1>3. CASE Crash
  BY <1>3 DEF Crash, NotRunning
<1>4. CASE Attach \/ UNCHANGED vars
  BY <1>1, <1>4, OtherSteps
<1>5. QED
  BY <1>2, <1>3, <1>4 DEF Next

\* What a merge makes of a lesson was asked for where either side was.
LEMMA MergedAsked ==
  ASSUME TInv, AskedInv, NEW c \in Callers, call[c].pc = "merge"
  PROVE  LET k == call[c]
         IN DraftAsked(LP!mergeLesson(k.previous, k.evidence, k.action, k.superseded),
                       k.evidence.statement)
<1> DEFINE k == call[c]
           e == k.evidence
           before == LP!OrElse(k.previous, LP!NoLesson(e))
           merged == LP!mergeLesson(k.previous, e, k.action, k.superseded)
<1>1. k # L!Idle
  BY DEF L!Idle
<1>2. Carries(k, run[c].signal) /\ run[c].signal # None
  BY <1>1, RunTypes DEF Runs, NotRunning
<1>3. AsksForSkill(run[c].signal) => e.statement \in asked
  BY <1>2 DEF AskedInv, Carries
<1>4. DraftAsked(k.previous, e.statement)
  BY DEF AskedInv, CopiesAsked
<1>5. merged.kind = before.kind /\ merged.action = LP!OrElse(k.action, before.action)
  BY DEF LP!mergeLesson
<1>6. None \notin SkillActions
  BY LearningAssumption DEF SkillActions, L!SuggestedAction
<1>7. k.action \in SkillActions => AsksForSkill(run[c].signal)
  BY <1>2 DEF Carries, AsksForSkill
<1>8. CASE k.previous # None
  <2>1. before = k.previous
    BY <1>8 DEF LP!OrElse
  <2>2. QED
    BY <1>3, <1>4, <1>5, <1>7, <1>8, <2>1 DEF DraftAsked, Drafts, LP!OrElse
<1>9. CASE k.previous = None
  <2>1. before.kind = LP!lessonKindFromEvidence(e.kind) /\ before.action = None
    BY <1>9 DEF LP!OrElse, LP!NoLesson
  <2>2. merged.kind = "procedure" => e.kind = "procedure"
    BY <1>5, <2>1 DEF LP!lessonKindFromEvidence
  <2>3. e.kind = "procedure" => AsksForSkill(run[c].signal)
    BY <1>2 DEF Carries, AsksForSkill
  <2>4. merged.action \in SkillActions => k.action \in SkillActions
    BY <1>5, <1>6, <2>1 DEF LP!OrElse
  <2>5. QED
    BY <1>3, <1>7, <2>2, <2>3, <2>4 DEF DraftAsked, Drafts
<1>10. QED
  BY <1>8, <1>9

LEMMA LessonsAsked ==
  ASSUME TInv, AskedInv, [Next]_vars, NEW s \in Statements
  PROVE  DraftAsked(lessons[s], s)'
<1>1. SUFFICES ASSUME Drafts(lessons'[s]) PROVE s \in asked
  BY AskedGrows DEF DraftAsked, Drafts
<1>2. LP!TInv /\ lessons \in [Statements -> LP!Lesson \cup {None}]
  BY DEF TInv, LP!TInv, LP!TypeOK
<1>3. DraftAsked(lessons[s], s)
  BY DEF AskedInv
<1>4. CASE lessons' = lessons
  BY <1>1, <1>3, <1>4 DEF DraftAsked, Drafts
<1>5. ASSUME NEW c \in Callers, call[c].pc = "supersede", lessons' = LP!Superseding(call[c])
      PROVE  s \in asked
  <2> DEFINE k == call[c]
             out == [k.old EXCEPT !.status = "superseded"]
  <2>1. k.old \in LP!Lesson /\ k.contradicts \in Statements
    BY <1>2, <1>5 DEF LP!TInv, LP!Shape, LP!Idle
  <2>2. k.old # None
    BY <2>1, SameData, LearningAssumption
  <2>3. DraftAsked(k.old, k.contradicts)
    BY <1>5 DEF AskedInv, CopiesAsked
  <2>4. out.kind = k.old.kind /\ out.action = k.old.action
    BY <2>1 DEF LP!Lesson
  <2>5. lessons'[s] = IF s = k.contradicts THEN out ELSE lessons[s]
    BY <1>2, <1>5, <2>1 DEF LP!Superseding
  <2>6. CASE s = k.contradicts
    BY <1>1, <2>2, <2>3, <2>4, <2>5, <2>6 DEF DraftAsked, Drafts
  <2>7. CASE s # k.contradicts
    BY <1>1, <1>3, <2>5, <2>7 DEF DraftAsked, Drafts
  <2>8. QED
    BY <2>6, <2>7
<1>6. ASSUME NEW c \in Callers, call[c].pc = "merge", lessons' = LP!Merging(call[c])
      PROVE  s \in asked
  <2> DEFINE k == call[c]
             merged == LP!mergeLesson(k.previous, k.evidence, k.action, k.superseded)
  <2>1. DraftAsked(merged, k.evidence.statement)
    BY <1>6, MergedAsked
  <2>2. lessons'[s] = IF s = k.evidence.statement THEN merged ELSE lessons[s]
    BY <1>2, <1>6 DEF LP!Merging
  <2>3. CASE s = k.evidence.statement
    BY <1>1, <2>1, <2>2, <2>3 DEF DraftAsked, Drafts
  <2>4. CASE s # k.evidence.statement
    BY <1>1, <1>3, <2>2, <2>4 DEF DraftAsked, Drafts
  <2>5. QED
    BY <2>3, <2>4
<1>7. CASE [LP!Next]_(LP!vars)
  BY <1>2, <1>4, <1>5, <1>6, <1>7, LP!LessonSteps, LearningAssumptions
<1>8. CASE Quiet
  BY <1>4, <1>8 DEF Quiet
<1>9. QED
  BY <1>7, <1>8, LearningSteps

LEMMA CopiesAskedAgain ==
  ASSUME TInv, AskedInv, [Next]_vars, NEW c \in Callers
  PROVE  CopiesAsked(call[c])'
<1>1. asked \subseteq asked'
  BY AskedGrows
<1>2. LP!TInv
  BY DEF TInv
<1>4. CopiesAsked(call[c]) /\ \A s \in Statements : DraftAsked(lessons[s], s)
  BY DEF AskedInv
<1>5. CASE [LP!Next]_(LP!vars)
  <2>1. /\ call'[c].pc \in {"find", "supersede", "merge"} =>
             /\ call'[c].evidence = call[c].evidence
             /\ call[c].pc # "idle"
             /\ \/ /\ call[c].pc \in {"find", "supersede", "merge"}
                   /\ call'[c].previous = call[c].previous
                \/ call'[c].previous = lessons[call[c].evidence.statement]
        /\ call'[c].pc = "supersede" =>
             /\ call'[c].contradicts = call[c].contradicts
             /\ call[c].contradicts \in Statements
             /\ \/ call[c].pc = "supersede" /\ call'[c].old = call[c].old
                \/ call'[c].old = lessons[call[c].contradicts]
    BY <1>2, <1>5, LP!CopySteps, LearningAssumptions
  <2>2. call[c].pc # "idle" => call[c].evidence.statement \in Statements
    BY <1>2, LP!HasEvidence, LearningAssumptions
  <2>3. call'[c].pc \in {"find", "supersede", "merge"} =>
          DraftAsked(call'[c].previous, call'[c].evidence.statement)
    BY <1>4, <2>1, <2>2 DEF CopiesAsked
  <2>4. call'[c].pc = "supersede" => DraftAsked(call'[c].old, call'[c].contradicts)
    BY <1>4, <2>1 DEF CopiesAsked
  <2>5. QED
    BY <1>1, <2>3, <2>4 DEF CopiesAsked, DraftAsked, Drafts
<1>6. CASE Quiet
  <2>1. call' = call
    BY <1>6 DEF Quiet
  <2>2. QED
    BY <1>1, <1>4, <2>1 DEF CopiesAsked, DraftAsked, Drafts
<1>7. QED
  BY <1>5, <1>6, LearningSteps

LEMMA AskedInit == Init => AskedInv
BY DEF Init, L!Init, L!Idle, NotRunning, AskedInv, CopiesAsked, DraftAsked, Drafts

LEMMA AskedStep == TInv /\ AskedInv /\ [Next]_vars => AskedInv'
<1> SUFFICES ASSUME TInv, AskedInv, [Next]_vars PROVE AskedInv'
  OBVIOUS
<1>1. ASSUME NEW c \in Callers
      PROVE  (run[c].signal # None /\ AsksForSkill(run[c].signal)
                => run[c].signal.statement \in asked)'
  BY SignalsAsked
<1>2. ASSUME NEW c \in Callers PROVE CopiesAsked(call[c])'
  BY CopiesAskedAgain
<1>3. ASSUME NEW s \in Statements PROVE DraftAsked(lessons[s], s)'
  BY LessonsAsked
<1>4. QED
  BY <1>1, <1>2, <1>3 DEF AskedInv

-----------------------------------------------------------------------------
(* What is published was earned. *)

\* Stored evidence stays stored, as long as ingests are apart.
LEMMA EvidenceStays ==
  ASSUME TInv, CountsInv, apart, [Next]_vars
  PROVE  evidence \subseteq evidence'
<1>1. LP!TInv /\ LP!Ids
  BY DEF TInv, CountsInv
<1>2. CASE [LP!Next]_(LP!vars)
  BY <1>1, <1>2, LP!EvidenceGrows, LearningAssumptions
<1>3. CASE Quiet
  BY <1>3 DEF Quiet
<1>4. QED
  BY <1>2, <1>3, LearningSteps

LEMMA EarnedStays ==
  ASSUME TInv, CountsInv, [Next]_vars, NEW s, Earned(s)
  PROVE  Earned(s)'
<1>1. ASSUME apart' PROVE Cardinality(L!EvidenceOf(s)') >= L!Threshold
  <2>1. apart
    BY <1>1, ApartBefore
  <2>2. L!EvidenceOf(s) \in SUBSET L!EvidenceOf(s)' /\ L!EvidenceOf(s)' \in SUBSET evidence'
    BY <2>1, EvidenceStays DEF L!EvidenceOf
  <2>3. IsFiniteSet(evidence')
    BY <1>1, CountsStep, SameCardinality DEF CountsInv, LP!Ids
  <2>4. Cardinality(L!EvidenceOf(s)) <= Cardinality(L!EvidenceOf(s)')
        /\ IsFiniteSet(L!EvidenceOf(s)) /\ IsFiniteSet(L!EvidenceOf(s)')
    BY <2>2, <2>3, FS_Subset
  <2>5. Cardinality(L!EvidenceOf(s)) >= L!Threshold
    BY <2>1 DEF Earned
  <2>6. QED
    BY <2>4, <2>5, FS_CardinalityType, LearningAssumption DEF L!Threshold
<1>2. s \in asked'
  BY AskedGrows DEF Earned
<1>3. QED
  BY <1>1, <1>2 DEF Earned, L!Threshold

LEMMA CountedAfter == TInv' /\ CountsInv' => ToolCallsCountOnce'
BY CountedOnce, PTL

\* An accepted lesson that a merge has just written has the evidence for it.
LEMMA AcceptedIsEarned ==
  ASSUME TInv, TInv', CountsInv', AskedInv', NEW c \in Callers, IngestReturnsLesson(c),
         NEW s, s = call[c].evidence.statement, shouldDraftSkill(lessons'[s])
  PROVE  Earned(s)'
<1> DEFINE k == call[c]
           before == LP!OrElse(k.previous, LP!NoLesson(k.evidence))
           merged == LP!mergeLesson(k.previous, k.evidence, k.action, k.superseded)
<1>1. LP!TInv /\ LP!Merge(c)
  BY SameSteps DEF TInv, IngestReturnsLesson
<1>2. k.pc = "merge" /\ lessons' = LP!Merging(k)
  BY <1>1 DEF LP!Merge
<1>3. k \in LP!Call /\ k.evidence \in LP!Evidence /\ s \in Statements
  BY <1>1, <1>2, LP!HasEvidence, LearningAssumptions
<1>4. lessons'[s] = merged
  BY <1>1, <1>2, <1>3 DEF LP!Merging, LP!TInv, LP!TypeOK
<1>5. merged # None /\ merged.occurrenceCount = before.occurrenceCount + 1
  <2>1. /\ k.previous \in LP!Lesson \cup {None}
        /\ k.action \in LP!SuggestedAction \cup {None}
        /\ k.superseded \in Statements \cup {None}
    BY <1>3 DEF LP!Call
  <2>2. QED
    BY <1>3, <2>1, LP!MergedLesson, LearningAssumptions
<1>6. merged.status = "accepted"
  BY <1>4 DEF shouldDraftSkill
<1>7. merged.occurrenceCount >= L!Threshold
  <2>1. merged.status = LP!nextLessonStatus(k.evidence.learnable, before.occurrenceCount + 1,
                                            before.status)
    BY DEF LP!mergeLesson
  <2>2. k.evidence.learnable \in BOOLEAN
    BY <1>3 DEF LP!Evidence
  <2>3. before.occurrenceCount + 1 >= LP!Threshold
    BY <1>6, <2>1, <2>2 DEF LP!nextLessonStatus
  <2>4. QED
    BY <1>5, <2>3, SameData
<1>8. apart' => lessons'[s].occurrenceCount <= Cardinality(L!EvidenceOf(s)')
  BY <1>3, <1>4, <1>5, CountedAfter, SameCardinality
     DEF ToolCallsCountOnce, L!CountsStoredEvidence
<1>9. s \in asked'
  <2>1. Drafts(lessons'[s])
    BY <1>4, <1>5 DEF Drafts, shouldDraftSkill
  <2>2. QED
    BY <1>3, <2>1 DEF AskedInv, DraftAsked
<1>10. ASSUME apart' PROVE Cardinality(L!EvidenceOf(s)') >= L!Threshold
  <2>1. lessons'[s].occurrenceCount \in Nat
    <3>1. lessons'[s] \in LP!Lesson
      BY <1>3, <1>4, <1>5 DEF TInv, LP!TInv, LP!TypeOK
    <3>2. QED
      BY <3>1 DEF LP!Lesson
  <2>2. IsFiniteSet(L!EvidenceOf(s)')
    <3>1. IsFiniteSet(evidence') /\ L!EvidenceOf(s)' \in SUBSET evidence'
      BY <1>10, SameCardinality DEF CountsInv, LP!Ids, L!EvidenceOf
    <3>2. QED
      BY <3>1, FS_Subset
  <2>3. Cardinality(L!EvidenceOf(s)') \in Nat /\ L!Threshold \in Nat
    BY <2>2, FS_CardinalityType, LearningAssumption DEF L!Threshold
  <2>4. QED
    BY <1>4, <1>7, <1>8, <1>10, <2>1, <2>3
<1>11. QED
  BY <1>9, <1>10 DEF Earned, L!Threshold

LEMMA EvolutionStays == [Next]_vars => evolution' = evolution
<1>1. ASSUME NEW c \in Callers, Step(c) PROVE evolution' = evolution
  BY <1>1 DEF Step, ToolCall, Extracted, ApplicationReturns, ApplicationThrows, NothingToIngest,
     IngestBegins, IngestGoesOn, IngestReturnsNoLesson, IngestThrows, IngestReturnsLesson,
     Promoted
<1>2. QED
  BY <1>1 DEF Next, Attach, Crash, vars

\* What is published in a step was being promoted before it.
LEMMA PublishedSteps ==
  ASSUME TInv, [Next]_vars, NEW p \in published', p \notin published
  PROVE  \E c \in Callers :
           /\ run[c].promoting # None /\ p.statement = run[c].promoting
           /\ evolution.improvement.autonomy >= HOBBY_SKILL_AUTONOMY
           /\ ~p.structural
<1>1. ASSUME NEW c \in Callers, Step(c)
      PROVE  /\ run[c].promoting # None /\ p.statement = run[c].promoting
             /\ evolution.improvement.autonomy >= HOBBY_SKILL_AUTONOMY
             /\ ~p.structural
  <2>1. Promoted(c)
    BY <1>1, HistorySteps
  <2>2. run[c].promoting # None
    BY <2>1 DEF Promoted
  <2>3. PICK proposal \in Proposals, e \in Evaluations(evolution.improvement) :
          /\ PublishesAlone(evolution.improvement, proposal, e)
          /\ published' = published \cup
               {[statement |-> run[c].promoting, structural |-> e.structural]}
    BY <2>1 DEF Promoted
  <2>4. evolution.improvement \in ImprovementRuntime /\ proposal \in Traits
    BY <2>2, LoopRuntime DEF Proposals
  <2>5. evolution.improvement.autonomy >= HOBBY_SKILL_AUTONOMY /\ ~e.structural
    BY <2>3, <2>4, AloneIsEarned
  <2>6. p = [statement |-> run[c].promoting, structural |-> e.structural]
    BY <2>3
  <2>7. QED
    BY <2>2, <2>5, <2>6
<1>2. ASSUME Attach \/ Crash \/ UNCHANGED vars PROVE FALSE
  BY <1>2 DEF Attach, Crash, history, vars
<1>3. QED
  BY <1>1, <1>2 DEF Next

LEMMA EarnedInit == Init => EarnedInv
BY DEF Init, EarnedInv, PublishedIsEarned, NotRunning

LEMMA EarnedStep ==
  /\ TInv /\ TInv' /\ CountsInv /\ CountsInv' /\ AskedInv'
  /\ EarnedInv /\ [Next]_vars
  => EarnedInv'
<1> SUFFICES ASSUME TInv, TInv', CountsInv, CountsInv', AskedInv', EarnedInv, [Next]_vars
             PROVE  EarnedInv'
  OBVIOUS
<1>1. ASSUME NEW d \in Callers, NEW s, s = run'[d].promoting, s # None PROVE Earned(s)'
  <2>1. ASSUME run'[d] = run[d] PROVE Earned(s)'
    <3>1. Earned(s)
      BY <1>1, <2>1 DEF EarnedInv
    <3>2. QED
      BY <3>1, EarnedStays
  <2>2. ASSUME NEW c \in Callers, Step(c) PROVE Earned(s)'
    BY <1>1, <2>1, <2>2, PromotionSteps, AcceptedIsEarned
  <2>3. CASE Crash
    BY <1>1, <2>3 DEF Crash, NotRunning
  <2>4. CASE Attach \/ UNCHANGED vars
    BY <2>1, <2>4, OtherSteps
  <2>5. QED
    BY <2>2, <2>3, <2>4 DEF Next
<1>2. ASSUME NEW p \in published', NEW s, s = p.statement
      PROVE  /\ Earned(s)'
             /\ evolution'.improvement.autonomy >= HOBBY_SKILL_AUTONOMY
             /\ ~p.structural
  <2>1. CASE p \in published
    <3>1. Earned(s) /\ evolution.improvement.autonomy >= HOBBY_SKILL_AUTONOMY /\ ~p.structural
      BY <1>2, <2>1 DEF EarnedInv, PublishedIsEarned, Earned
    <3>2. QED
      BY <3>1, EarnedStays, EvolutionStays
  <2>2. CASE p \notin published
    <3>1. PICK c \in Callers :
            /\ run[c].promoting # None /\ p.statement = run[c].promoting
            /\ evolution.improvement.autonomy >= HOBBY_SKILL_AUTONOMY
            /\ ~p.structural
      BY <2>2, PublishedSteps
    <3>2. Earned(s)
      BY <1>2, <3>1 DEF EarnedInv
    <3>3. QED
      BY <3>1, <3>2, EarnedStays, EvolutionStays
  <2>3. QED
    BY <2>1, <2>2
<1>3. PublishedIsEarned'
  BY <1>2 DEF PublishedIsEarned, Earned
<1>4. QED
  BY <1>1, <1>3 DEF EarnedInv

\* However an evolution was put together, and whatever overlaps or fails: what
\* it publishes with nobody asked was brought as a skill by an extractor, and
\* passed on more than its structure at an autonomy that allows it; and it was
\* accepted on AcceptThreshold stored pieces of evidence, unless a source has
\* brought an identity again while that was being ingested.
THEOREM PublishedWasEarned == Spec => []PublishedIsEarned
<1>1. Init => TInv /\ CountsInv /\ AskedInv /\ EarnedInv
  BY TypeInit, CountsInit, AskedInit, EarnedInit
<1>2. TInv /\ CountsInv /\ AskedInv /\ EarnedInv /\ [Next]_vars
        => (TInv /\ CountsInv /\ AskedInv /\ EarnedInv)'
  BY TypeStep, CountsStep, AskedStep, EarnedStep
<1>3. EarnedInv => PublishedIsEarned
  BY DEF EarnedInv
<1>4. QED
  BY <1>1, <1>2, <1>3, PTL DEF Spec

-----------------------------------------------------------------------------
(* Failed calls are in the store. *)

\* Evidence is only ever replaced by evidence of the same identity, so that an
\* identity stays stored whatever overlaps.
LEMMA IdentityStays ==
  ASSUME TInv, [Next]_vars, NEW i, StoredIdentity(i)
  PROVE  StoredIdentity(i)'
<1>1. PICK e \in evidence : e.identity = i
  BY DEF StoredIdentity
<1>2. ASSUME NEW f, evidence' = LP!Stored(f) PROVE StoredIdentity(i)'
  <2>1. CASE LP!SharesIdentity(f, e)
    BY <1>1, <1>2, <2>1 DEF LP!SharesIdentity, LP!Stored, StoredIdentity
  <2>2. CASE ~LP!SharesIdentity(f, e)
    BY <1>1, <1>2, <2>2 DEF LP!Stored, StoredIdentity
  <2>3. QED
    BY <2>1, <2>2
<1>3. ASSUME evidence' = evidence PROVE StoredIdentity(i)'
  BY <1>1, <1>3 DEF StoredIdentity
<1>4. CASE [LP!Next]_(LP!vars)
  BY <1>2, <1>3, <1>4, LP!EvidenceWrites, LearningAssumptions
<1>5. CASE Quiet
  BY <1>3, <1>5 DEF Quiet
<1>6. QED
  BY <1>4, <1>5, LearningSteps

\* The identity of an ingest is that of its caller's signal.
LEMMA IngestIdentity ==
  ASSUME TInv, NEW c \in Callers, call[c] # L!Idle
  PROVE  call[c].evidence.identity = run[c].signal.identity
BY RunTypes DEF Runs, Carries

\* An ingest that aggregates after a step did before it, or has just stored its
\* evidence.
LEMMA AggregatingSteps ==
  ASSUME TInv, NEW c \in Callers, Step(c), NEW d \in Callers,
         call'[d].pc \in LP!Aggregating
  PROVE  /\ run'[d] = run[d]
         /\ call[d] # L!Idle
         /\ call[d].pc \in LP!Aggregating \/ call[d].evidence \in evidence'
<1>1. call'[d] # L!Idle /\ call'[d] # LP!Idle
  BY DEF L!Idle, LP!Idle, LP!Aggregating
<1>2. run'[d] = run[d]
  <2>1. CASE d # c
    BY <2>1, OtherCallers
  <2>2. CASE d = c
    BY <1>1, <2>2, CallerSteps DEF Begins, Over, NextHook, Returns, Ingests
  <2>3. QED
    BY <2>1, <2>2
<1>3. /\ call[d].pc # "idle"
      /\ call[d].pc \in LP!Aggregating \/ call[d].evidence \in evidence'
  <2>1. CASE [LP!Next]_(LP!vars)
    BY <1>1, <2>1, LP!CallSteps, LearningAssumptions DEF TInv, LP!Aggregating
  <2>2. CASE Quiet
    BY <2>2 DEF Quiet, LP!Aggregating
  <2>3. QED
    BY <2>1, <2>2, LearningSteps DEF Next
<1>4. QED
  BY <1>2, <1>3 DEF L!Idle

LEMMA KeptStep ==
  ASSUME TInv, KeptInv, [Next]_vars
  PROVE  KeptInv'
<1> SUFFICES ASSUME NEW d \in Callers,
                    call'[d].pc \in LP!Aggregating \/ run'[d].promoting # None,
                    NEW i, i = run'[d].signal.identity, i # None
             PROVE  StoredIdentity(i)'
  BY DEF KeptInv
<1>1. ASSUME run'[d] = run[d], call[d].pc \in LP!Aggregating \/ run[d].promoting # None
      PROVE  StoredIdentity(i)'
  BY <1>1, IdentityStays DEF KeptInv
<1>2. ASSUME NEW c \in Callers, Step(c) PROVE StoredIdentity(i)'
  <2>1. CASE call'[d].pc \in LP!Aggregating
    <3>1. run'[d] = run[d] /\ call[d].evidence.identity = i
      BY <1>2, <2>1, AggregatingSteps, IngestIdentity
    <3>2. CASE call[d].pc \in LP!Aggregating
      BY <1>1, <3>1, <3>2
    <3>3. CASE call[d].evidence \in evidence'
      BY <3>1, <3>3 DEF StoredIdentity
    <3>4. QED
      BY <1>2, <2>1, <3>2, <3>3, AggregatingSteps
  <2>2. CASE run'[d].promoting # None
    <3>1. CASE d # c /\ run'[d] = run[d]
      BY <1>1, <2>2, <3>1
    <3>2. CASE d = c /\ IngestReturnsLesson(c) /\ run'[c].signal = run[c].signal
      <4>1. call[c].pc \in LP!Aggregating
        BY <3>2 DEF IngestReturnsLesson, L!Merge, LP!Aggregating
      <4>2. StoredIdentity(i)
        BY <3>2, <4>1 DEF KeptInv
      <4>3. QED
        BY <4>2, IdentityStays
    <3>3. QED
      BY <1>2, <2>2, <3>1, <3>2, PromotionSteps
  <2>3. QED
    BY <2>1, <2>2
<1>3. CASE Crash
  BY <1>3 DEF Crash, NotRunning, L!Idle, LP!Aggregating
<1>4. CASE Attach \/ UNCHANGED vars
  BY <1>1, <1>4, OtherSteps
<1>5. QED
  BY <1>2, <1>3, <1>4 DEF Next

\* Evolution's hook ends without an error on a failed call: what it was read
\* as is stored, and is a name of the call.
LEMMA DoneIsStored ==
  ASSUME TInv, KeptInv, NEW c \in Callers, Step(c), EndsWell(c),
         Head(run[c].todo) = "evolution", run[c].failed, evolution.learning # None,
         run[c].names # {}
  PROVE  \E i \in run[c].names : StoredIdentity(i)'
<1> DEFINE i == run[c].signal.identity
<1>1. i \in run[c].names /\ i # None
  <2>1. i \in run[c].names /\ run[c].names \in SUBSET Identities
    BY RunTypes DEF Runs, Run
  <2>2. QED
    BY <2>1, LearningAssumption
<1>2. [Next]_vars
  BY DEF Next
<1>3. CASE IngestReturnsLesson(c)
  <2>1. call[c].pc \in LP!Aggregating
    BY <1>3 DEF IngestReturnsLesson, L!Merge, LP!Aggregating
  <2>2. StoredIdentity(i)
    BY <1>1, <2>1 DEF KeptInv
  <2>3. QED
    BY <1>1, <1>2, <2>2, IdentityStays
<1>4. CASE Promoted(c)
  <2>1. StoredIdentity(i)
    BY <1>1, <1>4 DEF Promoted, KeptInv
  <2>2. QED
    BY <1>1, <1>2, <2>1, IdentityStays
<1>5. CASE IngestReturnsNoLesson(c)
  <2>1. call[c].evidence.identity = i
    BY <1>5, ReturnSteps, IngestIdentity
  <2>2. CASE L!Duplicate(c)
    BY <1>1, <2>1, <2>2 DEF L!Duplicate, L!Known, L!SharesIdentity, StoredIdentity
  <2>3. CASE L!StoreEvidence(c)
    BY <1>1, <2>1, <2>3 DEF L!StoreEvidence, L!Stored, StoredIdentity
  <2>4. QED
    BY <1>5, <2>2, <2>3 DEF IngestReturnsNoLesson
<1>6. CASE ApplicationReturns(c) \/ NothingToIngest(c)
  BY <1>6 DEF ApplicationReturns, NothingToIngest, AtHook
<1>7. QED
  BY <1>3, <1>4, <1>5, <1>6 DEF EndsWell

LEMMA FailuresInit == Init => FailuresInv
BY DEF Init, L!Init, L!Idle, FailuresInv, KeptInv, FailuresAreStored, NotRunning, LP!Aggregating

LEMMA FailuresStep == TInv /\ FailuresInv /\ [Next]_vars => FailuresInv'
<1> SUFFICES ASSUME TInv, KeptInv, FailuresAreStored, [Next]_vars PROVE FailuresInv'
  BY DEF FailuresInv
<1>1. KeptInv'
  BY KeptStep
<1>2. ASSUME NEW names \in handled' PROVE \E i \in names : StoredIdentity(i)'
  <2>1. CASE names \in handled
    <3>1. PICK i \in names : StoredIdentity(i)
      BY <2>1 DEF FailuresAreStored, StoredIdentity
    <3>2. QED
      BY <3>1, IdentityStays
  <2>2. CASE names \notin handled
    <3>1. ASSUME NEW c \in Callers, Step(c) PROVE \E i \in names : StoredIdentity(i)'
      <4>1. EndsWell(c)
        BY <1>2, <2>2, <3>1, HistorySteps
      <4>2. /\ Head(run[c].todo) = "evolution" /\ run[c].failed /\ evolution.learning # None
            /\ names = run[c].names /\ names # {}
        BY <1>2, <2>2, <4>1, Handles DEF EndsWell
      <4>3. QED
        BY <3>1, <4>1, <4>2, DoneIsStored
    <3>2. ASSUME Crash \/ Attach \/ UNCHANGED vars PROVE FALSE
      BY <1>2, <2>2, <3>2 DEF Crash, Attach, history, vars
    <3>3. QED
      BY <3>1, <3>2 DEF Next
  <2>3. QED
    BY <2>1, <2>2
<1>3. FailuresAreStored'
  BY <1>2 DEF FailuresAreStored, StoredIdentity
<1>4. QED
  BY <1>1, <1>3 DEF FailuresInv

\* A failed tool call that carries an identity is stored under one it carries
\* once evolution's hook is done with it without an error, whatever overlaps,
\* fails or dies, and stays stored.
THEOREM FailuresWereStored == Spec => []FailuresAreStored
<1>1. FailuresInv => FailuresAreStored
  BY DEF FailuresInv
<1>2. QED
  BY <1>1, TypeInit, TypeStep, FailuresInit, FailuresStep, PTL DEF Spec
=============================================================================
