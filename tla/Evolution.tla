----------------------------- MODULE Evolution -----------------------------
(***************************************************************************)
(* An evolution at work (packages/adapters/src): the hooks that            *)
(* createMastraEvolution leaves in a workspace or merges into a call, the  *)
(* extractors, the ingests of Learning that they begin, and the promotion  *)
(* of accepted lessons.  Assembly says what was put together; AutoPromotion *)
(* has the promotion itself, of which only the publication is kept here.   *)
(*                                                                         *)
(* Tool calls overlap, each running its hooks one after the other.  Given  *)
(* runtimes use the store that is given with them, and a second evolution  *)
(* is attached only where it has the same store: two LocalEvolutionStore   *)
(* of one directory are not modelled.                                      *)
(*                                                                         *)
(* A call or a payload may come again while the first is being ingested:   *)
(* no hook asks.  The history variable apart tells whether it ever did.    *)
(***************************************************************************)
EXTENDS Assembly, Sequences, FiniteSets

CONSTANTS
  Options,       \* what createMastraEvolution may be called with
  Contexts,      \* what Mastra hands to afterToolCall
  Payloads,      \* what extractors hand to onExtracted
  Unusable,      \* a field that is there and no string, or an empty one
  MaxAttached,   \* bound on the evolutions attached to the workspace
  \* as in Learning:
  Statements, Identities, Callers, Aggregates, AcceptThreshold, MaxEvidenceIds,
  MaxDeliveries, MaxFaults

VARIABLES
  evidence, lessons, call, deliveries, faults,  \* as in Learning
  evolution,  \* what was put together
  hooks,      \* the workspace's tools.hooks.afterToolCall, in the order they run
  attached,   \* evolutions attached to the workspace by this process
  run,        \* run[c]: the hooks caller c still has to run, and on what
  asked,      \* statements that an extractor has brought as a skill
  published,  \* skills published with nobody asked, and whether on structure alone
  handled,    \* names of the failed calls on which evolution's hook ran without an error
  apart       \* no ingest has begun yet while another one had its identity

L == INSTANCE Learning WITH Signals <- {}

learning == <<evidence, lessons, call, deliveries, faults>>
history == <<asked, published, handled, apart>>
vars == <<learning, evolution, hooks, attached, run, history>>

Hook == {"application", "evolution", "extractor"}

Field == Identities \cup {None, Unusable}

\* What the adapters read of a tool call: is it a failure (isToolFailure),
\* what its summary is, and the fields that name it, on it and on its memory
\* or agent.
Context == [failed : BOOLEAN, statement : Statements, learnable : BOOLEAN,
            own    : [sourceIdentity : Field, toolCallId : Field],
            nested : [sourceIdentity : Field, toolCallId : Field]]

\* What parseLearningSignal reads: anything may be missing, or not be what it
\* should be.
Payload == [kind : L!EvidenceKind \cup {Unusable}, statement : Statements,
            action : L!SuggestedAction \cup {"retain", None, Unusable},
            contradicts : Statements \cup {None}, learnable : BOOLEAN,
            sourceIdentity : Field]

ASSUME EvolutionAssumption ==
  /\ Options \subseteq Option
  /\ Contexts \subseteq Context
  /\ Payloads \subseteq Payload
  /\ MaxAttached \in Nat \ {0}
  /\ None \notin Workspace \cup Stores \cup ImprovementRuntime \cup LearningRuntime
  /\ Unusable \notin Identities \cup {None}

\* What Learning assumes of its constants, and None also stands for no signal.
ASSUME LearningAssumption ==
  /\ Aggregates \in BOOLEAN
  /\ AcceptThreshold \in Nat
  /\ MaxEvidenceIds \in Nat \ {0}
  /\ MaxDeliveries \in Nat /\ MaxFaults \in Nat
  /\ None \notin Statements \cup Identities \cup L!Evidence \cup L!Lesson
  /\ None \notin L!Signal \cup L!SuggestedAction

\* promoting: the accepted lesson that the ingest has handed on; names: what
\* the call is known by, which no hook reads.
Run == [todo      : Seq(Hook),
        failed    : BOOLEAN,
        signal    : L!Signal \cup {None},
        promoting : Statements \cup {None},
        names     : SUBSET Identities]

NotRunning == [todo |-> <<>>, failed |-> FALSE, signal |-> None, promoting |-> None,
               names |-> {}]

GoOn(c, next) == run' = [run EXCEPT ![c] = next]

-----------------------------------------------------------------------------
(* Reading what Mastra hands over. *)

\* provenanceFrom: the nested record's fields win, even unusable ones.
MergedField(context, field) ==
  IF context.nested[field] # None THEN context.nested[field] ELSE context.own[field]

\* stringField
Usable(field) == IF field \in Identities THEN field ELSE None

\* Mutant: the first field that is there is taken, usable or not.
sourceIdentityUnchecked(context) ==
  Usable(OrElse(MergedField(context, "sourceIdentity"), MergedField(context, "toolCallId")))

sourceIdentity(context) ==
  OrElse(Usable(MergedField(context, "sourceIdentity")),
         Usable(MergedField(context, "toolCallId")))

\* The identities that a call carries, where no nested field hides them.
NamesOf(context) ==
  {i \in Identities :
     \E field \in {"sourceIdentity", "toolCallId"} :
       \/ context.nested[field] = i
       \/ context.nested[field] = None /\ context.own[field] = i}

\* toolResultToEvidence
ToolSignal(context) ==
  [statement |-> context.statement, identity |-> sourceIdentity(context), kind |-> "failure",
   action |-> None, learnable |-> context.learnable, contradicts |-> None]

LearningSignalKinds ==
  {"correction", "failure", "missing-capability", "preference", "procedure", "success"}

\* parseLearningSignal, toSuggestedAction
Parsed(payload) ==
  IF payload.kind \notin LearningSignalKinds THEN None
  ELSE [statement   |-> payload.statement,
        identity    |-> Usable(payload.sourceIdentity),
        kind        |-> payload.kind,
        action      |-> IF payload.action \in L!SuggestedAction THEN payload.action ELSE None,
        learnable   |-> payload.learnable,
        contradicts |-> payload.contradicts]

SkillActions == {"create-skill", "update-skill"}

AsksForSkill(signal) == signal.kind = "procedure" \/ signal.action \in SkillActions

\* shouldDraftSkill; the draft of such a lesson is taken to be valid.
shouldDraftSkill(lesson) ==
  /\ lesson.status = "accepted"
  /\ lesson.kind = "procedure" \/ lesson.action \in SkillActions

-----------------------------------------------------------------------------
(* Hooks. *)

\* Mutant: evolution's hook runs before the caller's.
ComposedFirst(caller) == <<"evolution">> \o caller

\* mergeCallHooks: the caller's hooks run first, then evolution's.
Composed(caller) == caller \o <<"evolution">>

\* attachWorkspaceHooks, of createMastraEvolution on a workspace that has
\* one already; setToolsConfig replaces what cannot be read.
Attach ==
  /\ evolution.hooked
  /\ attached < MaxAttached
  /\ attached = 0 \/ evolution.shared
  /\ attached' = attached + 1
  /\ hooks' = Composed(IF evolution.getter THEN hooks ELSE <<>>)
  /\ UNCHANGED <<learning, evolution, run, history>>

\* A tool has returned: a workspace tool, or one assigned to a call whose
\* options went through applyToCall, with or without a hook of the caller.
ToolCall(c) ==
  /\ run[c] = NotRunning
  /\ \E context \in Contexts, todo \in {hooks, Composed(<<>>), Composed(<<"application">>)} :
       /\ todo # <<>>
       /\ GoOn(c, [todo |-> todo, failed |-> context.failed, signal |-> ToolSignal(context),
                   promoting |-> None, names |-> NamesOf(context)])
  /\ UNCHANGED <<learning, evolution, hooks, attached, history>>

\* onExtracted, where there is an extractor.
Extracted(c) ==
  /\ run[c] = NotRunning
  /\ evolution.learning # None
  /\ \E payload \in Payloads :
       LET signal == Parsed(payload) IN
       /\ signal # None
       /\ GoOn(c, [todo |-> <<"extractor">>, failed |-> FALSE, signal |-> signal,
                   promoting |-> None, names |-> {}])
       /\ asked' = IF AsksForSkill(signal) THEN asked \cup {signal.statement} ELSE asked
  /\ UNCHANGED <<learning, evolution, hooks, attached, published, handled, apart>>

\* The hook at the head is over, and the next one follows.
HookOver(c) ==
  LET rest == Tail(run[c].todo) IN
  GoOn(c, IF rest = <<>> THEN NotRunning ELSE [run[c] EXCEPT !.todo = rest, !.promoting = None])

\* It is over without an error.
HookDone(c) ==
  /\ HookOver(c)
  /\ handled' = IF /\ Head(run[c].todo) = "evolution"
                   /\ run[c].failed /\ evolution.learning # None
                THEN handled \cup ({run[c].names} \ {{}})
                ELSE handled

AtHook(c, hook) ==
  /\ run[c].todo # <<>> /\ Head(run[c].todo) = hook
  /\ call[c] = L!Idle
  /\ run[c].promoting = None

ApplicationReturns(c) ==
  /\ AtHook(c, "application")
  /\ HookDone(c)
  /\ UNCHANGED <<learning, evolution, hooks, attached, asked, published, apart>>

\* Its error ends the composed hook.
ApplicationThrows(c) ==
  /\ AtHook(c, "application")
  /\ GoOn(c, NotRunning)
  /\ UNCHANGED <<learning, evolution, hooks, attached, history>>

\* afterToolCall: learning is off, or the tool succeeded.
NothingToIngest(c) ==
  /\ AtHook(c, "evolution")
  /\ evolution.learning = None \/ ~run[c].failed
  /\ HookDone(c)
  /\ UNCHANGED <<learning, evolution, hooks, attached, asked, published, apart>>

\* Mutant: evolution's hook is not awaited.
IngestBeginsUnawaited(c) ==
  /\ AtHook(c, "evolution") \/ AtHook(c, "extractor")
  /\ L!Deliver(c, run[c].signal)
  /\ HookDone(c)
  /\ UNCHANGED <<evolution, hooks, attached, asked, published, apart>>

Ingesting(identity) ==
  \E c \in Callers : call[c].evidence # None /\ call[c].evidence.identity = identity

\* Nothing keeps an ingest from beginning while another one has its identity.
IngestBegins(c) ==
  /\ \/ AtHook(c, "evolution") /\ evolution.learning # None /\ run[c].failed
     \/ AtHook(c, "extractor")
  /\ L!Deliver(c, run[c].signal)
  /\ apart' = (apart /\ (run[c].signal.identity = None \/ ~Ingesting(run[c].signal.identity)))
  /\ UNCHANGED <<evolution, hooks, attached, run, asked, published, handled>>

-----------------------------------------------------------------------------
(* Ingests and what follows them. *)

IngestGoesOn(c) ==
  /\ L!Fresh(c) \/ L!StoreEvidence(c) \/ L!ReadLesson(c) \/ L!FindContradicted(c)
       \/ L!Supersede(c)
  /\ call'[c] # L!Idle
  /\ UNCHANGED <<evolution, hooks, attached, run, history>>

\* A duplicate, or evidence that is not aggregated: no lesson is returned.
IngestReturnsNoLesson(c) ==
  /\ L!Duplicate(c) \/ L!StoreEvidence(c)
  /\ call'[c] = L!Idle
  /\ HookDone(c)
  /\ UNCHANGED <<evolution, hooks, attached, asked, published, apart>>

\* ingestSafely logs the error and swallows it: the next hook runs.
IngestThrows(c) ==
  /\ L!IngestFails(c)
  /\ HookOver(c)
  /\ UNCHANGED <<evolution, hooks, attached, history>>

\* promoteFromIngestResult is given the lesson that was just written.
IngestReturnsLesson(c) ==
  /\ L!Merge(c)
  /\ LET s == call[c].evidence.statement IN
       IF evolution.loop /\ shouldDraftSkill(lessons'[s])
       THEN GoOn(c, [run[c] EXCEPT !.promoting = s]) /\ UNCHANGED handled
       ELSE HookDone(c)
  /\ UNCHANGED <<evolution, hooks, attached, asked, published, apart>>

\* The loop's proposals: skills, of one agent, with or without sensitive text.
Proposals == {t \in Traits : t.target = "skill" /\ ~t.organization}

\* promote publishes the skill, or does something else or nothing with it: it
\* is settled, awaits approval, is rejected, or promote threw.
Promoted(c) ==
  /\ run[c].promoting # None
  /\ \/ \E proposal \in Proposals, e \in Evaluations(evolution.improvement) :
          /\ PublishesAlone(evolution.improvement, proposal, e)
          /\ published' = published \cup
               {[statement |-> run[c].promoting, structural |-> e.structural]}
     \/ UNCHANGED published
  /\ HookDone(c)
  /\ UNCHANGED <<learning, evolution, hooks, attached, asked, apart>>

\* The process dies; the next one assembles and attaches anew.
Crash ==
  /\ faults < MaxFaults
  /\ faults' = faults + 1
  /\ call' = [c \in Callers |-> L!Idle]
  /\ run' = [c \in Callers |-> NotRunning]
  /\ hooks' \in {<<>>, <<"application">>}
  /\ attached' = 0
  /\ UNCHANGED <<evidence, lessons, deliveries, evolution, history>>

Init ==
  /\ L!Init
  /\ \E o \in Options :
       /\ ~MissingWorkspace(o)
       /\ evolution = createMastraEvolution(o)
       /\ evolution.learning # None => Aggregates = (evolution.learning.autonomy > 0)
  /\ hooks \in {<<>>, <<"application">>}
  /\ attached = 0
  /\ run = [c \in Callers |-> NotRunning]
  /\ asked = {}
  /\ published = {}
  /\ handled = {}
  /\ apart = TRUE

Step(c) ==
  \/ ToolCall(c)
  \/ Extracted(c)
  \/ ApplicationReturns(c)
  \/ ApplicationThrows(c)
  \/ NothingToIngest(c)
  \/ IngestBegins(c)
  \/ IngestGoesOn(c)
  \/ IngestReturnsNoLesson(c)
  \/ IngestThrows(c)
  \/ IngestReturnsLesson(c)
  \/ Promoted(c)

Next == (\E c \in Callers : Step(c)) \/ Attach \/ Crash

Spec == Init /\ [][Next]_vars

-----------------------------------------------------------------------------
(* Properties. *)

\* Every variable holds a value of its type; what was put together can run,
\* and an ingest belongs to the hook its caller is at.
TypeOK ==
  /\ L!TypeOK
  /\ evolution \in Evolution
  /\ hooks \in Seq(Hook) /\ Len(hooks) <= MaxAttached + 1
  /\ attached \in 0..MaxAttached
  /\ run \in [Callers -> Run]
  /\ \A c \in Callers :
       call[c] # L!Idle \/ run[c].promoting # None =>
         run[c].todo # <<>> /\ Head(run[c].todo) \in {"evolution", "extractor"}
  /\ asked \subseteq Statements
  /\ published \subseteq [statement : Statements, structural : BOOLEAN]
  /\ handled \subseteq SUBSET Identities
  /\ apart \in BOOLEAN

\* However often evolutions are attached, whatever fails, and with tool calls
\* and extractions that overlap and come again: no lesson counts more than the
\* evidence stored for it, so what has an identity is counted once.  This takes
\* that no source brings an identity again while it is being ingested: isDuplicate
\* reads before either ingest has written, and the code lets both count.
ToolCallsCountOnce == apart => L!CountsStoredEvidence

\* An evolution hook of a call whose hooks have one of the application runs
\* only after it has returned: evolution sees the result last, and never when
\* the application's hook threw.
ApplicationRunsFirst ==
  \A c \in Callers :
    call[c] # L!Idle => "application" \notin {run[c].todo[i] : i \in DOMAIN run[c].todo}

\* However an evolution was put together: what it publishes with nobody asked
\* was brought as a skill by an extractor (failed tool calls alone make none),
\* at an autonomy that allows it and on more than the structure of the artifact;
\* and it was accepted on AcceptThreshold stored pieces of evidence, unless
\* ingests of one identity have overlapped and counted one piece twice.
PublishedIsEarned ==
  \A p \in published :
    /\ apart => Cardinality(L!EvidenceOf(p.statement)) >= L!Threshold
    /\ p.statement \in asked
    /\ evolution.improvement.autonomy >= HOBBY_SKILL_AUTONOMY
    /\ ~p.structural

\* A failed tool call that carries an identity is in the store, under one it
\* carries, once evolution's hook has run on it without logging an error, and
\* stays there: whatever overlaps, fails or dies before or after, however the
\* call's fields were laid out and however many hooks were there.
FailuresAreStored ==
  \A names \in handled : \E e \in evidence : e.identity \in names
=============================================================================
