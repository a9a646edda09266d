# TLA+ verification of mastra-evolution

mastra-evolution lets a Mastra agent learn: observations become *evidence*,
repeated evidence becomes *lessons*, an accepted lesson becomes an *improvement
proposal*, and a proposal that is evaluated and approved is *published* as a
skill, a `SKILL.md` in a directory the agent reads, from which it can be
reverted again. This directory holds TLA+ modules for the parts of that loop
that keep state, TLC configurations that model-check them on small instances,
and proofs of the main safety results, which TLAPS checks for every value of the
constants. Paths below are relative to the repository root.

## The system

| Component | State | Operations | Interacts with |
|---|---|---|---|
| `FilesystemSkillPublisher` (packages/adapters/src/skills) | `.evolution-versions.json` (revisions and one pending record), one `SKILL.md` per skill | publish, rollback, writeDraft | called by the runtime; a promise queue serialises its calls; anybody may edit a `SKILL.md` |
| Improvement runtime (packages/core/src/improvement/create-improvement.ts) | none of its own: proposals in the store | proposeFromLesson, evaluate, promote, reject, rollback | store, evaluator, policy, approval provider, publisher, each awaited |
| Promotion policies (policies.ts) | none | decide | read the proposal, its evaluation, the autonomy level |
| Write guard (proposal-write.ts, the upsert in sql.ts) | none | proposalUpsertConflicts | every `putProposal` |
| `LocalEvolutionStore` (packages/core/src/storage-local) | four collections in memory and four JSON files | open, close, put and find | a promise queue serialises its calls |
| `PostgresEvolutionStore` (storage-postgres) | four tables, of columns and a JSON payload | put and find, one statement each | other processes with the same database; a memory executor in tests |
| Ingestion (packages/core/src/learning/ingest.ts) | none of its own: evidence and lessons in the store | ingestEvidence, ingestSignal | four or more store calls per ingest |
| Automatic promotion (promote-accepted-lesson.ts, create-mastra-evolution.ts) | a set of lessons seen, per process | an ingest that accepts a lesson proposes and promotes | ingestion, runtime, events |
| Assembly (create-mastra-evolution.ts, presets/, evaluate/) | none: decided once, at start-up | createMastraEvolution and four presets | builds store, runtimes, evaluator, publisher, loop and hooks |
| Learning bridge, hooks (learning-bridge.ts, attach/) | the workspace's hook configuration | tool-call hooks and extractors that ingest | ingestion, the application's own hooks |
| Parsing, skill authoring, capability probe | none | pure functions | |

What is hard in it:

* *Crashes.* A publication is three file writes and a store write, a revert two
  and a store write; none of them form a transaction.
* *Interleaving.* Everything is asynchronous. The publisher and the local store
  queue their calls, the runtime and ingestion do not: they read, await and
  write back a copy.
* *Partial failure and retry.* Any store, file, evaluator or approval call may
  throw, and the operator retries the proposal, the source its signal.
* *Stale copies.* An approval may take days; what it returns to is a copy of the
  proposal from before.
* *Others at work.* A `SKILL.md` may be edited by hand at any moment, and a
  database carries out statements whose caller has given up.
* *Wiring.* Store, evaluator, policy, publisher and loop are chosen one by one
  from the options; what may be published unseen depends on all of them.

The properties that make each component correct are the invariants and action
properties listed per module below; `PROJECT.json` lists the hazards at their
lines, with the properties that guard them, and for those that no property
covers the reason.

## Modules

### SkillHistory and SkillPublisher

`SkillHistory` is what a publisher promises, without files: an append-only log
of revisions, at most one reserved publication, and reverts of the newest live
revision of a skill only. `SkillPublisher` is the code.

| In the module | In filesystem-skill-publisher.ts |
|---|---|
| `manifest`, `active` | the manifest file, the `SKILL.md` files |
| `copy`, `pc`, `index` | the manifest object the call in flight parsed, the await it stands at, the record it reverts |
| `PublishExisting`, `PublishRefused`, `PublishRetry`, `PublishNew` | `publishUnlocked` up to its first write, by its returns and throws |
| `SavePending`, `CheckActive`, `RefuseChangedSkill`, `ReplaceSkill`, `RecordRevision` | the rest of it, one action per file operation |
| `RollbackRefused`, `RollbackSettled`, `RollbackNew`, `RestoreSkill`, `MarkReverted` | `rollback` in the same way |
| `Interrupt` | a write throws before its rename, or the process dies and another instance starts |
| `ExternalEdit` | somebody edits or removes a `SKILL.md` |

The queue of `exclusive` shows as `pc`: a call begins only when none is in
flight. Texts and skill names are model values, and a proposal may come back
with another artifact (`Artifacts[p]`), which `assertSameCandidate` must refuse.
`original`, `edited` and `reply` are history variables of the properties.

Properties: `OneRevisionPerProposal`, `LiveRestsOnLive`,
`ActiveMatchesHistory`, `EditsAreNotLost`, `RepliesAreDurable`,
`PendingIsResolved`, and `ImplementsHistory`: under the mapping `AbstractLog`,
`AbstractReserved`, read off the manifest file alone, every behaviour is one of
`SkillHistory`. The mapping leaves ids out; `RepliesAreDurable` asks that the id of an
answer names one record, a live one of the proposal. `IdsArePositions`, `CopyIsFresh`, `HistoryOnlyGrows` and
`PendingBecomesRevision` are stated too, and proved rather than checked.

### Policies

The default promotion policies as operators on a proposal's traits (target,
organization scope, sensitive text), its evaluation and the autonomy level, and
the write guard `proposalUpsertConflicts`. They are checked through the modules
that use them.

### Improvement

One action per stretch of code between two awaits. `call[c]` holds where caller
`c` stands and *its copy* of the proposal; `store` changes only in `Put`, behind
the guard. The publisher is `SkillHistory` with a queue (`writer`):
`SkillPublisher` implements it, so what holds here holds of the files.

| Actions | In create-improvement.ts |
|---|---|
| `Propose`, `PutDraft` | proposeFromLesson; an application that stores a proposal of its own (create-improvement.test.ts does) |
| `Evaluate`, `Reread`, `EvaluatorAnswers` | evaluateProposal, by itself and inside promote |
| `Promote`, `Decide`, `ApprovalGiven`, `ApprovalRefused` | promoteProposal, applyDecision, requestApproval |
| `PublishExisting`, `PublishRefused`, `PublishReserve`, `PublishResume`, `PublishCommit` | publishApproved inside the publisher |
| `Rollback`, `RevertDone`, `RevertRefused`, `Reject` | rollbackProposal, reject |
| `Put` | any putProposal: written, or refused with VersionConflictError |
| `CallFails`, `Crash` | any await throws; the process dies between two awaits |

Properties: `AcceptedOnlyPassed`, `PublishedOnlyAccepted`,
`StoreTrailsPublisher`, `CompletedIsTerminal`, `PublishedIsNotUndone`,
`CommitOwnsPending`, `StartedIsPublished`, and `VersionMarksPublished`, which is
proved; `RejectedIsUnpublished` does not hold, see below. README.md of
the repository asks applications to serialise review calls of a proposal:
`CompletedIsTerminal` and `PublishedOnlyAccepted` are stated for one caller, the
others hold under overlapping calls too.

### LocalStore

Memory and disk of the JSON store, for all four collections. `Put` is a write up
to its file, `PersistDone` and `PersistFails` are the file. A failed
`putProposal` takes its change in memory back, the other three leave it, as the
code does. `Close` writes four files; `CloseFails` is its `Promise.all` giving
up: `stray` holds the writes that are still on their way then. `Open` also
stands for a read that loads a closed store. `Crash` lets the files of the write
in flight, or of a close, be the new or the old ones, which is what
`writeJsonAtomic` gives.

Properties: `ResolvedIsDurable`, `VisibleProposalsAreDurable`,
`OneEvidencePerIdentity`, `ProposalWritesAreGuarded`. The first, second and last
are stated up to the first failed close, since a late file write can undo a
newer one from then on.

### EvolutionStore and PostgresStore

`EvolutionStore` is what a store promises (the interface in ports.ts, as the
in-memory store of the tests keeps it): a put takes effect once and as a whole,
on what is stored then, or not at all. `PostgresStore` is the code: a row has
the columns that statements compare and the payload that reads revive, and each
put is one statement.

| In the module | In storage-postgres |
|---|---|
| `upsertEvidenceBySource`, `upsertEvidenceById`, `upsertLesson`, `upsertProposal`, `insertEvent` | the statements of sql.ts, and the handlers of memory-sql-executor.ts (`executor` says which is in use) |
| `Violates` | a unique key in the way that the statement's ON CONFLICT is not about: an error in the database, not noticed by the memory executor |
| `Begin`, `Execute` | a put up to its statement; the statement and the answer |
| `Abandon`, `CarryLate`, `LoseLate` | the connection breaks before the answer; the statement is carried out at any later time, or never |

Properties: `ColumnsMatchPayload`, `OneEvidencePerIdentity`, and
`ImplementsStore`: the payloads alone behave as an `EvolutionStore`, late
statements included.

### Learning

An ingest, store call by store call: `Deliver`, `Duplicate` or `Fresh`,
`StoreEvidence`, `ReadLesson`, `FindContradicted`, `Supersede`, `Merge`. Each
store call may throw, a write before or after it took effect (`IngestFails`,
`MaybeWritten`), and the process may die (`Crash`); the source may deliver again.
`call[c].previous` and `call[c].old` are the copies of lessons an ingest holds
across its awaits.

Properties: `CountsStoredEvidence`, `NothingIsUncounted`, `RetainedIsStored`,
`SupersessionIsDone`, `SupersededStaysOut`.

### AutoPromotion

An ingest that returns an accepted lesson proposes a skill and promotes it.
`ingest[c]` is where `promoteAcceptedLesson` stands; the runtime's calls are the
actions of an instance of `Improvement`, so that a proposal is found, retried and
published through the same store, guard and publisher.

| Actions | In promote-accepted-lesson.ts |
|---|---|
| `Accepted`, `SkipSettled`, `RetryUnsettled`, `ProposeNew` | up to `findEvents`, and what is done with the proposal found |
| `WriteEvent` | the event at the end of proposeFromLesson, by which the proposal is found again |
| `Promote`, `Remember` | the call of promote, and rememberPublished |
| `Continue` | a runtime call goes on, of the loop or of a reviewer |
| `Review` | an operator evaluates, promotes, rejects or reverts a proposal |
| `CallFails`, `IngestFails`, `Crash` | any await throws, and promoteFromIngestResult only reports it; the process dies and forgets |

The lessons are the accepted ones with a valid draft; how they become so is
`Learning`. The store lists no proposals, so a proposal whose event was never
written is known to nobody: `Review` picks among those an event names.

Properties: `OnePublicationPerLesson`, `RefusedStaysRefused`,
`RememberedWasPromoted`. The first and the last are stated for one ingest at a time.

### Assembly and Evolution

`Assembly` is what start-up decides, as operators named after the functions of
create-mastra-evolution.ts, workspace-bind.ts, evaluate/ and presets/: the store,
the learning and improvement runtimes, the evaluator and what it may answer, the
publisher's directory, the loop and the hooks, for `createMastraEvolution` and
the four presets. `PublishesAlone` is the question they add up to: does promote
publish on this evaluation with nobody asked.

`Evolution` composes it with an instance of `Learning`. `run[c]` holds the hooks
that caller `c` (a tool call or an extraction) still has to run; its ingest is
`call[c]` of `Learning`, action by action.

| Actions | In packages/adapters/src |
|---|---|
| `Attach` | attachWorkspaceHooks, by this evolution and by another one of the same options |
| `ToolCall` | a tool returned: hooks of the workspace, or merged by applyToCall with those of the caller |
| `Extracted` | onExtracted with a payload, parsed by parseLearningSignal |
| `ApplicationReturns`, `ApplicationThrows` | the application's hook, which composeHooks awaits first |
| `NothingToIngest`, `IngestBegins` | createAfterToolCall, ingestToolResult, ingestExtracted |
| `IngestGoesOn`, `IngestReturnsNoLesson`, `IngestReturnsLesson` | the ingest and what it returns |
| `IngestThrows` | any store call of the ingest throws: ingestSafely logs it, and the next hook runs |
| `Promoted` | promoteFromIngestResult; of a promotion only the publication is kept, the rest is `AutoPromotion` |
| `Crash` | the process dies, and the next one assembles and attaches anew |

`ToolSignal`, `sourceIdentity` and `Parsed` are the adapters' readings of a tool
call and of a payload, with fields that are missing or unusable. Nothing in the
bridge keeps a source from bringing the same identity again while its first ingest
is at work, and nothing in the model does.

`asked`, `published`, `handled` and `apart` are history variables of the properties.
`handled` has, of each failed call on which evolution's hook ran without an error,
the identities it carried (`NamesOf`, set down when the tool returns and read by no
hook), so that `FailuresAreStored` does not rest on `sourceIdentity`. `apart` tells
that no ingest has begun yet while another one had its identity: as long as that
is so, `ToolCallsCountOnce` and the count in `PublishedIsEarned` are claimed, and
`learning_duplicates` shows why not longer.

Properties: `ToolCallsCountOnce`, `ApplicationRunsFirst`, `PublishedIsEarned`,
`FailuresAreStored`. The last holds through failures and restarts.

## Runs

| Run (cfg) | Instance | Shows |
|---|---|---|
| publisher (MCSkillPublisher) | 3 proposals, 2 skills, 3 interruptions, 1 external edit, fair | the manifest and the skills stay together through interruptions at any await, implement SkillHistory, and lose no edit a call can see; retries complete an interrupted publication |
| improvement_reviewed (MCImprovementReviewed) | 1 caller, autonomy 3, approval provider, faults | the serialised review workflow |
| improvement_overlap (MCImprovementOverlap) | 2 callers, autonomy 4, 1 fault | stale copies against the guard and the queue, and against the evaluation they were accepted on |
| improvement_live (MCImprovementLive) | 1 caller, 2 faults, fair, no reject | a started publication reaches the store |
| improvement_rejected (MCImprovementRejected) | 1 caller, one fault | the first disagreement, below |
| local_store (MCLocalStore) | 2 keys of one source identity, 3 writes, 1 failed close | durability of what resolved |
| postgres_store (MCPostgresStore) | 2 processes, 2 ids, 3 statements, both executors | the statements against EvolutionStore |
| learning (MCLearning) | 1 caller, 2 statements that contradict each other, 5 deliveries, 1 fault | serial ingestion |
| learning_duplicates (MCLearningDuplicates) | 2 callers, one source identity | the second disagreement, below |
| auto_promotion (MCAutoPromotion) | 2 lessons, 3 proposals, 1 caller, autonomy 4, 1 fault | each lesson is published once, and what was refused stays refused |
| auto_promotion_forgets (MCAutoPromotionForgets) | the same, without evaluate | the third disagreement, below |
| evolution (MCEvolution) | 2 callers, 10 assemblies, attached twice, 3 ingests, 1 fault | overlapping hooks and extractions of every assembly, one identity coming again included |

Why the bounds are enough. A publisher call meets at most one other proposal's
record and one earlier revision of its skill; three proposals for two skills
give a revision, one that rests on it and one of another skill, and three
interruptions stop a publication, its retry and a revert of it. The guard and
the queue relate two calls, so two callers suffice; each evaluation, target and
autonomy class that a policy distinguishes is in some run. Three writes are one
that resolves, one that fails and one that rewrites the file; two keys are what
putEvidence can replace. Five deliveries with a window of two ids and a
threshold of two pass the threshold, overflow the window and supersede both ways.
Three proposals for two lessons leave one to be proposed a second time after the
one fault, which is where a lesson could be published twice.
Three statements are one stored, one abandoned and one in between. In MCEvolution
two hooks of one evolution are what composing twice can give, three ingests with
a threshold of two are one more than an acceptance needs, the payloads and calls
share an identity, so that one can come again before its ingest is over, and the ten options
take every branch of `Assembly` (one of them throws for want of a workspace); the
theorems of `AssemblyProofs` are about all options.
The counters that bound a run (`MaxEdits`, `MaxInterrupts`, `MaxFaults`,
`MaxWrites`, `MaxCloseFailures`, `MaxStatements`, `MaxDeliveries`, `MaxAttached`)
appear only in guards, and the proofs hold for every value of them.

Deadlock is checked except where the system really stops: in `Learning`,
`Evolution` and `PostgresStore`, when the deliveries or statements are used up,
in `AutoPromotion`, when every lesson is remembered
and its proposal reverted, and in `MCImprovementLive`, when every proposal is
rolled back and nothing is left to promote.

### Fairness

`SkillPublisher!FairSpec`: weak fairness of `Continue`, because a promise chain
resumes when its file operation settles, and of retrying the pending proposal,
which docs/adr/0006-reviewed-skill-loop.md asks of the operator. Neither
`Interrupt` nor starting other calls is fair. `PendingIsResolved` excepts a skill
that was edited meanwhile to what is neither its old nor its new text: the code
refuses to overwrite it, retry or not. `Improvement!FairSpec`: weak
fairness of every call in flight, and strong fairness of promoting each proposal
(strong, because a proposal cannot be promoted while its caller is busy with
another call). `StartedIsPublished` is checked without `reject`, see below.

### Disagreements found

* `improvement_rejected`: `reject` looks at the stored status only. Once the
  publisher was called and until the publication is stored, which a failed write
  or a crash can put off for good, it stores `rejected` for a proposal whose
  revision is live or pending, although create-improvement.ts:112 says "A
  published change must be reverted, not rejected" and README.md:49 that rejecting
  "Ends a pending change without publication". Rollback then throws; and an
  interrupted publication, which "blocks other publications until the pending
  proposal is retried" (docs/adr/0006-reviewed-skill-loop.md:54), can be retried
  no more, since promote returns a rejected proposal early.
* `learning_duplicates`: two overlapping ingests of one source identity both pass
  `isDuplicate` and both count, although one piece of evidence is stored
  (ingest.test.ts:120, "does not store or increment on duplicate source
  identity").
* `auto_promotion_forgets`: a lesson is remembered whatever promote returned.
  After an inconclusive evaluation its proposal is still a draft, and no later
  ingest of that process retries it, although promote-accepted-lesson.ts:13 says
  "Retries `promote` when a draft proposal already exists".

## Proofs

`SkillPublisherProofs` proves, for all proposals, skills, texts, artifacts and
bounds, `Spec => []TypeOK`, `[]OneRevisionPerProposal`, `[]IdsArePositions`,
`[]LiveRestsOnLive`, `[]CopyIsFresh`, `HistoryOnlyGrows`, `PendingBecomesRevision`, and
`Spec => ImplementsHistory`. The argument rests on `IInv`. None of the three facts
about the file is inductive alone: `RecordRevision` writes what the call holds in
memory, so one needs that this copy is fresh (`CopyIsFresh`), and that the
pending record fits the history it will join (`PendingFits`: a new proposal, the
next id, resting on a live revision), also while it is only in memory. A revert
keeps `LiveRestsOnLive` because what would rest on the reverted revision is a
later record of the same skill, and the reverted one is the current; that needs
`IdsArePositions`, for ids to be comparable with places.

Three theorems are about the texts and the answers, each with a strengthening of
its own. `RepliesAreDurable` holds since a reply is withdrawn when the next call
begins. `EditsAreNotLost` needs that a call about to overwrite a SKILL.md has found
there what some record holds (`EditInv`). `ActiveMatchesHistory` needs that the live
revisions of a skill are a stack: each lies directly on the live one it names,
and the text it replaced is one of that one's (`Stacked`), so that a revert
uncovers a revision whose text is the restored one. The action properties
and the refinement follow step by step from `IInv`: only `SavePending`,
`RecordRevision` and `MarkReverted` write the manifest, and they map to
`Reserve`, `Commit` and `Revert`.

`ImprovementProofs` proves, for any number of proposals and overlapping callers,
`Spec => []TypeOK`, `[]AcceptedOnlyPassed`, `[]VersionMarksPublished` and
`PublishedIsNotUndone`. Its `IInv` says that every record, stored or held as a
copy by a call, is `Sound` (version 1 exactly from publication on, and accepted
only if its own evaluation passed), and that each await is reached with a copy
in the state that the code leaves it in (`CallFits`). `PublishedIsNotUndone`
follows: a copy that could overwrite a published proposal has version 0, which
the guard refuses, or is published or rolled back itself.

`PInv` adds the publisher: `[]CommitOwnsPending` and `[]StoreTrailsPublisher`, since a
copy that claims a revision is made by the step that found or made it, and the
history never takes one back. `CompletedIsTerminal` and `PublishedOnlyAccepted` are
proved for one caller (`OneCaller`), the serialised workflow README.md asks for:
the stored proposal then keeps the evaluation and the traits that the call was
decided on until the call writes it (`SerialInv`). Both fail when calls overlap.

The disagreement that `improvement_rejected` shows needs a failed call or a crash, or
calls that overlap: with one caller and no fault (`MaxFaults = 0`) its property is a
theorem (`RejectedEndsUnpublished`). The history then holds each proposal once, what
is reserved is about to be committed, and what is live is stored as published or
about to be (`UninterruptedInv`), so a call never finds a proposal open, to reject
it, that the publisher holds.

`PostgresStoreProofs` proves, for any number of processes, ids, agents, sources
and statements, `Spec => []TypeOK`, `[]ColumnsMatchPayload`,
`[]OneEvidencePerIdentity` (in a database of the empty string too) and
`Spec => ImplementsStore`. The invariant is their conjunction, table by table (`Good`):
the by-source upsert finds the old piece of evidence by columns, so that one piece
per identity, which is about payloads, needs the columns to match, and they stay so
because there is only one row to update; a put by id is stopped by the index where
another row has its place (`PlaceIsFree`). Each statement then maps to one put of `EvolutionStore` or to a stutter.

`LocalStoreProofs` proves, for any ids, identities and number of writes, every
property of `LocalStore` that its run checks, and `Spec => []TypeOK`. A write reaches
memory before its file, so none of them is inductive alone: the invariant says
that memory and disk hold the same proposals but for the one in flight, which
remembers what the disk holds and was allowed by the guard over it
(`ProposalsAgree`, the reason why a failed file can be taken back), and that each
acknowledged write is accounted for in both (`AllAccounted`). For one piece of
evidence per identity it also covers `stray`, what a failed close has left on
its way.

`LearningProofs` proves `Spec => []TypeOK`, and under `[]Apart` also
`[]CountsStoredEvidence` and `[]RetainedIsStored`, for any number of ingests and
signals, with failures. `Apart` says that no two ingests in flight share a source
identity; `learning_duplicates` shows that it is needed, and with one caller it
always holds (`CountedOneAtATime`). The argument counts *settled* evidence, that
no ingest is still on its way to merge: a lesson, and every copy of one that an
ingest holds, counts at most the settled evidence of its statement, settled
evidence never gets less, and a merge settles one piece more (the cardinality
theorems). A lost update of a lesson only lowers a count.

Its serial part proves, for one ingest at a time and any signals, `[]SupersessionIsDone`
and `SupersededStaysOut` through failures and crashes, and `[]NothingIsUncounted` until
something fails. A copy that an ingest holds is then still what is stored
(`Alone`), up to the lesson it has superseded itself; no lesson supersedes itself,
and only a policy signal rejects one (`Links`), so a superseded lesson has nothing
to come back by. For exact counts the *settled* evidence of a statement is
counted piece by piece (`AllCounted`).

`AssemblyProofs` proves, for every runtime that can be handed over, that what is
published with nobody asked passed on more than its structure, at autonomy 4 or
more (`AloneIsEarned`), and for every runtime that the adapters or presets build
without an evaluator of the application's own that nothing is ever published
with nobody asked (`DefaultsAlwaysAsk`): the structural validator's pass is sent
to approval, and below autonomy 4 the evaluation is inconclusive.

`EvolutionProofs` proves, for any options, contexts and payloads, any number of
overlapping tool calls, hooks, failures and restarts, every property of
`Evolution` and `Spec => []TypeOK`. Every step of `Evolution` is a step of
`Learning` or leaves its variables alone (`LearningSteps`), so what `LearningProofs`
proves of a step under `Apart` is at hand. As long as `apart` is true, `Apart` holds
(`ApartStep`): an ingest that would end it makes `apart` false when it begins, and no
other step gives an ingest an identity. So `CountsInv`, which says `apart => ...`, is
inductive, and with it `[]ToolCallsCountOnce`; `ApartCountsOnce` puts it as
`LearningProofs` does, `Spec /\ []LP!Apart => []L!CountsStoredEvidence`.
`[]ApplicationRunsFirst` needs that composing puts the application's hook at the
head of every list (`ApplicationFirst`). For `[]PublishedIsEarned` whatever makes a
lesson one to draft a skill from is traced to an extractor, through the copies
that ingests hold (`AskedInv`), the count of the lesson to stored evidence, and
the assembly to `AloneIsEarned`. `[]FailuresAreStored` follows an ingest from its
signal to its end: the identity read off a call is one it carries (`NamedSignals`),
what is stored under an identity stays (`IdentityStays`), and `KeptInv` has it in the
store from the step on that an ingest takes past its evidence, so that every end
without an error (`EndsWell`) finds it there.

`AutoPromotionProofs` takes an instance of `ImprovementProofs`: every step is one of
the runtime, or a failure elsewhere that leaves it alone (`RuntimeSteps`). For any
number of overlapping ingests and reviews it proves `Spec => []TypeOK`,
`RefusedStaysRefused`, and that `AcceptedOnlyPassed`, `StoreTrailsPublisher` and
`CommitOwnsPending` hold of the runtime with the loop at work (`RuntimeIsSafe`). Its
`Inv` says that events are true and come before whatever is more than a draft
(`EventsInv`), and where each ingest stands beside its runtime call (`IngestFits`):
so what was refused has an event, and a lesson with an event is not proposed. With one
ingest at a time it proves `[]OnePublicationPerLesson` and `RememberedWasPromoted`: a
lesson has one event at most, since the ingest that writes one has found none and
nobody else writes (`OneEvent`, `Serial`), and what is published is named by an event.

The assumptions are those the modules name: the constants' types, and that the
markers `None` and `Null` are none of the values they stand beside.

`EvolutionProofs` and `AutoPromotionProofs` assume of the constants of the module they
compose what that one assumes itself (`LearningAssumption`, `RuntimeAssumption`).

Only model-checked: liveness (`PendingIsResolved`, `StartedIsPublished`), which is out
of the prover's reach, as is what a recursive definition computes for every input.
Every safety property that a run finds to hold has a theorem. Beyond `apart` in
`Evolution`, overlapping ingests of one identity do count twice. Where a theorem says
`OneCaller`, overlapping calls do break it, or nothing is claimed for them: two
ingests that accept the same lesson at the same time may both propose it.

## Not modelled

* Overlapping promotions of one lesson, of which nothing in the code keeps two
  apart and nothing is said; `Evolution` has the overlapping ingests around them.
* Two `LocalEvolutionStore` or publisher instances at work on one directory: the
  code's comments call them single-writer. `Evolution` therefore attaches a second
  evolution only to a store that both were given.
* A learning runtime that has `ingest` alone, or an improvement runtime other
  than createImprovement's; promotion policies of an application's own.
* The revival of payloads in serialize.ts (a row that cannot be revived makes
  every find throw), dates, query filters, scopes, agent ids.
* Events other than the one promotion searches, telemetry, redaction,
  confidence: no control depends on them in what is modelled.
* The search for sensitive and non-learnable text and the text of skills: pure
  functions on strings, whose results are attributes here.
* Capability probing and the listing of a workspace's skill directories: read
  once and only reported. writeDraft: writes a file no call reads.

## Plan

1. `LocalStore` against `EvolutionStore`, up to its failed writes.
2. The loop of `AutoPromotion` in the place of `Promoted` in `Evolution`.
