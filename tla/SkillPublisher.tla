--------------------------- MODULE SkillPublisher ---------------------------
(***************************************************************************)
(* FilesystemSkillPublisher (packages/adapters/src/skills/                 *)
(* filesystem-skill-publisher.ts): versioned publication of skills in a    *)
(* directory.  Two kinds of durable file matter, and they are never        *)
(* written together: the manifest .evolution-versions.json and one         *)
(* SKILL.md per skill.                                                     *)
(*                                                                         *)
(* Calls are serialised by a promise queue (`exclusive`), so at most one   *)
(* is in flight; `pc` is the await it stands at and `copy` the manifest    *)
(* object it parsed, which it edits in memory before writing it back.      *)
(* Between any two awaits the process may die or a write may throw         *)
(* (Interrupt), and somebody may edit a SKILL.md by hand (ExternalEdit).   *)
(* writeDraft is left out: it writes a directory that no call here reads.  *)
(*                                                                         *)
(* Revision ids "rev-N" are the numbers N.  An absent previousRevision is  *)
(* 0, which is also what `?? 'rev-0'` turns it into when it is returned.   *)
(***************************************************************************)
EXTENDS Naturals, Sequences

CONSTANTS
  Proposals,      \* proposal identifiers
  Skills,         \* skill names that are safe path segments
  Markdown,       \* texts a SKILL.md can hold
  Artifacts,      \* Artifacts[p]: the artifacts p may be published with
  Preexisting,    \* texts a skill may have before it is first published
  EditedTexts,    \* texts an external edit may write
  Null,           \* no SKILL.md (readOptional returns null)
  None,           \* an absent pending entry, an absent edit
  MaxEdits,       \* bound on the number of external edits
  MaxInterrupts   \* bound on the number of interrupted calls

Artifact == [skill : Skills, markdown : Markdown]

ASSUME ArtifactsAssumption == Artifacts \in [Proposals -> SUBSET Artifact]
ASSUME TextsAssumption == /\ Preexisting \subseteq Markdown
                          /\ EditedTexts \subseteq Markdown
                          /\ Null \notin Markdown
ASSUME BoundsAssumption == MaxEdits \in Nat /\ MaxInterrupts \in Nat

VersionRecord == [id               : Nat \ {0},
                  proposal         : Proposals,
                  skill            : Skills,
                  previousRevision : Nat,
                  previousMarkdown : Markdown \cup {Null},
                  markdown         : Markdown,
                  rolledBack       : BOOLEAN]

ASSUME NoneAssumption ==
  /\ None \notin VersionRecord \cup Markdown \cup {Null}
  /\ None \notin [proposal : Proposals, skill : Skills]

VersionManifest == [revisions : Seq(VersionRecord),
                    pending   : VersionRecord \cup {None}]

EmptyManifest == [revisions |-> <<>>, pending |-> None]

VARIABLES
  manifest,    \* the manifest file
  active,      \* active[s]: the text of the SKILL.md of s, or Null
  pc,          \* the await the call in flight stands at
  copy,        \* the manifest as the call in flight holds it in memory
  index,       \* position of the record that a rollback in flight reverts
  reply,       \* what the last call returned or threw
  edits,       \* external edits so far
  interrupts,  \* interrupted calls so far
  original,    \* history: what each skill held before any publication
  edited       \* history: the last edit of each skill made where it is seen

files == <<manifest, active>>
call  == <<pc, copy, index>>
bounds == <<edits, interrupts>>
history == <<original, edited>>
vars == <<files, call, reply, bounds, history>>

PublishSteps  == {"savePending", "checkActive", "replaceSkill", "recordRevision"}
RollbackSteps == {"restoreSkill", "markReverted"}

NoReply == [kind |-> "none"]
Thrown  == [kind |-> "error"]
Published(p, n) == [kind |-> "published", proposal |-> p, revision |-> n]
Reverted(p, n)  == [kind |-> "reverted", proposal |-> p, revision |-> n]

-----------------------------------------------------------------------------
(* Reading the manifest. *)

Recorded(rs, p) == \E i \in DOMAIN rs : rs[i].proposal = p

\* manifest.revisions.find(...): position i holds the first record of p.
IsRecordOf(rs, p, i) ==
  /\ i \in DOMAIN rs
  /\ rs[i].proposal = p
  /\ \A j \in 1..(i - 1) : rs[j].proposal # p

LiveFor(rs, s, i) == rs[i].skill = s /\ ~rs[i].rolledBack

\* currentRevision: i is the last position of s that is not rolled back, and
\* 0 when there is none.
IsCurrent(rs, s, i) ==
  /\ i = 0 \/ (i \in DOMAIN rs /\ LiveFor(rs, s, i))
  /\ \A j \in DOMAIN rs : j > i => ~LiveFor(rs, s, j)

SameCandidate(record, a) ==
  record.skill = a.skill /\ record.markdown = a.markdown

\* Mutant: revisions numbered from 0.
NewRecordFromZero(p, a, current) ==
  [id               |-> Len(manifest.revisions),
   proposal         |-> p,
   skill            |-> a.skill,
   previousRevision |-> IF current = 0 THEN 0 ELSE manifest.revisions[current].id,
   previousMarkdown |-> active[a.skill],
   markdown         |-> a.markdown,
   rolledBack       |-> FALSE]

NewRecord(p, a, current) ==
  [id               |-> Len(manifest.revisions) + 1,
   proposal         |-> p,
   skill            |-> a.skill,
   previousRevision |-> IF current = 0 THEN 0 ELSE manifest.revisions[current].id,
   previousMarkdown |-> active[a.skill],
   markdown         |-> a.markdown,
   rolledBack       |-> FALSE]

-----------------------------------------------------------------------------
(* The end of a call: it leaves the queue and its locals are gone. *)
Finish(r) ==
  /\ pc' = "idle"
  /\ copy' = EmptyManifest
  /\ index' = 0
  /\ reply' = r

\* A call that returns or throws before it writes anything.
Answer(r) ==
  /\ pc = "idle"
  /\ Finish(r)
  /\ UNCHANGED <<files, bounds, history>>

\* A call that goes on: it holds m and will revert position i (0: none).
Begin(step, m, i) ==
  /\ pc = "idle"
  /\ pc' = step
  /\ copy' = m
  /\ index' = i
  /\ reply' = NoReply
  /\ UNCHANGED <<files, bounds, history>>

Step(from, to) ==
  /\ pc = from
  /\ pc' = to
  /\ UNCHANGED <<copy, index, reply>>

-----------------------------------------------------------------------------
(* publish(p) with artifact a: the first segment, up to the first write.   *)

\* Mutant: a reverted record is answered as published.
PublishExistingOrReverted(p, a) ==
  \E i \in DOMAIN manifest.revisions :
    LET r == manifest.revisions[i] IN
      /\ IsRecordOf(manifest.revisions, p, i)
      /\ SameCandidate(r, a)
      /\ Answer(Published(p, r.id))

PublishExisting(p, a) ==
  \E i \in DOMAIN manifest.revisions :
    LET r == manifest.revisions[i] IN
      /\ IsRecordOf(manifest.revisions, p, i)
      /\ SameCandidate(r, a)
      /\ ~r.rolledBack
      /\ Answer(Published(p, r.id))

PublishRefused(p, a) ==
  /\ \/ \E i \in DOMAIN manifest.revisions :
          /\ IsRecordOf(manifest.revisions, p, i)
          /\ ~SameCandidate(manifest.revisions[i], a) \/ manifest.revisions[i].rolledBack
     \/ /\ ~Recorded(manifest.revisions, p)
        /\ manifest.pending # None
        /\ manifest.pending.proposal # p \/ ~SameCandidate(manifest.pending, a)
  /\ Answer(Thrown)

PublishRetry(p, a) ==
  /\ ~Recorded(manifest.revisions, p)
  /\ manifest.pending # None
  /\ manifest.pending.proposal = p
  /\ SameCandidate(manifest.pending, a)
  /\ Begin("checkActive", manifest, 0)

\* Mutant: the history is not searched for the proposal.
PublishNewUnsearched(p, a) ==
  /\ manifest.pending = None
  /\ \E i \in 0..Len(manifest.revisions) :
       /\ IsCurrent(manifest.revisions, a.skill, i)
       /\ Begin("savePending", [manifest EXCEPT !.pending = NewRecord(p, a, i)], 0)

PublishNew(p, a) ==
  /\ ~Recorded(manifest.revisions, p)
  /\ manifest.pending = None
  /\ \E i \in 0..Len(manifest.revisions) :
       /\ IsCurrent(manifest.revisions, a.skill, i)
       /\ Begin("savePending", [manifest EXCEPT !.pending = NewRecord(p, a, i)], 0)

(* The later segments of publishUnlocked. *)

\* Mutant: the pending entry stays in memory.
SavePendingInMemory ==
  /\ Step("savePending", "checkActive")
  /\ UNCHANGED <<files, bounds, history>>

SavePending ==
  /\ Step("savePending", "checkActive")
  /\ manifest' = copy
  /\ UNCHANGED <<active, bounds, history>>

\* Mutants: no look at the SKILL.md, and one that forgets the retry.
ActiveIsAnything(r) == TRUE
ActiveIsPrevious(r) == active[r.skill] = r.previousMarkdown

ActiveIsKnown(r) == active[r.skill] \in {r.previousMarkdown, r.markdown}

CheckActive ==
  /\ Step("checkActive", "replaceSkill")
  /\ ActiveIsKnown(copy.pending)
  /\ UNCHANGED <<files, bounds, history>>

RefuseChangedSkill ==
  /\ pc = "checkActive"
  /\ ~ActiveIsKnown(copy.pending)
  /\ Finish(Thrown)
  /\ UNCHANGED <<files, bounds, history>>

ReplaceSkill ==
  /\ Step("replaceSkill", "recordRevision")
  /\ active' = [active EXCEPT ![copy.pending.skill] = copy.pending.markdown]
  /\ UNCHANGED <<manifest, bounds, history>>

RecordRevision ==
  /\ pc = "recordRevision"
  /\ manifest' = [revisions |-> Append(copy.revisions, copy.pending),
                  pending   |-> None]
  /\ Finish(Published(copy.pending.proposal, copy.pending.id))
  /\ UNCHANGED <<active, bounds, history>>

-----------------------------------------------------------------------------
(* rollback(p). *)

RollbackRefused(p) ==
  /\ \/ manifest.pending # None
     \/ ~Recorded(manifest.revisions, p)
     \/ \E i \in DOMAIN manifest.revisions :
          LET r == manifest.revisions[i] IN
            /\ IsRecordOf(manifest.revisions, p, i)
            /\ ~r.rolledBack
            /\ ~IsCurrent(manifest.revisions, r.skill, i) \/ ~ActiveIsKnown(r)
  /\ Answer(Thrown)

RollbackSettled(p) ==
  /\ manifest.pending = None
  /\ \E i \in DOMAIN manifest.revisions :
       /\ IsRecordOf(manifest.revisions, p, i)
       /\ manifest.revisions[i].rolledBack
       /\ Answer(Reverted(p, manifest.revisions[i].previousRevision))

\* Mutant: any live revision is reverted, not only the current one.
RollbackAnyLive(p) ==
  /\ manifest.pending = None
  /\ \E i \in DOMAIN manifest.revisions :
       LET r == manifest.revisions[i] IN
         /\ IsRecordOf(manifest.revisions, p, i)
         /\ ~r.rolledBack
         /\ ActiveIsKnown(r)
         /\ Begin("restoreSkill", manifest, i)

RollbackNew(p) ==
  /\ manifest.pending = None
  /\ \E i \in DOMAIN manifest.revisions :
       LET r == manifest.revisions[i] IN
         /\ IsRecordOf(manifest.revisions, p, i)
         /\ ~r.rolledBack
         /\ IsCurrent(manifest.revisions, r.skill, i)
         /\ ActiveIsKnown(r)
         /\ Begin("restoreSkill", manifest, i)

\* Mutant: the SKILL.md is removed whatever it held before.
RestoreNothing ==
  /\ Step("restoreSkill", "markReverted")
  /\ active' = [active EXCEPT ![copy.revisions[index].skill] = Null]
  /\ UNCHANGED <<manifest, bounds, history>>

\* rm when there was no file, writeAtomic of the previous text otherwise.
RestoreSkill ==
  /\ Step("restoreSkill", "markReverted")
  /\ active' = [active EXCEPT ![copy.revisions[index].skill] =
                                copy.revisions[index].previousMarkdown]
  /\ UNCHANGED <<manifest, bounds, history>>

MarkReverted ==
  /\ pc = "markReverted"
  /\ manifest' = [copy EXCEPT !.revisions[index].rolledBack = TRUE]
  /\ Finish(Reverted(copy.revisions[index].proposal,
                     copy.revisions[index].previousRevision))
  /\ UNCHANGED <<active, bounds, history>>

-----------------------------------------------------------------------------
\* A write throws before its rename, or the process dies and a new publisher
\* instance starts: what is on disk stays, the call is gone.
Interrupt ==
  /\ pc # "idle"
  /\ interrupts < MaxInterrupts
  /\ interrupts' = interrupts + 1
  /\ Finish(Thrown)
  /\ UNCHANGED <<files, edits, history>>

\* The call in flight has looked at the SKILL.md of s for the last time and
\* is about to overwrite it.
Overwriting(s) ==
  \/ pc = "replaceSkill" /\ copy.pending.skill = s
  \/ pc = "restoreSkill" /\ copy.revisions[index].skill = s

\* Somebody edits or removes a SKILL.md without the publisher.  The history
\* variable forgets an edit that falls between the last look and the write.
ExternalEdit(s, text) ==
  /\ edits < MaxEdits
  /\ edits' = edits + 1
  /\ active[s] # text
  /\ active' = [active EXCEPT ![s] = text]
  /\ edited' = [edited EXCEPT ![s] = IF Overwriting(s) THEN None ELSE text]
  /\ UNCHANGED <<manifest, call, reply, interrupts, original>>

-----------------------------------------------------------------------------
Init ==
  /\ manifest = EmptyManifest
  /\ active \in [Skills -> Preexisting \cup {Null}]
  /\ pc = "idle"
  /\ copy = EmptyManifest
  /\ index = 0
  /\ reply = NoReply
  /\ edits = 0
  /\ interrupts = 0
  /\ original = active
  /\ edited = [s \in Skills |-> None]

StartPublish(p, a) ==
  \/ PublishExisting(p, a)
  \/ PublishRefused(p, a)
  \/ PublishRetry(p, a)
  \/ PublishNew(p, a)

StartRollback(p) ==
  \/ RollbackRefused(p)
  \/ RollbackSettled(p)
  \/ RollbackNew(p)

Continue ==
  \/ SavePending
  \/ CheckActive
  \/ RefuseChangedSkill
  \/ ReplaceSkill
  \/ RecordRevision
  \/ RestoreSkill
  \/ MarkReverted

Next ==
  \/ \E p \in Proposals : \E a \in Artifacts[p] : StartPublish(p, a)
  \/ \E p \in Proposals : StartRollback(p)
  \/ Continue
  \/ Interrupt
  \/ \E s \in Skills : \E text \in EditedTexts \cup {Null} : ExternalEdit(s, text)

Spec == Init /\ [][Next]_vars

-----------------------------------------------------------------------------
(* Properties. *)

\* Every variable holds a value of its type, and a call in flight holds what
\* its next step uses: a pending record, or the record it reverts.
TypeOK ==
  /\ manifest \in VersionManifest
  /\ active \in [Skills -> Markdown \cup {Null}]
  /\ pc \in {"idle"} \cup PublishSteps \cup RollbackSteps
  /\ copy \in VersionManifest
  /\ index \in Nat
  /\ pc \in PublishSteps => copy.pending # None
  /\ pc \in RollbackSteps => index \in DOMAIN copy.revisions
  /\ edits \in 0..MaxEdits
  /\ interrupts \in 0..MaxInterrupts
  /\ original \in [Skills -> Markdown \cup {Null}]
  /\ edited \in [Skills -> Markdown \cup {Null, None}]

\* Accepting a proposal again, from whatever instance and after whatever
\* interruption, never gives it a second revision (publishUnlocked looks the
\* proposal up in the history before it looks at the pending entry).
OneRevisionPerProposal ==
  LET rs == manifest.revisions IN
    /\ \A i, j \in DOMAIN rs : rs[i].proposal = rs[j].proposal => i = j
    /\ manifest.pending # None => ~Recorded(rs, manifest.pending.proposal)

\* The record r rests on an earlier revision of its skill that is live.
RestsOnLive(rs, r) ==
  /\ r.previousRevision < r.id
  /\ r.previousRevision # 0 => LiveFor(rs, r.skill, r.previousRevision)

\* A record is named by its place in the history, the pending one by the
\* place it will take ("rev-N" is computed before the record has its place).
IdsArePositions ==
  /\ \A i \in DOMAIN manifest.revisions : manifest.revisions[i].id = i
  /\ manifest.pending # None => manifest.pending.id = Len(manifest.revisions) + 1

\* A live revision never rests on a reverted one: reverts undo the revisions
\* of a skill newest first, also across interrupted publications.
LiveRestsOnLive ==
  /\ \A i \in DOMAIN manifest.revisions :
       ~manifest.revisions[i].rolledBack =>
         RestsOnLive(manifest.revisions, manifest.revisions[i])
  /\ manifest.pending # None => RestsOnLive(manifest.revisions, manifest.pending)

\* The manifest a call holds in memory is never stale when it is used: the
\* promise queue lets no other call write between a call's read and its
\* write, so the file differs at most by the entry the call is about to save.
CopyIsFresh ==
  /\ pc = "savePending" => /\ manifest.revisions = copy.revisions
                           /\ manifest.pending = None
  /\ pc \notin {"idle", "savePending"} => manifest = copy
  /\ pc \in RollbackSteps =>
       /\ manifest.pending = None
       /\ IsCurrent(manifest.revisions, manifest.revisions[index].skill, index)

\* Without external edits, a skill shows the text of its current revision,
\* or, when a revert or a publication of it stopped half-way, the text on the
\* other side of that step; with every revision reverted it is back, byte for
\* byte, to what it was before the first publication (or to no file at all).
ActiveMatchesHistory ==
  edits = 0 =>
    \A s \in Skills :
      LET rs == manifest.revisions IN
        \A i \in 0..Len(rs) :
          IsCurrent(rs, s, i) =>
            active[s] \in
              (IF i = 0 THEN {original[s]} ELSE {rs[i].markdown, rs[i].previousMarkdown})
              \cup (IF manifest.pending # None /\ manifest.pending.skill = s
                    THEN {manifest.pending.markdown} ELSE {})

\* An external edit that a call can see is never lost: it is still the active
\* text, or some record of the skill holds it, so that a revert brings it back.
EditsAreNotLost ==
  \A s \in Skills :
    \/ edited[s] = None
    \/ active[s] = edited[s]
    \/ \E i \in DOMAIN manifest.revisions :
         /\ manifest.revisions[i].skill = s
         /\ edited[s] \in {manifest.revisions[i].markdown,
                           manifest.revisions[i].previousMarkdown}
    \/ /\ manifest.pending # None
       /\ manifest.pending.skill = s
       /\ edited[s] \in {manifest.pending.markdown, manifest.pending.previousMarkdown}

\* publish resolves only with a revision id that names one record of the
\* manifest on disk, a live one of the proposal, although the id was computed
\* before the record had its place; rollback only for one it holds reverted.
RepliesAreDurable ==
  LET rs == manifest.revisions IN
    /\ reply.kind = "published" =>
         \E i \in DOMAIN rs :
           /\ rs[i].id = reply.revision
           /\ rs[i].proposal = reply.proposal
           /\ ~rs[i].rolledBack
           /\ \A j \in DOMAIN rs : rs[j].id = reply.revision => j = i
    /\ reply.kind = "reverted" =>
         /\ manifest.pending = None
         /\ \E i \in DOMAIN rs : rs[i].proposal = reply.proposal /\ rs[i].rolledBack

\* The history only grows, and of a record only rolledBack ever changes, from
\* false to true: no write of a manifest held in memory undoes another.
HistoryOnlyGrows ==
  [][ LET old == manifest.revisions
          new == manifest'.revisions
      IN /\ Len(old) <= Len(new)
         /\ \A i \in DOMAIN old :
              new[i] \in {old[i], [old[i] EXCEPT !.rolledBack = TRUE]}
    ]_vars

\* A pending entry is resolved only by becoming, unchanged, the newest
\* revision: nothing else is published or reverted meanwhile.
PendingBecomesRevision ==
  [][ manifest.pending # None /\ manifest' # manifest =>
        manifest' = [revisions |-> Append(manifest.revisions, manifest.pending),
                     pending   |-> None]
    ]_vars
-----------------------------------------------------------------------------
(* The inductive invariant behind the safety theorems of                   *)
(* SkillPublisherProofs.                                                   *)

\* The pending entry of m can become its newest revision.
PendingFits(m) ==
  m.pending # None =>
    /\ ~Recorded(m.revisions, m.pending.proposal)
    /\ m.pending.id = Len(m.revisions) + 1
    /\ ~m.pending.rolledBack
    /\ RestsOnLive(m.revisions, m.pending)

\* What every step preserves: the three facts about the manifest file, the
\* freshness of the copy, and that the entry to be saved, or saved, fits.
IInv ==
  /\ TypeOK
  /\ CopyIsFresh
  /\ OneRevisionPerProposal
  /\ IdsArePositions
  /\ LiveRestsOnLive
  /\ PendingFits(manifest)
  /\ pc = "savePending" => PendingFits(copy)

-----------------------------------------------------------------------------
(* The abstract history, read off the manifest file. *)
AbstractLog ==
  [i \in DOMAIN manifest.revisions |->
     [proposal |-> manifest.revisions[i].proposal,
      skill    |-> manifest.revisions[i].skill,
      reverted |-> manifest.revisions[i].rolledBack]]

AbstractReserved ==
  IF manifest.pending = None THEN None
  ELSE [proposal |-> manifest.pending.proposal, skill |-> manifest.pending.skill]

H == INSTANCE SkillHistory WITH log <- AbstractLog, reserved <- AbstractReserved

\* The manifest file, through every interruption and edit, is the history
\* that SkillHistory promises.
ImplementsHistory == H!Spec

-----------------------------------------------------------------------------
(* Liveness.  A call that is in flight goes on (a promise chain is resumed  *)
(* when its file operation settles), and the operator does retry a pending  *)
(* proposal with the artifact it was first published with, as               *)
(* docs/adr/0006-reviewed-skill-loop.md asks.                               *)
RetryPending == \E p \in Proposals : \E a \in Artifacts[p] : PublishRetry(p, a)

FairSpec == Spec /\ WF_vars(Continue) /\ WF_vars(RetryPending)

\* An interrupted publication does not block the publisher for ever: retrying
\* it completes it, unless somebody wrote a text of his own into the very skill
\* that it replaces.  An edit of another skill does not stand in its way.
PendingIsResolved ==
  manifest.pending # None ~>
    \/ manifest.pending = None
    \/ LET r == manifest.pending
       IN active[r.skill] \notin {r.markdown, r.previousMarkdown}
=============================================================================
