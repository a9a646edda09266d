------------------------ MODULE SkillPublisherProofs ------------------------
(***************************************************************************)
(* Safety theorems of SkillPublisher, for every set of proposals, skills   *)
(* and texts and every bound on edits and interruptions.                   *)
(***************************************************************************)
EXTENDS SkillPublisher, TLAPS

\* Setting rolledBack in one record of a history yields a history.
LEMMA MarkedHistory ==
  ASSUME NEW rs \in Seq(VersionRecord), NEW i \in DOMAIN rs
  PROVE  LET new == [rs EXCEPT ![i].rolledBack = TRUE]
         IN /\ new \in Seq(VersionRecord)
            /\ Len(new) = Len(rs)
            /\ DOMAIN new = DOMAIN rs
            /\ \A j \in DOMAIN rs : j # i => new[j] = rs[j]
            /\ new[i] = [rs[i] EXCEPT !.rolledBack = TRUE]
            /\ new[i].rolledBack
            /\ \A j \in DOMAIN rs : /\ new[j].proposal = rs[j].proposal
                                    /\ new[j].skill = rs[j].skill
                                    /\ new[j].id = rs[j].id
                                    /\ new[j].previousRevision = rs[j].previousRevision
                                    /\ new[j].markdown = rs[j].markdown
                                    /\ new[j].previousMarkdown = rs[j].previousMarkdown
<1> DEFINE r == [rs[i] EXCEPT !.rolledBack = TRUE]
           new == [rs EXCEPT ![i].rolledBack = TRUE]
<1>1. rs[i] \in VersionRecord
  OBVIOUS
<1>2. r \in VersionRecord /\ r.rolledBack
  BY <1>1 DEF VersionRecord
<1>3. new = [rs EXCEPT ![i] = r]
  OBVIOUS
<1>4. new \in Seq(VersionRecord) /\ Len(new) = Len(rs) /\ DOMAIN new = DOMAIN rs
  BY <1>2, <1>3
<1>5. /\ \A j \in DOMAIN rs : j # i => new[j] = rs[j]
      /\ new[i] = r
  BY <1>3
<1>6. /\ r.proposal = rs[i].proposal /\ r.skill = rs[i].skill
      /\ r.id = rs[i].id /\ r.previousRevision = rs[i].previousRevision
      /\ r.markdown = rs[i].markdown /\ r.previousMarkdown = rs[i].previousMarkdown
  BY <1>1 DEF VersionRecord
<1> HIDE DEF new, r
<1>7. QED
  BY <1>2, <1>4, <1>5, <1>6 DEF new, r

\* Appending a record to a history yields a history that begins with it.
LEMMA GrownHistory ==
  ASSUME NEW rs \in Seq(VersionRecord), NEW r \in VersionRecord
  PROVE  /\ Append(rs, r) \in Seq(VersionRecord)
         /\ Len(Append(rs, r)) = Len(rs) + 1
         /\ DOMAIN Append(rs, r) = (DOMAIN rs) \cup {Len(rs) + 1}
         /\ \A j \in DOMAIN rs : Append(rs, r)[j] = rs[j]
         /\ Append(rs, r)[Len(rs) + 1] = r
         /\ Len(rs) + 1 \notin DOMAIN rs
  OBVIOUS

\* The record a new publication saves is a version record.
LEMMA NewRecordType ==
  ASSUME TypeOK, NEW p \in Proposals, NEW a \in Artifact,
         NEW i \in 0..Len(manifest.revisions)
  PROVE  NewRecord(p, a, i) \in VersionRecord
<1>1. manifest.revisions \in Seq(VersionRecord)
  BY DEF TypeOK, VersionManifest
<1>2. i # 0 => manifest.revisions[i].id \in Nat
  <2>1. i # 0 => manifest.revisions[i] \in VersionRecord
    BY <1>1
  <2> QED
    BY <2>1 DEF VersionRecord
<1>3. active[a.skill] \in Markdown \cup {Null}
  BY DEF TypeOK, Artifact
<1>4. a.skill \in Skills /\ a.markdown \in Markdown
  BY DEF Artifact
<1>5. Len(manifest.revisions) + 1 \in Nat \ {0}
  BY <1>1
<1> QED
  BY <1>2, <1>3, <1>4, <1>5 DEF NewRecord, VersionRecord

\* The locals of a finished call are well typed.
LEMMA EmptyManifestType == EmptyManifest \in VersionManifest
  BY DEF EmptyManifest, VersionManifest

-----------------------------------------------------------------------------
\* The initial state is well typed and satisfies the inductive invariant.
LEMMA InitInvariant == Init => IInv
<1> SUFFICES ASSUME Init PROVE IInv
  OBVIOUS
<1> USE DEF Init
<1>1. TypeOK
  BY TextsAssumption, BoundsAssumption, EmptyManifestType
     DEF TypeOK, PublishSteps, RollbackSteps
<1>2. manifest.revisions = <<>> /\ manifest.pending = None /\ DOMAIN manifest.revisions = {}
  BY DEF EmptyManifest
<1>3. OneRevisionPerProposal /\ IdsArePositions /\ LiveRestsOnLive /\ PendingFits(manifest)
  BY <1>2 DEF OneRevisionPerProposal, IdsArePositions, LiveRestsOnLive, PendingFits
<1>4. CopyIsFresh
  BY DEF CopyIsFresh, RollbackSteps
<1> QED
  BY <1>1, <1>3, <1>4 DEF IInv

\* Every step keeps the variables well typed.
LEMMA TypeStep == TypeOK /\ [Next]_vars => TypeOK'
<1> SUFFICES ASSUME TypeOK, [Next]_vars PROVE TypeOK'
  OBVIOUS
<1> USE ArtifactsAssumption, TextsAssumption, BoundsAssumption, NoneAssumption,
        EmptyManifestType DEF TypeOK, PublishSteps, RollbackSteps
<1>1. CASE UNCHANGED vars
  BY <1>1 DEF vars, files, call, bounds, history
<1>2. ASSUME NEW r, Answer(r) PROVE TypeOK'
  BY <1>2 DEF Answer, Finish, files, bounds, history
<1>3. ASSUME NEW p \in Proposals, NEW a \in Artifacts[p], StartPublish(p, a) PROVE TypeOK'
  <2>1. a \in Artifact
    OBVIOUS
  <2>2. CASE PublishExisting(p, a) \/ PublishRefused(p, a)
    BY <2>2, <1>2 DEF PublishExisting, PublishRefused
  <2>3. CASE PublishRetry(p, a)
    BY <2>3 DEF PublishRetry, Begin, files, bounds, history
  <2>4. CASE PublishNew(p, a)
    <3>1. PICK i \in 0..Len(manifest.revisions) :
            Begin("savePending", [manifest EXCEPT !.pending = NewRecord(p, a, i)], 0)
      BY <2>4 DEF PublishNew
    <3>2. NewRecord(p, a, i) \in VersionRecord
      BY <2>1, NewRecordType
    <3>3. copy' \in VersionManifest /\ copy'.pending # None
      BY <3>1, <3>2 DEF Begin, VersionManifest
    <3> QED
      BY <3>1, <3>3 DEF Begin, files, bounds, history
  <2> QED
    BY <1>3, <2>2, <2>3, <2>4 DEF StartPublish
<1>4. ASSUME NEW p \in Proposals, StartRollback(p) PROVE TypeOK'
  <2>1. CASE RollbackRefused(p) \/ RollbackSettled(p)
    BY <2>1, <1>2 DEF RollbackRefused, RollbackSettled
  <2>2. CASE RollbackNew(p)
    <3>1. PICK i \in DOMAIN manifest.revisions : Begin("restoreSkill", manifest, i)
      BY <2>2 DEF RollbackNew
    <3>2. i \in Nat
      BY DEF VersionManifest
    <3> QED
      BY <3>1, <3>2 DEF Begin, files, bounds, history
  <2> QED
    BY <1>4, <2>1, <2>2 DEF StartRollback
<1>5. CASE SavePending
  BY <1>5 DEF SavePending, Step, bounds, history
<1>6. CASE CheckActive
  BY <1>6 DEF CheckActive, Step, files, bounds, history
<1>7. CASE RefuseChangedSkill
  BY <1>7 DEF RefuseChangedSkill, Finish, files, bounds, history
<1>8. CASE ReplaceSkill
  <2>1. copy.pending \in VersionRecord
    BY <1>8 DEF ReplaceSkill, Step, VersionManifest
  <2>2. active' \in [Skills -> Markdown \cup {Null}]
    BY <1>8, <2>1 DEF ReplaceSkill, VersionRecord
  <2> QED
    BY <1>8, <2>2 DEF ReplaceSkill, Step, bounds, history
<1>9. CASE RecordRevision
  <2>1. copy.pending \in VersionRecord /\ copy.revisions \in Seq(VersionRecord)
    BY <1>9 DEF RecordRevision, VersionManifest
  <2>2. manifest' \in VersionManifest
    BY <1>9, <2>1, GrownHistory DEF RecordRevision, VersionManifest
  <2> QED
    BY <1>9, <2>2 DEF RecordRevision, Finish, bounds, history
<1>10. CASE RestoreSkill
  <2>1. copy.revisions[index] \in VersionRecord
    BY <1>10 DEF RestoreSkill, Step, VersionManifest
  <2>2. active' \in [Skills -> Markdown \cup {Null}]
    BY <1>10, <2>1 DEF RestoreSkill, VersionRecord
  <2> QED
    BY <1>10, <2>2 DEF RestoreSkill, Step, bounds, history
<1>11. CASE MarkReverted
  <2>1. copy.revisions \in Seq(VersionRecord) /\ index \in DOMAIN copy.revisions
    BY <1>11 DEF MarkReverted, VersionManifest
  <2>2. [copy.revisions EXCEPT ![index].rolledBack = TRUE] \in Seq(VersionRecord)
    BY <2>1, MarkedHistory
  <2>3. manifest' \in VersionManifest
    BY <1>11, <2>2 DEF MarkReverted, VersionManifest
  <2> QED
    BY <1>11, <2>3 DEF MarkReverted, Finish, bounds, history
<1>12. CASE Interrupt
  BY <1>12 DEF Interrupt, Finish, files, history
<1>13. ASSUME NEW s \in Skills, NEW text \in EditedTexts \cup {Null}, ExternalEdit(s, text)
       PROVE  TypeOK'
  BY <1>13 DEF ExternalEdit, call
<1> QED
  BY <1>1, <1>3, <1>4, <1>5, <1>6, <1>7, <1>8, <1>9, <1>10, <1>11, <1>12, <1>13
     DEF Next, Continue

\* In every reachable state each variable holds a value of its type, and a
\* call in flight holds what its next step uses.
THEOREM TypeCorrect == Spec => []TypeOK
<1>1. Init => TypeOK
  BY InitInvariant DEF IInv
<1> QED
  BY <1>1, TypeStep, PTL DEF Spec

-----------------------------------------------------------------------------
\* The part of the inductive invariant that speaks of the manifest file only.
ManifestInv == /\ OneRevisionPerProposal
               /\ IdsArePositions
               /\ LiveRestsOnLive
               /\ PendingFits(manifest)

\* A step that leaves the manifest file alone keeps what is said of it.
LEMMA ManifestUnchanged == ManifestInv /\ manifest' = manifest => ManifestInv'
  BY DEF ManifestInv, OneRevisionPerProposal, IdsArePositions, LiveRestsOnLive,
         PendingFits, Recorded, RestsOnLive, LiveFor

\* A step that ends a call and leaves the manifest file alone keeps IInv.
LEMMA EndOfCall ==
  IInv /\ TypeOK' /\ manifest' = manifest /\ pc' = "idle" => IInv'
<1> SUFFICES ASSUME IInv, TypeOK', manifest' = manifest, pc' = "idle" PROVE IInv'
  OBVIOUS
<1>1. ManifestInv'
  BY ManifestUnchanged DEF IInv, ManifestInv
<1>2. CopyIsFresh'
  BY DEF CopyIsFresh, RollbackSteps
<1> QED
  BY <1>1, <1>2 DEF IInv, ManifestInv

\* Saving the entry of a new publication: it fits, and becomes the pending one.
LEMMA SavePendingInv ==
  ASSUME IInv, TypeOK', SavePending PROVE IInv'
<1>1. copy \in VersionManifest /\ copy.pending # None
  BY DEF SavePending, Step, IInv, TypeOK, PublishSteps
<1>2. manifest.revisions = copy.revisions /\ manifest' = copy
  BY <1>1 DEF SavePending, Step, IInv, CopyIsFresh, VersionManifest
<1>3. PendingFits(copy)
  BY DEF SavePending, Step, IInv
<1>4. PendingFits(manifest)'
  BY <1>2, <1>3 DEF PendingFits, Recorded, RestsOnLive, LiveFor
<1>5. OneRevisionPerProposal' /\ IdsArePositions' /\ LiveRestsOnLive'
  BY <1>2, <1>4
     DEF IInv, OneRevisionPerProposal, IdsArePositions, LiveRestsOnLive,
         PendingFits, Recorded, RestsOnLive, LiveFor
<1>6. CopyIsFresh' /\ pc' # "savePending"
  BY <1>2 DEF SavePending, Step, CopyIsFresh, RollbackSteps
<1> QED
  BY <1>4, <1>5, <1>6 DEF IInv

\* Recording the pending revision: it takes the place its id names.
LEMMA RecordRevisionInv ==
  ASSUME IInv, TypeOK', RecordRevision PROVE IInv'
<1> DEFINE rs == manifest.revisions
           r == manifest.pending
           n == Len(rs) + 1
<1>1. manifest = copy /\ r # None /\ rs \in Seq(VersionRecord) /\ r \in VersionRecord
  BY DEF RecordRevision, IInv, TypeOK, CopyIsFresh, PublishSteps, VersionManifest
<1>2. manifest'.revisions = Append(rs, r) /\ manifest'.pending = None
  BY <1>1 DEF RecordRevision
<1>3. /\ ~Recorded(rs, r.proposal)
      /\ r.id = n
      /\ ~r.rolledBack
      /\ RestsOnLive(rs, r)
  BY <1>1 DEF IInv, PendingFits
<1>4. /\ DOMAIN manifest'.revisions = (DOMAIN rs) \cup {n}
      /\ \A j \in DOMAIN rs : manifest'.revisions[j] = rs[j]
      /\ manifest'.revisions[n] = r
      /\ n \notin DOMAIN rs /\ DOMAIN rs = 1..Len(rs) /\ Len(rs) \in Nat
  BY <1>1, <1>2, GrownHistory
<1>5. \A i \in DOMAIN rs : rs[i].id = i /\ rs[i] \in VersionRecord
  BY <1>1 DEF IInv, IdsArePositions
<1> HIDE DEF rs, r, n
<1>6. OneRevisionPerProposal'
  <2>1. \A i \in DOMAIN rs : rs[i].proposal # r.proposal
    BY <1>3 DEF Recorded
  <2>2. \A i, j \in DOMAIN rs : rs[i].proposal = rs[j].proposal => i = j
    BY DEF rs, IInv, OneRevisionPerProposal
  <2> QED
    BY <1>2, <1>4, <2>1, <2>2 DEF OneRevisionPerProposal
<1>7. IdsArePositions'
  BY <1>2, <1>3, <1>4, <1>5 DEF IdsArePositions
<1>8. LiveRestsOnLive'
  <2>1. ASSUME NEW x \in VersionRecord, x.id \in DOMAIN rs \cup {n}, RestsOnLive(rs, x)
        PROVE  RestsOnLive(manifest'.revisions, x)
    <3>1. x.previousRevision # 0 => x.previousRevision \in DOMAIN rs
      BY <2>1, <1>4 DEF RestsOnLive, VersionRecord, n
    <3> QED
      BY <2>1, <3>1, <1>4 DEF RestsOnLive, LiveFor
  <2>2. \A i \in DOMAIN rs : ~rs[i].rolledBack => RestsOnLive(manifest'.revisions, rs[i])
    BY <2>1, <1>5 DEF rs, IInv, LiveRestsOnLive
  <2>3. RestsOnLive(manifest'.revisions, r)
    BY <2>1, <1>1, <1>3 DEF r, rs
  <2> QED
    BY <2>2, <2>3, <1>2, <1>4 DEF LiveRestsOnLive
<1>9. PendingFits(manifest)' /\ CopyIsFresh' /\ pc' # "savePending"
  BY <1>2 DEF PendingFits, RecordRevision, Finish, CopyIsFresh, RollbackSteps
<1> QED
  BY <1>6, <1>7, <1>8, <1>9 DEF IInv

\* Marking the current revision reverted: nothing live rests on it.
LEMMA MarkRevertedInv ==
  ASSUME IInv, TypeOK', MarkReverted PROVE IInv'
<1> DEFINE rs == manifest.revisions
           new == [rs EXCEPT ![index].rolledBack = TRUE]
<1>1. /\ manifest = copy /\ rs \in Seq(VersionRecord) /\ index \in DOMAIN rs
      /\ manifest.pending = None /\ IsCurrent(rs, rs[index].skill, index)
  BY DEF MarkReverted, IInv, TypeOK, CopyIsFresh, RollbackSteps, VersionManifest
<1>2. manifest'.revisions = new /\ manifest'.pending = None
  BY <1>1 DEF MarkReverted, VersionManifest
<1>3. /\ DOMAIN new = DOMAIN rs
      /\ Len(new) = Len(rs)
      /\ \A j \in DOMAIN rs : j # index => new[j] = rs[j]
      /\ new[index].rolledBack
      /\ \A j \in DOMAIN rs : new[j].proposal = rs[j].proposal /\ new[j].id = rs[j].id
  BY <1>1, MarkedHistory
<1>4. \A j \in DOMAIN rs : rs[j].id = j /\ rs[j] \in VersionRecord /\ j \in Nat
  BY <1>1 DEF IInv, IdsArePositions
<1>5. \A j \in DOMAIN rs : j > index => ~LiveFor(rs, rs[index].skill, j)
  BY <1>1 DEF IsCurrent
<1>6. \A j \in DOMAIN rs : ~rs[j].rolledBack => RestsOnLive(rs, rs[j])
  BY DEF IInv, LiveRestsOnLive
<1>7. OneRevisionPerProposal'
  <2>1. \A i, j \in DOMAIN rs : rs[i].proposal = rs[j].proposal => i = j
    BY DEF IInv, OneRevisionPerProposal
  <2> HIDE DEF rs, new
  <2> QED
    BY <2>1, <1>2, <1>3 DEF OneRevisionPerProposal
<1> HIDE DEF rs, new
<1>8. IdsArePositions'
  BY <1>2, <1>3, <1>4 DEF IdsArePositions
<1>9. LiveRestsOnLive'
  <2>1. SUFFICES ASSUME NEW j \in DOMAIN rs, ~new[j].rolledBack
                 PROVE  RestsOnLive(new, new[j])
    BY <1>2, <1>3 DEF LiveRestsOnLive
  <2>2. j # index /\ new[j] = rs[j] /\ RestsOnLive(rs, rs[j])
    BY <2>1, <1>3, <1>6
  <2>3. rs[j].previousRevision < j /\ rs[j].previousRevision \in Nat
    BY <2>2, <1>4 DEF RestsOnLive, VersionRecord
  <2>4. CASE rs[j].previousRevision = 0
    BY <2>2, <2>4 DEF RestsOnLive
  <2>5. CASE rs[j].previousRevision # 0
    <3> DEFINE k == rs[j].previousRevision
    <3>1. k \in DOMAIN rs
      BY <2>3, <2>5, <1>1 DEF rs
    <3>2. LiveFor(rs, rs[j].skill, k)
      BY <2>2, <2>5 DEF RestsOnLive
    <3>3. k # index
      <4>1. ASSUME k = index PROVE FALSE
        <5>1. rs[index].skill = rs[j].skill /\ j > index
          BY <4>1, <3>2, <2>3, <1>4, <3>1 DEF LiveFor
        <5>2. LiveFor(rs, rs[index].skill, j)
          BY <5>1, <2>1, <2>2 DEF LiveFor
        <5> QED
          BY <5>1, <5>2, <1>5
      <4> QED
        BY <4>1
    <3>4. LiveFor(new, rs[j].skill, k)
      BY <3>1, <3>2, <3>3, <1>3 DEF LiveFor
    <3> QED
      BY <2>2, <3>4 DEF RestsOnLive
  <2> QED
    BY <2>4, <2>5
<1>10. PendingFits(manifest)' /\ CopyIsFresh' /\ pc' # "savePending"
  BY <1>2 DEF PendingFits, MarkReverted, Finish, CopyIsFresh, RollbackSteps
<1> QED
  BY <1>7, <1>8, <1>9, <1>10 DEF IInv

\* Beginning a publication: the entry about to be saved fits.
LEMMA PublishNewInv ==
  ASSUME IInv, TypeOK', NEW p \in Proposals, NEW a \in Artifacts[p], PublishNew(p, a)
  PROVE  IInv'
<1> DEFINE rs == manifest.revisions
<1>1. PICK i \in 0..Len(rs) :
        /\ IsCurrent(rs, a.skill, i)
        /\ Begin("savePending", [manifest EXCEPT !.pending = NewRecord(p, a, i)], 0)
  BY DEF PublishNew
<1> DEFINE r == NewRecord(p, a, i)
<1>2. manifest \in VersionManifest /\ manifest.pending = None /\ rs \in Seq(VersionRecord)
  BY DEF PublishNew, IInv, TypeOK, VersionManifest
<1>3. a \in Artifact
  BY ArtifactsAssumption
<1>4. r \in VersionRecord
  BY <1>3, NewRecordType DEF IInv
<1>5. copy'.revisions = rs /\ copy'.pending = r
  BY <1>1, <1>2 DEF Begin, VersionManifest
<1>6. manifest' = manifest /\ pc' = "savePending"
  BY <1>1 DEF Begin, files
<1>7. /\ r.proposal = p /\ r.id = Len(rs) + 1 /\ ~r.rolledBack /\ r.skill = a.skill
      /\ i = 0 => r.previousRevision = 0
      /\ i # 0 => r.previousRevision = rs[i].id
  BY DEF NewRecord
<1> HIDE DEF r
<1>8. i # 0 => rs[i].id = i /\ i \in DOMAIN rs
  BY <1>2 DEF IInv, IdsArePositions
<1>9. i # 0 => LiveFor(rs, a.skill, i)
  BY <1>1 DEF IsCurrent
<1>10. RestsOnLive(rs, r)
  BY <1>2, <1>7, <1>8, <1>9 DEF RestsOnLive
<1>11. ~Recorded(rs, p)
  BY DEF PublishNew
<1>12. PendingFits(copy)'
  BY <1>5, <1>7, <1>10, <1>11 DEF PendingFits, Recorded, RestsOnLive, LiveFor
<1>13. CopyIsFresh'
  BY <1>2, <1>5, <1>6 DEF CopyIsFresh, RollbackSteps
<1>14. ManifestInv'
  BY <1>6, ManifestUnchanged DEF IInv, ManifestInv
<1> QED
  BY <1>12, <1>13, <1>14 DEF IInv, ManifestInv

\* A step within a call that leaves the manifest and the copy alone.
LEMMA WithinCall ==
  ASSUME IInv, TypeOK', UNCHANGED <<manifest, copy, index>>,
         \/ pc' = pc
         \/ pc \in PublishSteps \ {"savePending"} /\ pc' \in PublishSteps \ {"savePending"}
         \/ pc \in RollbackSteps /\ pc' \in RollbackSteps
  PROVE  IInv'
<1>1. ManifestInv'
  BY ManifestUnchanged DEF IInv, ManifestInv
<1>2. CopyIsFresh'
  BY DEF IInv, CopyIsFresh, RollbackSteps, PublishSteps, IsCurrent, LiveFor
<1>3. pc' = "savePending" => PendingFits(copy)'
  BY DEF IInv, PublishSteps, RollbackSteps, PendingFits, Recorded, RestsOnLive, LiveFor
<1> QED
  BY <1>1, <1>2, <1>3 DEF IInv, ManifestInv

\* Every step preserves the inductive invariant.
LEMMA InvariantStep == IInv /\ [Next]_vars => IInv'
<1> SUFFICES ASSUME IInv, [Next]_vars PROVE IInv'
  OBVIOUS
<1>t. TypeOK'
  BY TypeStep DEF IInv
<1>1. CASE UNCHANGED vars
  BY <1>1, <1>t, WithinCall DEF vars, files, call
<1>2. ASSUME NEW r, Answer(r) PROVE IInv'
  BY <1>2, <1>t, EndOfCall DEF Answer, Finish, files
<1>3. ASSUME NEW p \in Proposals, NEW a \in Artifacts[p], StartPublish(p, a) PROVE IInv'
  <2>1. CASE PublishExisting(p, a) \/ PublishRefused(p, a)
    BY <2>1, <1>2 DEF PublishExisting, PublishRefused
  <2>2. CASE PublishRetry(p, a)
    <3>1. copy' = manifest /\ manifest' = manifest /\ pc' = "checkActive"
      BY <2>2 DEF PublishRetry, Begin, files
    <3>2. ManifestInv'
      BY <3>1, ManifestUnchanged DEF IInv, ManifestInv
    <3>3. CopyIsFresh'
      BY <3>1 DEF CopyIsFresh, RollbackSteps
    <3> QED
      BY <1>t, <3>1, <3>2, <3>3 DEF IInv, ManifestInv
  <2>3. CASE PublishNew(p, a)
    BY <2>3, <1>t, PublishNewInv
  <2> QED
    BY <1>3, <2>1, <2>2, <2>3 DEF StartPublish
<1>4. ASSUME NEW p \in Proposals, StartRollback(p) PROVE IInv'
  <2>1. CASE RollbackRefused(p) \/ RollbackSettled(p)
    BY <2>1, <1>2 DEF RollbackRefused, RollbackSettled
  <2>2. CASE RollbackNew(p)
    <3>1. PICK i \in DOMAIN manifest.revisions :
            /\ IsCurrent(manifest.revisions, manifest.revisions[i].skill, i)
            /\ Begin("restoreSkill", manifest, i)
      BY <2>2 DEF RollbackNew
    <3>2. /\ copy' = manifest /\ manifest' = manifest /\ index' = i
          /\ pc' = "restoreSkill" /\ manifest.pending = None
      BY <2>2, <3>1 DEF RollbackNew, Begin, files
    <3>3. ManifestInv'
      BY <3>2, ManifestUnchanged DEF IInv, ManifestInv
    <3>4. CopyIsFresh'
      BY <3>1, <3>2 DEF CopyIsFresh, RollbackSteps, IsCurrent, LiveFor
    <3> QED
      BY <1>t, <3>2, <3>3, <3>4 DEF IInv, ManifestInv
  <2> QED
    BY <1>4, <2>1, <2>2 DEF StartRollback
<1>5. CASE SavePending
  BY <1>5, <1>t, SavePendingInv
<1>6. CASE CheckActive \/ ReplaceSkill \/ RestoreSkill
  BY <1>6, <1>t, WithinCall
     DEF CheckActive, ReplaceSkill, RestoreSkill, Step, files, PublishSteps, RollbackSteps
<1>7. CASE RefuseChangedSkill \/ Interrupt
  BY <1>7, <1>t, EndOfCall DEF RefuseChangedSkill, Interrupt, Finish, files
<1>8. CASE RecordRevision
  BY <1>8, <1>t, RecordRevisionInv
<1>9. CASE MarkReverted
  BY <1>9, <1>t, MarkRevertedInv
<1>10. ASSUME NEW s, NEW text, ExternalEdit(s, text) PROVE IInv'
  BY <1>10, <1>t, WithinCall DEF ExternalEdit, call
<1> QED
  BY <1>1, <1>3, <1>4, <1>5, <1>6, <1>7, <1>8, <1>9, <1>10 DEF Next, Continue

\* The strengthening behind the theorems below.
THEOREM Inductive == Spec => []IInv
  BY InitInvariant, InvariantStep, PTL DEF Spec

\* No proposal ever gets a second revision, however often and wherever its
\* publication is retried.
THEOREM OneRevision == Spec => []OneRevisionPerProposal
<1>1. IInv => OneRevisionPerProposal
  BY DEF IInv
<1> QED
  BY <1>1, Inductive, PTL

\* A revision's id is its place in the history, also while it is pending.
THEOREM IdsFit == Spec => []IdsArePositions
<1>1. IInv => IdsArePositions
  BY DEF IInv
<1> QED
  BY <1>1, Inductive, PTL

\* No live revision rests on a reverted one.
THEOREM RestsLive == Spec => []LiveRestsOnLive
<1>1. IInv => LiveRestsOnLive
  BY DEF IInv
<1> QED
  BY <1>1, Inductive, PTL

\* The manifest a call holds in memory is never stale when it is used.
THEOREM FreshCopy == Spec => []CopyIsFresh
<1>1. IInv => CopyIsFresh
  BY DEF IInv
<1> QED
  BY <1>1, Inductive, PTL

-----------------------------------------------------------------------------
(* What a step can do to the manifest file, seen from the file alone. *)

Saves ==
  /\ manifest.pending = None
  /\ manifest'.revisions = manifest.revisions
  /\ manifest'.pending \in VersionRecord
  /\ ~Recorded(manifest.revisions, manifest'.pending.proposal)

Records ==
  /\ manifest.pending \in VersionRecord
  /\ ~manifest.pending.rolledBack
  /\ manifest' = [revisions |-> Append(manifest.revisions, manifest.pending),
                  pending   |-> None]

Marks(i) ==
  /\ manifest.pending = None
  /\ i \in DOMAIN manifest.revisions
  /\ ~manifest.revisions[i].rolledBack
  /\ IsCurrent(manifest.revisions, manifest.revisions[i].skill, i)
  /\ manifest'.revisions = [manifest.revisions EXCEPT ![i].rolledBack = TRUE]
  /\ manifest'.pending = None

\* Every step leaves the manifest file alone or does one of the three.
LEMMA ManifestSteps ==
  ASSUME IInv, [Next]_vars
  PROVE  manifest' = manifest \/ Saves \/ Records \/ \E i \in Nat : Marks(i)
<1>1. CASE SavePending
  <2>1. /\ manifest' = copy /\ copy.pending # None /\ copy \in VersionManifest
        /\ manifest.revisions = copy.revisions /\ manifest.pending = None
    BY <1>1 DEF SavePending, Step, IInv, TypeOK, CopyIsFresh, PublishSteps
  <2>2. ~Recorded(copy.revisions, copy.pending.proposal)
    BY <1>1, <2>1 DEF SavePending, Step, IInv, PendingFits
  <2>3. copy.pending \in VersionRecord
    BY <2>1 DEF VersionManifest
  <2> QED
    BY <2>1, <2>2, <2>3 DEF Saves
<1>2. CASE RecordRevision
  <2>1. manifest = copy /\ manifest.pending # None /\ manifest \in VersionManifest
    BY <1>2 DEF RecordRevision, IInv, TypeOK, CopyIsFresh, PublishSteps
  <2>2. ~manifest.pending.rolledBack
    BY <2>1 DEF IInv, PendingFits
  <2> QED
    BY <1>2, <2>1, <2>2 DEF RecordRevision, Records, VersionManifest
<1>3. CASE MarkReverted
  <2>1. /\ manifest = copy /\ manifest.pending = None /\ manifest \in VersionManifest
        /\ index \in DOMAIN manifest.revisions /\ index \in Nat
        /\ IsCurrent(manifest.revisions, manifest.revisions[index].skill, index)
    BY <1>3 DEF MarkReverted, IInv, TypeOK, CopyIsFresh, RollbackSteps
  <2>2. index # 0
    BY <2>1 DEF VersionManifest
  <2>3. ~manifest.revisions[index].rolledBack
    BY <2>1, <2>2 DEF IsCurrent, LiveFor
  <2>4. /\ manifest'.revisions = [manifest.revisions EXCEPT ![index].rolledBack = TRUE]
        /\ manifest'.pending = None
    BY <1>3, <2>1 DEF MarkReverted, VersionManifest
  <2> QED
    BY <2>1, <2>3, <2>4 DEF Marks
<1>4. CASE ~SavePending /\ ~RecordRevision /\ ~MarkReverted
  BY <1>4 DEF vars, files, Next, Continue, StartPublish, StartRollback,
       PublishExisting, PublishRefused, PublishRetry, PublishNew,
       RollbackRefused, RollbackSettled, RollbackNew, Answer, Begin,
       CheckActive, RefuseChangedSkill, ReplaceSkill, RestoreSkill,
       Interrupt, ExternalEdit
<1> QED
  BY <1>1, <1>2, <1>3, <1>4

\* The history only grows, and a record only ever becomes rolled back.
THEOREM OnlyGrows == Spec => HistoryOnlyGrows
<1> DEFINE A == LET old == manifest.revisions
                    new == manifest'.revisions
                IN /\ Len(old) <= Len(new)
                   /\ \A i \in DOMAIN old :
                        new[i] \in {old[i], [old[i] EXCEPT !.rolledBack = TRUE]}
<1>1. ASSUME IInv, [Next]_vars PROVE A
  <2>1. manifest.revisions \in Seq(VersionRecord)
    BY <1>1 DEF IInv, TypeOK, VersionManifest
  <2>2. CASE manifest' = manifest \/ Saves
    BY <2>1, <2>2 DEF Saves
  <2>3. CASE Records
    BY <2>1, <2>3, GrownHistory DEF Records
  <2>4. ASSUME NEW i \in Nat, Marks(i) PROVE A
    <3> DEFINE new == manifest'.revisions
               old == manifest.revisions
    <3>1. /\ Len(new) = Len(old)
          /\ \A j \in DOMAIN old : j # i => new[j] = old[j]
          /\ new[i] = [old[i] EXCEPT !.rolledBack = TRUE]
      BY <2>1, <2>4, MarkedHistory DEF Marks
    <3>2. Len(old) <= Len(new)
      BY <2>1, <3>1
    <3> HIDE DEF new, old
    <3>3. \A j \in DOMAIN old : new[j] \in {old[j], [old[j] EXCEPT !.rolledBack = TRUE]}
      BY <3>1
    <3> QED
      BY <3>2, <3>3 DEF new, old
  <2> QED
    BY <1>1, <2>2, <2>3, <2>4, ManifestSteps
<1>2. IInv /\ [Next]_vars => [A]_vars
  BY <1>1
<1> QED
  BY <1>2, Inductive, PTL DEF Spec, HistoryOnlyGrows

\* A pending entry is resolved only by becoming the newest revision.
THEOREM PendingBecomes == Spec => PendingBecomesRevision
<1> DEFINE A == manifest.pending # None /\ manifest' # manifest =>
                  manifest' = [revisions |-> Append(manifest.revisions, manifest.pending),
                               pending   |-> None]
<1>1. IInv /\ [Next]_vars => [A]_vars
  BY ManifestSteps DEF Saves, Records, Marks
<1> QED
  BY <1>1, Inductive, PTL DEF Spec, PendingBecomesRevision

-----------------------------------------------------------------------------
(* Refinement: the manifest file implements SkillHistory. *)

Entry(r) == [proposal |-> r.proposal, skill |-> r.skill, reverted |-> r.rolledBack]

\* Updating the last field of an entry, whatever the value.
LEMMA SetReverted ==
  ASSUME NEW p, NEW s, NEW b, NEW c
  PROVE  [[proposal |-> p, skill |-> s, reverted |-> b] EXCEPT !.reverted = c]
           = [proposal |-> p, skill |-> s, reverted |-> c]
  OBVIOUS

\* What the abstract history reads of a history of records.
LEMMA AbstractLogFacts ==
  ASSUME TypeOK
  PROVE  /\ AbstractLog = [i \in 1..Len(manifest.revisions) |->
                             Entry(manifest.revisions[i])]
         /\ DOMAIN AbstractLog = DOMAIN manifest.revisions
         /\ Len(AbstractLog) = Len(manifest.revisions)
         /\ AbstractLog \in Seq(H!Revision)
<1>1. manifest.revisions \in Seq(VersionRecord)
  BY DEF TypeOK, VersionManifest
<1>2. AbstractLog = [i \in 1..Len(manifest.revisions) |-> Entry(manifest.revisions[i])]
  BY <1>1 DEF AbstractLog, Entry
<1>3. \A r \in VersionRecord : Entry(r) \in H!Revision
  BY DEF Entry, VersionRecord, H!Revision
<1> QED
  BY <1>1, <1>2, <1>3

\* Saving a pending entry reserves it.
LEMMA SavesReserves ==
  ASSUME TypeOK, Saves PROVE \E p \in Proposals, s \in Skills : H!Reserve(p, s)
<1> DEFINE r == manifest'.pending
<1>1. r.proposal \in Proposals /\ r.skill \in Skills /\ r # None
  BY NoneAssumption DEF Saves, VersionRecord
<1>2. AbstractReserved = None
  BY DEF Saves, AbstractReserved
<1>3. AbstractReserved' = [proposal |-> r.proposal, skill |-> r.skill]
  BY <1>1 DEF AbstractReserved
<1>4. AbstractLog' = AbstractLog
  BY DEF Saves, AbstractLog
<1>5. ~H!InLog(r.proposal)
  BY AbstractLogFacts DEF Saves, Recorded, H!InLog, Entry
<1> QED
  BY <1>1, <1>2, <1>3, <1>4, <1>5 DEF H!Reserve

\* Recording the pending revision commits the reservation.
LEMMA RecordsCommits ==
  ASSUME TypeOK, TypeOK', Records PROVE H!Commit
<1> DEFINE rs == manifest.revisions
           r == manifest.pending
<1>1. /\ r.proposal \in Proposals /\ r.skill \in Skills /\ r # None
      /\ ~r.rolledBack /\ r \in VersionRecord /\ rs \in Seq(VersionRecord)
      /\ manifest'.revisions = Append(rs, r) /\ manifest'.pending = None
  BY NoneAssumption DEF Records, VersionRecord, TypeOK, VersionManifest
<1>2. AbstractReserved = [proposal |-> r.proposal, skill |-> r.skill]
  BY <1>1 DEF AbstractReserved
<1>3. AbstractReserved # None
  BY <1>1, <1>2, NoneAssumption
<1>4. AbstractReserved' = None
  BY <1>1 DEF AbstractReserved
<1>5. AbstractLog' = Append(AbstractLog, Entry(r))
  <2> DEFINE new == manifest'.revisions
             n == Len(rs) + 1
  <2>1. AbstractLog' = [i \in 1..Len(new) |-> Entry(new[i])]
    <3>1. new \in Seq(VersionRecord)
      BY <1>1
    <3> QED
      BY <3>1 DEF AbstractLog, Entry
  <2>2. /\ Len(new) = n
        /\ \A i \in 1..Len(rs) : new[i] = rs[i]
        /\ new[n] = r
    BY <1>1
  <2>3. Append(AbstractLog, Entry(r)) =
          [i \in 1..n |-> IF i = n THEN Entry(r) ELSE Entry(rs[i])]
    BY <1>1, AbstractLogFacts
  <2> HIDE DEF new
  <2>4. \A i \in 1..n : Entry(new[i]) = IF i = n THEN Entry(r) ELSE Entry(rs[i])
    BY <1>1, <2>2
  <2> QED
    BY <2>1, <2>2, <2>3, <2>4
<1>6. Entry(r) = [proposal |-> AbstractReserved.proposal,
                  skill    |-> AbstractReserved.skill,
                  reverted |-> FALSE]
  BY <1>1, <1>2 DEF Entry, VersionRecord
<1> QED
  BY <1>3, <1>4, <1>5, <1>6 DEF H!Commit

\* Marking the current revision of a skill reverts the newest live one.
LEMMA MarksReverts ==
  ASSUME TypeOK, TypeOK', NEW i \in Nat, Marks(i)
  PROVE  \E j \in DOMAIN AbstractLog : H!Revert(j)
<1> DEFINE rs == manifest.revisions
           new == manifest'.revisions
           old == AbstractLog
<1>1. rs \in Seq(VersionRecord) /\ i \in DOMAIN rs /\ new \in Seq(VersionRecord)
  BY DEF Marks, TypeOK, VersionManifest
<1>2. AbstractReserved = None /\ AbstractReserved' = None
  BY DEF Marks, AbstractReserved
<1>3. /\ old = [j \in 1..Len(rs) |-> Entry(rs[j])]
      /\ DOMAIN old = DOMAIN rs
  BY AbstractLogFacts
<1>4. /\ Len(new) = Len(rs)
      /\ \A j \in DOMAIN rs : j # i => new[j] = rs[j]
      /\ new[i] = [rs[i] EXCEPT !.rolledBack = TRUE]
  BY <1>1, MarkedHistory DEF Marks
<1>5. AbstractLog' = [j \in 1..Len(new) |-> Entry(new[j])]
  BY <1>1 DEF AbstractLog, Entry
<1>6. \A j \in DOMAIN rs : H!LiveAt(j, rs[i].skill) <=> LiveFor(rs, rs[i].skill, j)
  BY <1>1, <1>3 DEF H!LiveAt, LiveFor, Entry
<1>7. H!Newest(i)
  BY <1>1, <1>3, <1>6 DEF H!Newest, Marks, IsCurrent, LiveFor, Entry
<1>8. Entry(new[i]) = [Entry(rs[i]) EXCEPT !.reverted = TRUE]
  <2>1. ASSUME NEW r \in VersionRecord
        PROVE  Entry([r EXCEPT !.rolledBack = TRUE]) = [Entry(r) EXCEPT !.reverted = TRUE]
    <3> DEFINE x == [r EXCEPT !.rolledBack = TRUE]
               y == [proposal |-> r.proposal, skill |-> r.skill, reverted |-> TRUE]
    <3>1. x.proposal = r.proposal /\ x.skill = r.skill /\ x.rolledBack = TRUE
      BY DEF VersionRecord
    <3>2. [Entry(r) EXCEPT !.reverted = TRUE] = y
      BY SetReverted DEF Entry
    <3> HIDE DEF x
    <3>3. Entry(x) = y
      BY <3>1 DEF Entry
    <3> QED
      BY <3>2, <3>3 DEF x
  <2>2. rs[i] \in VersionRecord
    BY <1>1
  <2> HIDE DEF rs, new
  <2> QED
    BY <1>4, <2>1, <2>2
<1> HIDE DEF new, rs
<1>9. AbstractLog' = [old EXCEPT ![i].reverted = TRUE]
  <2>1. \A j \in DOMAIN rs : j # i => Entry(new[j]) = Entry(rs[j])
    BY <1>4
  <2>2. DOMAIN rs = 1..Len(rs)
    BY <1>1
  <2>3. [old EXCEPT ![i].reverted = TRUE]
          = [j \in 1..Len(rs) |-> IF j = i THEN [Entry(rs[i]) EXCEPT !.reverted = TRUE]
                                  ELSE Entry(rs[j])]
    BY <1>1, <1>3, <2>2
  <2> QED
    BY <1>4, <1>5, <1>8, <2>1, <2>2, <2>3
<1> QED
  BY <1>1, <1>2, <1>3, <1>7, <1>9 DEF H!Revert, rs

\* The manifest file implements the abstract history: each step of the
\* publisher reserves, commits, reverts, or leaves the history alone.
THEOREM Implements == Spec => ImplementsHistory
<1>1. Init => H!Init
  BY DEF Init, EmptyManifest, H!Init, AbstractLog, AbstractReserved
<1>2. IInv /\ [Next]_vars => [H!Next]_(H!hvars)
  <2> SUFFICES ASSUME IInv, [Next]_vars PROVE [H!Next]_(H!hvars)
    OBVIOUS
  <2>1. TypeOK /\ TypeOK'
    BY TypeStep DEF IInv
  <2>2. CASE manifest' = manifest
    BY <2>2 DEF H!hvars, AbstractLog, AbstractReserved
  <2>3. CASE Saves
    BY <2>1, <2>3, SavesReserves DEF H!Next
  <2>4. CASE Records
    BY <2>1, <2>4, RecordsCommits DEF H!Next
  <2>5. ASSUME NEW i \in Nat, Marks(i) PROVE H!Next
    BY <2>1, <2>5, MarksReverts DEF H!Next
  <2> QED
    BY <2>2, <2>3, <2>4, <2>5, ManifestSteps
<1> QED
  BY <1>1, <1>2, Inductive, PTL DEF Spec, ImplementsHistory, H!Spec

-----------------------------------------------------------------------------
(* What a resolved call said.  A reply is withdrawn when the next call       *)
(* begins, so only the end of a call has to make it true.                    *)

ReplyInv == /\ IInv
            /\ RepliesAreDurable
            /\ pc # "idle" => reply = NoReply

\* A reply that promises nothing.
LEMMA EmptyReplies ==
  ASSUME reply' \in {NoReply, Thrown} PROVE RepliesAreDurable'
BY DEF RepliesAreDurable, NoReply, Thrown

LEMMA ReplyStep ==
  ASSUME ReplyInv, IInv', [Next]_vars PROVE ReplyInv'
<1> DEFINE rs == manifest.revisions
<1>0. rs \in Seq(VersionRecord) /\ \A i \in DOMAIN rs : rs[i].id = i
  BY DEF ReplyInv, IInv, TypeOK, VersionManifest, IdsArePositions
<1>1. ASSUME manifest' = manifest, reply' = reply PROVE RepliesAreDurable'
  BY <1>1 DEF ReplyInv, RepliesAreDurable
<1>2. ASSUME NEW p \in Proposals, NEW a \in Artifacts[p], StartPublish(p, a) PROVE ReplyInv'
  <2>1. CASE PublishExisting(p, a)
    <3>1. PICK i \in DOMAIN rs : /\ rs[i].proposal = p
                                 /\ ~rs[i].rolledBack
                                 /\ Answer(Published(p, rs[i].id))
      BY <2>1 DEF PublishExisting, IsRecordOf
    <3>2. reply' = Published(p, i) /\ manifest' = manifest /\ pc' = "idle"
      BY <1>0, <3>1 DEF Answer, Finish, files
    <3>3. RepliesAreDurable'
      BY <1>0, <3>1, <3>2 DEF RepliesAreDurable, Published
    <3> QED
      BY <3>2, <3>3 DEF ReplyInv
  <2>2. CASE PublishRefused(p, a)
    BY <2>2, EmptyReplies DEF PublishRefused, Answer, Finish, ReplyInv
  <2>3. CASE PublishRetry(p, a) \/ PublishNew(p, a)
    BY <2>3, EmptyReplies DEF PublishRetry, PublishNew, Begin, ReplyInv
  <2> QED
    BY <1>2, <2>1, <2>2, <2>3 DEF StartPublish
<1>3. ASSUME NEW p \in Proposals, StartRollback(p) PROVE ReplyInv'
  <2>1. CASE RollbackSettled(p)
    <3>1. PICK i \in DOMAIN rs : /\ rs[i].proposal = p
                                 /\ rs[i].rolledBack
                                 /\ Answer(Reverted(p, rs[i].previousRevision))
      BY <2>1 DEF RollbackSettled, IsRecordOf
    <3>2. /\ reply' = Reverted(p, rs[i].previousRevision)
          /\ manifest' = manifest /\ pc' = "idle" /\ manifest.pending = None
      BY <2>1, <3>1 DEF RollbackSettled, Answer, Finish, files
    <3>3. RepliesAreDurable'
      BY <3>1, <3>2 DEF RepliesAreDurable, Reverted
    <3> QED
      BY <3>2, <3>3 DEF ReplyInv
  <2>2. CASE RollbackRefused(p)
    BY <2>2, EmptyReplies DEF RollbackRefused, Answer, Finish, ReplyInv
  <2>3. CASE RollbackNew(p)
    BY <2>3, EmptyReplies DEF RollbackNew, Begin, ReplyInv
  <2> QED
    BY <1>3, <2>1, <2>2, <2>3 DEF StartRollback
<1>4. CASE RecordRevision
  <2> DEFINE r == manifest.pending
  <2>1. manifest = copy /\ r # None /\ r \in VersionRecord
    BY <1>4 DEF RecordRevision, ReplyInv, IInv, TypeOK, CopyIsFresh, PublishSteps, VersionManifest
  <2>2. r.id = Len(rs) + 1 /\ ~r.rolledBack
    BY <2>1 DEF ReplyInv, IInv, PendingFits
  <2>3. /\ manifest'.revisions = Append(rs, r)
        /\ reply' = Published(r.proposal, r.id) /\ pc' = "idle"
    BY <1>4, <2>1 DEF RecordRevision, Finish
  <2> HIDE DEF r, rs
  <2>4. /\ r.id \in DOMAIN Append(rs, r) /\ Append(rs, r)[r.id] = r
        /\ \A j \in DOMAIN Append(rs, r) : Append(rs, r)[j].id = r.id => j = r.id
    BY <1>0, <2>1, <2>2, GrownHistory
  <2>5. RepliesAreDurable'
    BY <2>2, <2>3, <2>4 DEF RepliesAreDurable, Published
  <2> QED
    BY <2>3, <2>5 DEF ReplyInv
<1>5. CASE MarkReverted
  <2>1. /\ manifest = copy /\ manifest.pending = None /\ index \in DOMAIN rs
    BY <1>5 DEF MarkReverted, ReplyInv, IInv, TypeOK, CopyIsFresh, RollbackSteps
  <2>2. /\ manifest'.revisions = [rs EXCEPT ![index].rolledBack = TRUE]
        /\ manifest'.pending = None
        /\ reply' = Reverted(rs[index].proposal, rs[index].previousRevision)
        /\ pc' = "idle"
    BY <1>5, <2>1 DEF MarkReverted, Finish, ReplyInv, IInv, TypeOK, VersionManifest
  <2> DEFINE new == [rs EXCEPT ![index].rolledBack = TRUE]
  <2>3. /\ index \in DOMAIN new /\ new[index].rolledBack
        /\ new[index].proposal = rs[index].proposal
    BY <1>0, <2>1, MarkedHistory
  <2> HIDE DEF rs, new
  <2>4. \E i \in DOMAIN new : new[i].proposal = rs[index].proposal /\ new[i].rolledBack
    BY <2>3
  <2>5. manifest'.revisions = new
    BY <2>2 DEF new
  <2>6. RepliesAreDurable'
    BY <2>2, <2>4, <2>5 DEF RepliesAreDurable, Reverted
  <2> QED
    BY <2>2, <2>6 DEF ReplyInv
<1>6. CASE SavePending \/ CheckActive \/ ReplaceSkill \/ RestoreSkill
  <2>1. pc # "idle" /\ reply' = reply
    BY <1>6 DEF SavePending, CheckActive, ReplaceSkill, RestoreSkill, Step
  <2> QED
    BY <2>1, EmptyReplies DEF ReplyInv
<1>7. CASE RefuseChangedSkill \/ Interrupt
  BY <1>7, EmptyReplies DEF RefuseChangedSkill, Interrupt, Finish, ReplyInv
<1>8. ASSUME NEW s, NEW text, ExternalEdit(s, text) PROVE ReplyInv'
  BY <1>1, <1>8 DEF ExternalEdit, call, ReplyInv
<1>9. CASE UNCHANGED vars
  BY <1>1, <1>9 DEF vars, files, call, ReplyInv
<1> QED
  BY <1>2, <1>3, <1>4, <1>5, <1>6, <1>7, <1>8, <1>9 DEF Next, Continue

\* publish resolves only with an id that names one revision of the manifest
\* file, a live one of the proposal, rollback only for one it holds reverted.
THEOREM DurableReplies == Spec => []RepliesAreDurable
<1>1. Init => ReplyInv
  BY InitInvariant DEF Init, ReplyInv, RepliesAreDurable, NoReply
<1>2. ReplyInv /\ [Next]_vars => ReplyInv'
  BY InvariantStep, ReplyStep DEF ReplyInv
<1>3. ReplyInv => RepliesAreDurable
  BY DEF ReplyInv
<1> QED
  BY <1>1, <1>2, <1>3, PTL DEF Spec

-----------------------------------------------------------------------------
(* External edits.  Once a call has looked at a SKILL.md and found what it   *)
(* knows, the last edit of it is held by a record; an edit that falls        *)
(* between that look and the write is the one that no call can see.          *)

\* Some record of s has the last visible edit of s.
Held(s) ==
  \/ edited[s] = None
  \/ \E i \in DOMAIN manifest.revisions :
       /\ manifest.revisions[i].skill = s
       /\ edited[s] \in {manifest.revisions[i].markdown,
                         manifest.revisions[i].previousMarkdown}
  \/ /\ manifest.pending # None
     /\ manifest.pending.skill = s
     /\ edited[s] \in {manifest.pending.markdown, manifest.pending.previousMarkdown}

EditInv ==
  /\ IInv
  /\ \A s \in Skills : active[s] = edited[s] \/ Held(s)
  /\ pc = "replaceSkill" => Held(copy.pending.skill)
  /\ pc = "restoreSkill" => Held(copy.revisions[index].skill)

\* The records of a history keep their texts.
LEMMA HeldKept ==
  ASSUME IInv, [Next]_vars, NEW s \in Skills, Held(s),
         edited'[s] \in {edited[s], None}
  PROVE  Held(s)'
<1> DEFINE rs == manifest.revisions
<1>1. rs \in Seq(VersionRecord)
  BY DEF IInv, TypeOK, VersionManifest
<1>2. CASE edited'[s] = None
  BY <1>2 DEF Held
<1>3. CASE edited'[s] = edited[s] /\ manifest' = manifest
  BY <1>3 DEF Held
<1>4. CASE edited'[s] = edited[s] /\ Saves
  BY <1>4 DEF Held, Saves
<1>5. CASE edited'[s] = edited[s] /\ Records
  <2> DEFINE new == Append(rs, manifest.pending)
  <2>1. /\ manifest.pending \in VersionRecord
        /\ manifest'.revisions = new
    BY <1>5 DEF Records
  <2>2. /\ DOMAIN new = DOMAIN rs \cup {Len(rs) + 1}
        /\ \A j \in DOMAIN rs : new[j] = rs[j]
        /\ new[Len(rs) + 1] = manifest.pending
    BY <1>1, <2>1, GrownHistory
  <2> HIDE DEF new
  <2> QED
    BY <1>5, <2>1, <2>2 DEF Held
<1>6. ASSUME edited'[s] = edited[s], NEW i \in Nat, Marks(i) PROVE Held(s)'
  <2> DEFINE new == [rs EXCEPT ![i].rolledBack = TRUE]
  <2>1. /\ manifest'.revisions = new
        /\ manifest.pending = None
        /\ i \in DOMAIN rs
    BY <1>6 DEF Marks
  <2>2. /\ DOMAIN new = DOMAIN rs
        /\ \A j \in DOMAIN rs : /\ new[j].skill = rs[j].skill
                                /\ new[j].markdown = rs[j].markdown
                                /\ new[j].previousMarkdown = rs[j].previousMarkdown
    BY <1>1, <2>1, MarkedHistory
  <2> HIDE DEF new
  <2> QED
    BY <1>6, <2>1, <2>2 DEF Held
<1> QED
  BY <1>2, <1>3, <1>4, <1>5, <1>6, ManifestSteps

\* A call that comes to overwrite a SKILL.md has just looked at it.
LEMMA LooksFirst ==
  ASSUME [Next]_vars, pc' \in {"replaceSkill", "restoreSkill"}
  PROVE  \/ CheckActive
         \/ \E p \in Proposals : RollbackNew(p)
         \/ \E s \in Skills, text \in EditedTexts \cup {Null} : ExternalEdit(s, text)
         \/ UNCHANGED vars
BY DEF Next, Continue, StartPublish, StartRollback, PublishExisting, PublishRefused,
   PublishRetry, PublishNew, RollbackRefused, RollbackSettled, Answer, Begin, Finish,
   SavePending, RefuseChangedSkill, ReplaceSkill, RecordRevision, RestoreSkill,
   MarkReverted, Interrupt, Step

\* Which steps touch a SKILL.md, or the record of its edits.
LEMMA ActiveSteps ==
  ASSUME [Next]_vars
  PROVE  \/ UNCHANGED <<active, edits, edited, original>>
         \/ ReplaceSkill
         \/ RestoreSkill
         \/ \E s \in Skills, text \in EditedTexts \cup {Null} : ExternalEdit(s, text)
BY DEF Next, Continue, StartPublish, StartRollback, PublishExisting, PublishRefused,
   PublishRetry, PublishNew, RollbackRefused, RollbackSettled, RollbackNew, Answer, Begin,
   SavePending, CheckActive, RefuseChangedSkill, RecordRevision,
   MarkReverted, Interrupt, files, bounds, history, vars

LEMMA EditStep ==
  ASSUME EditInv, IInv', [Next]_vars PROVE EditInv'
<1>0. /\ active \in [Skills -> Markdown \cup {Null}]
      /\ edited \in [Skills -> Markdown \cup {Null, None}]
      /\ pc \in {"checkActive", "replaceSkill", "restoreSkill"} => manifest = copy
      /\ pc \in {"checkActive", "replaceSkill"} =>
           copy.pending # None /\ copy.pending.skill \in Skills
      /\ pc = "restoreSkill" =>
           /\ index \in DOMAIN copy.revisions
           /\ copy.revisions[index].skill \in Skills
      /\ \A i \in DOMAIN manifest.revisions : manifest.revisions[i].skill \in Skills
  <2>1. TypeOK /\ CopyIsFresh
    BY DEF EditInv, IInv
  <2>2. ASSUME NEW m \in VersionManifest
        PROVE  /\ m.pending # None => m.pending.skill \in Skills
               /\ \A i \in DOMAIN m.revisions : m.revisions[i].skill \in Skills
    <3>1. m.revisions \in Seq(VersionRecord) /\ m.pending \in VersionRecord \cup {None}
      BY DEF VersionManifest
    <3>2. \A i \in DOMAIN m.revisions : m.revisions[i] \in VersionRecord
      BY <3>1
    <3>3. \A v \in VersionRecord : v.skill \in Skills
      BY DEF VersionRecord
    <3> QED
      BY <3>1, <3>2, <3>3
  <2>3. manifest \in VersionManifest /\ copy \in VersionManifest
    BY <2>1 DEF TypeOK
  <2>4. /\ pc \in {"checkActive", "replaceSkill", "restoreSkill"} => manifest = copy
        /\ pc \in {"checkActive", "replaceSkill"} => copy.pending # None
        /\ pc = "restoreSkill" => index \in DOMAIN copy.revisions
    BY <2>1 DEF TypeOK, CopyIsFresh, PublishSteps, RollbackSteps
  <2>5. /\ active \in [Skills -> Markdown \cup {Null}]
        /\ edited \in [Skills -> Markdown \cup {Null, None}]
    BY <2>1 DEF TypeOK
  <2> QED
    BY <2>2, <2>3, <2>4, <2>5
<1>1. ASSUME NEW s \in Skills, NEW s0 \in Skills, NEW text \in EditedTexts \cup {Null},
             ExternalEdit(s0, text)
      PROVE  /\ (active[s] = edited[s] \/ Held(s))'
             /\ edited'[s] \in {edited[s], None} \/ (s = s0 /\ ~Overwriting(s))
  <2> DEFINE last == IF Overwriting(s0) THEN None ELSE text
  <2>0. /\ active' = [active EXCEPT ![s0] = text]
        /\ edited' = [edited EXCEPT ![s0] = last]
    BY <1>1 DEF ExternalEdit
  <2>1. CASE s = s0
    <3>1. active'[s] = text /\ edited'[s] = last
      BY <1>0, <2>0, <2>1
    <3>2. CASE Overwriting(s)
      BY <2>1, <3>1, <3>2 DEF Held
    <3>3. CASE ~Overwriting(s)
      BY <2>1, <3>1, <3>3
    <3> QED
      BY <3>2, <3>3
  <2>2. CASE s # s0
    <3>1. active'[s] = active[s] /\ edited'[s] = edited[s]
      BY <1>0, <2>0, <2>2
    <3> QED
      BY <3>1, HeldKept DEF EditInv
  <2> QED
    BY <2>1, <2>2
<1>2. \A s \in Skills : (active[s] = edited[s] \/ Held(s))'
  <2> SUFFICES ASSUME NEW s \in Skills PROVE (active[s] = edited[s] \/ Held(s))'
    OBVIOUS
  <2>1. CASE UNCHANGED <<active, edits, edited, original>>
    BY <2>1, HeldKept DEF EditInv
  <2>2. CASE ReplaceSkill
    <3>1. edited' = edited /\ pc = "replaceSkill"
          /\ (s # copy.pending.skill => active'[s] = active[s])
      BY <1>0, <2>2 DEF ReplaceSkill, Step, history
    <3> QED
      BY <3>1, HeldKept DEF EditInv
  <2>3. CASE RestoreSkill
    <3>1. edited' = edited /\ pc = "restoreSkill"
          /\ (s # copy.revisions[index].skill => active'[s] = active[s])
      BY <1>0, <2>3 DEF RestoreSkill, Step, history
    <3> QED
      BY <3>1, HeldKept DEF EditInv
  <2> QED
    BY <1>1, <2>1, <2>2, <2>3, ActiveSteps
<1>3. ASSUME pc' \in {"replaceSkill", "restoreSkill"}
      PROVE  /\ pc' = "replaceSkill" => Held(copy.pending.skill)'
             /\ pc' = "restoreSkill" => Held(copy.revisions[index].skill)'
  <2>1. CASE CheckActive
    <3>1. /\ pc = "checkActive" /\ pc' = "replaceSkill" /\ copy' = copy
          /\ manifest' = manifest /\ edited' = edited
          /\ ActiveIsKnown(copy.pending)
      BY <2>1 DEF CheckActive, Step, files, history
    <3>2. Held(copy.pending.skill)
      BY <1>0, <3>1 DEF EditInv, Held, ActiveIsKnown
    <3> QED
      BY <3>1, <3>2 DEF Held
  <2>2. ASSUME NEW p \in Proposals, RollbackNew(p) PROVE Held(copy.revisions[index].skill)' /\ pc' = "restoreSkill"
    <3>1. PICK i \in DOMAIN manifest.revisions :
            /\ ActiveIsKnown(manifest.revisions[i])
            /\ Begin("restoreSkill", manifest, i)
      BY <2>2 DEF RollbackNew
    <3>2. /\ copy' = manifest /\ index' = i /\ manifest' = manifest /\ edited' = edited
          /\ pc' = "restoreSkill"
      BY <3>1 DEF Begin, files, history
    <3>3. Held(manifest.revisions[i].skill)
      BY <1>0, <3>1 DEF EditInv, Held, ActiveIsKnown
    <3> QED
      BY <3>2, <3>3 DEF Held
  <2>3. ASSUME NEW s0 \in Skills, NEW text \in EditedTexts \cup {Null}, ExternalEdit(s0, text)
        PROVE  /\ pc' = "replaceSkill" => Held(copy.pending.skill)'
               /\ pc' = "restoreSkill" => Held(copy.revisions[index].skill)'
    <3>1. UNCHANGED <<manifest, pc, copy, index>>
      BY <2>3 DEF ExternalEdit, call
    <3>2. ASSUME NEW s \in Skills, Held(s), Overwriting(s) PROVE Held(s)'
      BY <1>1, <2>3, <3>2, HeldKept DEF EditInv
    <3>3. CASE pc = "replaceSkill"
      <4>1. Held(copy.pending.skill) /\ Overwriting(copy.pending.skill)
        BY <3>3 DEF EditInv, Overwriting
      <4>2. PICK s \in Skills : s = copy.pending.skill
        BY <1>0, <3>3
      <4>3. Held(s)'
        BY <3>2, <4>1, <4>2
      <4> QED
        BY <3>1, <3>3, <4>2, <4>3
    <3>4. CASE pc = "restoreSkill"
      <4>1. Held(copy.revisions[index].skill) /\ Overwriting(copy.revisions[index].skill)
        BY <3>4 DEF EditInv, Overwriting
      <4>2. PICK s \in Skills : s = copy.revisions[index].skill
        BY <1>0, <3>4
      <4>3. Held(s)'
        BY <3>2, <4>1, <4>2
      <4> QED
        BY <3>1, <3>4, <4>2, <4>3
    <3> QED
      BY <3>1, <3>3, <3>4
  <2>4. CASE UNCHANGED vars
    BY <2>4 DEF vars, files, call, history, EditInv, Held
  <2> QED
    BY <1>3, <2>1, <2>2, <2>3, <2>4, LooksFirst DEF CheckActive, Step
<1> QED
  BY <1>2, <1>3 DEF EditInv

\* An external edit that a call can see stays the active text or is in a
\* record, which a revert brings back.
THEOREM EditsKept == Spec => []EditsAreNotLost
<1>1. Init => EditInv
  BY InitInvariant DEF Init, EditInv, Held
<1>2. EditInv /\ [Next]_vars => EditInv'
  BY InvariantStep, EditStep DEF EditInv
<1>3. EditInv => EditsAreNotLost
  BY DEF EditInv, Held, EditsAreNotLost
<1> QED
  BY <1>1, <1>2, <1>3, PTL DEF Spec

-----------------------------------------------------------------------------
(* The text a skill shows.  The live revisions of a skill are a stack: each  *)
(* rests on the one below it, and what it replaced is a text of that one.    *)
(* A revert takes off the top, so that the text it restores is one of the    *)
(* revision that becomes the current.                                        *)

\* The texts of position i of the history rs of skill s; 0 is what was before.
Texts(rs, s, i) ==
  IF i = 0 THEN {original[s]} ELSE {rs[i].markdown, rs[i].previousMarkdown}

\* The record r lies directly on the live revision it names, and keeps its text.
Stacked(rs, r) ==
  /\ r.previousMarkdown \in Texts(rs, r.skill, r.previousRevision)
  /\ \A j \in DOMAIN rs : r.previousRevision < j /\ j < r.id => ~LiveFor(rs, r.skill, j)

StackInv ==
  LET rs == manifest.revisions IN
    /\ \A i \in DOMAIN rs : ~rs[i].rolledBack => Stacked(rs, rs[i])
    /\ manifest.pending # None => Stacked(rs, manifest.pending)
    /\ pc = "savePending" => Stacked(rs, copy.pending)

\* The text of s that the history, or a step half done, accounts for.
Shown(s) ==
  \A i \in 0..Len(manifest.revisions) :
    IsCurrent(manifest.revisions, s, i) =>
      active[s] \in Texts(manifest.revisions, s, i)
                    \cup (IF manifest.pending # None /\ manifest.pending.skill = s
                          THEN {manifest.pending.markdown} ELSE {})

\* What the call has just written is on the SKILL.md.
WrittenInv ==
  /\ pc = "recordRevision" => active[copy.pending.skill] = copy.pending.markdown
  /\ pc = "markReverted" =>
       active[copy.revisions[index].skill] = copy.revisions[index].previousMarkdown

ShownInv ==
  /\ IInv
  /\ edits = 0 => StackInv /\ (\A s \in Skills : Shown(s)) /\ WrittenInv

\* A step that makes no edit leaves what was before any publication.
LEMMA NoEdit ==
  ASSUME IInv, [Next]_vars, edits' = 0
  PROVE  /\ edits = 0
         /\ original' = original
         /\ UNCHANGED active \/ ReplaceSkill \/ RestoreSkill
<1>1. edits \in Nat
  BY BoundsAssumption DEF IInv, TypeOK
<1>2. ASSUME NEW s \in Skills, NEW text, ExternalEdit(s, text) PROVE FALSE
  BY <1>1, <1>2 DEF ExternalEdit
<1>3. CASE ReplaceSkill \/ RestoreSkill
  BY <1>3 DEF ReplaceSkill, RestoreSkill, bounds, history
<1> QED
  BY <1>2, <1>3, ActiveSteps

\* A stacked record stays so when a record is appended above it.
LEMMA StackedBelow ==
  ASSUME NEW rs \in Seq(VersionRecord), NEW r \in VersionRecord, NEW x \in VersionRecord,
         original' = original,
         x.id \in 1..(Len(rs) + 1), x.previousRevision < x.id,
         Stacked(rs, x)
  PROVE  Stacked(Append(rs, r), x)'
<1> DEFINE new == Append(rs, r)
<1>1. /\ DOMAIN new = DOMAIN rs \cup {Len(rs) + 1}
      /\ \A j \in DOMAIN rs : new[j] = rs[j]
      /\ DOMAIN rs = 1..Len(rs) /\ Len(rs) \in Nat
  BY GrownHistory
<1>2. x.previousRevision \in Nat /\ x.id \in Nat
  BY DEF VersionRecord
<1>3. x.previousRevision # 0 => x.previousRevision \in DOMAIN rs
  BY <1>1, <1>2
<1> HIDE DEF new
<1>4. Texts(new, x.skill, x.previousRevision)' = Texts(rs, x.skill, x.previousRevision)
  BY <1>1, <1>3 DEF Texts
<1>5. \A j \in DOMAIN new : x.previousRevision < j /\ j < x.id =>
        j \in DOMAIN rs /\ new[j] = rs[j]
  BY <1>1, <1>2
<1>6. Stacked(new, x)'
  BY <1>4, <1>5 DEF Stacked, LiveFor
<1> QED
  BY <1>6 DEF new

\* A stacked record stays so when another is marked reverted.
LEMMA StackedMarked ==
  ASSUME NEW rs \in Seq(VersionRecord), NEW k \in DOMAIN rs, NEW x \in VersionRecord,
         original' = original,
         x.previousRevision # 0 => x.previousRevision \in DOMAIN rs,
         Stacked(rs, x)
  PROVE  Stacked([rs EXCEPT ![k].rolledBack = TRUE], x)'
<1> DEFINE new == [rs EXCEPT ![k].rolledBack = TRUE]
<1>1. /\ DOMAIN new = DOMAIN rs
      /\ \A j \in DOMAIN rs : /\ new[j].skill = rs[j].skill
                              /\ new[j].markdown = rs[j].markdown
                              /\ new[j].previousMarkdown = rs[j].previousMarkdown
                              /\ rs[j].rolledBack => new[j].rolledBack
  BY MarkedHistory
<1> HIDE DEF new
<1>2. Texts(new, x.skill, x.previousRevision)' = Texts(rs, x.skill, x.previousRevision)
  BY <1>1 DEF Texts
<1>3. Stacked(new, x)'
  BY <1>1, <1>2 DEF Stacked, LiveFor
<1> QED
  BY <1>3 DEF new

\* The record that a new publication is about to save lies on the current one.
LEMMA NewIsStacked ==
  ASSUME IInv, \A s \in Skills : Shown(s), original' = original,
         NEW p \in Proposals, NEW a \in Artifacts[p], PublishNew(p, a)
  PROVE  (pc = "savePending" => Stacked(manifest.revisions, copy.pending))'
<1> DEFINE rs == manifest.revisions
<1>1. rs \in Seq(VersionRecord) /\ \A i \in DOMAIN rs : rs[i].id = i
  BY DEF IInv, TypeOK, VersionManifest, IdsArePositions
<1>2. PICK i \in 0..Len(rs) :
        /\ IsCurrent(rs, a.skill, i)
        /\ Begin("savePending", [manifest EXCEPT !.pending = NewRecord(p, a, i)], 0)
  BY DEF PublishNew
<1>3. a.skill \in Skills
  BY ArtifactsAssumption DEF Artifact
<1> DEFINE r == NewRecord(p, a, i)
<1>4. /\ r.skill = a.skill /\ r.id = Len(rs) + 1
      /\ r.previousRevision = i
      /\ r.previousMarkdown = active[a.skill]
  BY <1>1, <1>2 DEF NewRecord
<1>5. active[a.skill] \in Texts(rs, a.skill, i)
  BY <1>2, <1>3 DEF Shown, PublishNew
<1>6. copy'.pending = r /\ manifest' = manifest
  BY <1>2 DEF Begin, files, IInv, TypeOK, VersionManifest
<1> HIDE DEF r, rs
<1>7. Stacked(rs, r)
  BY <1>2, <1>4, <1>5 DEF Stacked, IsCurrent
<1>8. PICK v : v = r
  OBVIOUS
<1>9. Stacked(rs, v)
  BY <1>7, <1>8
<1> QED
  BY <1>6, <1>8, <1>9 DEF Stacked, Texts, LiveFor, rs

\* Only a new publication brings a call to its first write.
LEMMA SavesFirst ==
  ASSUME IInv, [Next]_vars, pc' = "savePending", edits' = 0
  PROVE  \/ \E p \in Proposals : \E a \in Artifacts[p] : PublishNew(p, a)
         \/ pc = "savePending" /\ UNCHANGED <<manifest, copy>>
<1>1. edits \in Nat
  BY BoundsAssumption DEF IInv, TypeOK
<1>2. ASSUME NEW s \in Skills, NEW text, ExternalEdit(s, text) PROVE FALSE
  BY <1>1, <1>2 DEF ExternalEdit
<1> QED
  BY <1>2 DEF Next, Continue, StartPublish, StartRollback, PublishExisting, PublishRefused,
   PublishRetry, RollbackRefused, RollbackSettled, RollbackNew, Answer, Begin, Finish,
   SavePending, CheckActive, RefuseChangedSkill, ReplaceSkill, RecordRevision,
   RestoreSkill, MarkReverted, Interrupt, Step, vars, files, call

\* Only the first write of a publication saves a pending record.
LEMMA SavesBySaving ==
  ASSUME IInv, [Next]_vars, Saves PROVE SavePending
<1>1. manifest.pending = None /\ manifest'.pending # None
  BY NoneAssumption DEF Saves
<1>2. CASE RecordRevision
  BY <1>1, <1>2 DEF RecordRevision
<1>3. CASE MarkReverted
  <2>1. copy = manifest /\ manifest \in VersionManifest
    BY <1>3 DEF MarkReverted, IInv, TypeOK, CopyIsFresh, RollbackSteps
  <2>2. manifest'.pending = copy.pending
    BY <1>3, <2>1 DEF MarkReverted, VersionManifest
  <2> QED
    BY <1>1, <2>1, <2>2
<1>4. manifest' # manifest
  BY <1>1
<1> QED
  BY <1>2, <1>3, <1>4 DEF vars, files, Next, Continue, StartPublish, StartRollback,
       PublishExisting, PublishRefused, PublishRetry, PublishNew,
       RollbackRefused, RollbackSettled, RollbackNew, Answer, Begin,
       CheckActive, RefuseChangedSkill, ReplaceSkill, RestoreSkill,
       Interrupt, ExternalEdit

LEMMA StackStep ==
  ASSUME ShownInv, IInv', [Next]_vars, edits' = 0 PROVE StackInv'
<1> DEFINE rs == manifest.revisions
<1>1. /\ IInv /\ StackInv /\ (\A s \in Skills : Shown(s)) /\ original' = original
  BY NoEdit DEF ShownInv
<1>2. /\ rs \in Seq(VersionRecord)
      /\ manifest.pending \in VersionRecord \cup {None}
      /\ \A i \in DOMAIN rs : rs[i].id = i /\ rs[i] \in VersionRecord
      /\ DOMAIN rs = 1..Len(rs) /\ Len(rs) \in Nat
  BY <1>1 DEF IInv, TypeOK, VersionManifest, IdsArePositions
<1>3. \A i \in DOMAIN rs : ~rs[i].rolledBack => Stacked(rs, rs[i]) /\ RestsOnLive(rs, rs[i])
  BY <1>1 DEF StackInv, IInv, LiveRestsOnLive
<1>4. (pc = "savePending" => Stacked(manifest.revisions, copy.pending))'
  <2>1. CASE pc' # "savePending"
    BY <2>1
  <2>2. ASSUME NEW p \in Proposals, NEW a \in Artifacts[p], PublishNew(p, a)
        PROVE  (pc = "savePending" => Stacked(manifest.revisions, copy.pending))'
    BY <1>1, <2>2, NewIsStacked
  <2>3. CASE pc = "savePending" /\ UNCHANGED <<manifest, copy>>
    BY <1>1, <2>3 DEF StackInv, Stacked, Texts, LiveFor
  <2> QED
    BY <1>1, <2>1, <2>2, <2>3, SavesFirst
<1>5. CASE manifest' = manifest
  BY <1>1, <1>4, <1>5 DEF StackInv, Stacked, Texts, LiveFor
<1>6. CASE SavePending
  <2>1. /\ manifest'.revisions = rs /\ manifest'.pending = copy.pending
        /\ Stacked(rs, copy.pending)
    BY <1>1, <1>6 DEF SavePending, Step, StackInv, IInv, CopyIsFresh
  <2>2. PICK v : v = copy.pending
    OBVIOUS
  <2>3. Stacked(rs, v)'
    BY <1>1, <2>1, <2>2 DEF Stacked, Texts, LiveFor
  <2>4. \A i \in DOMAIN rs : ~rs[i].rolledBack => Stacked(rs, rs[i])'
    BY <1>1, <1>3, <2>1 DEF Stacked, Texts, LiveFor
  <2> QED
    BY <1>4, <2>1, <2>2, <2>3, <2>4 DEF StackInv
<1>7. CASE Records
  <2>1. PICK r \in VersionRecord : r = manifest.pending
    BY <1>7 DEF Records
  <2>2. PICK old \in Seq(VersionRecord) : old = rs
    BY <1>2
  <2>3. manifest'.revisions = Append(old, r) /\ manifest'.pending = None
    BY <1>7, <2>1, <2>2 DEF Records
  <2>4. Stacked(old, r) /\ r.id = Len(old) + 1 /\ r.previousRevision < r.id
    <3>1. manifest.pending # None
      BY <2>1, NoneAssumption
    <3> QED
      BY <1>1, <2>1, <2>2, <3>1 DEF StackInv, IInv, PendingFits, RestsOnLive
  <2>5. Stacked(Append(old, r), r)'
    BY <1>1, <1>2, <2>2, <2>4, StackedBelow
  <2>6. \A i \in DOMAIN old : ~old[i].rolledBack => Stacked(Append(old, r), old[i])'
    <3> TAKE i \in DOMAIN old
    <3> HAVE ~old[i].rolledBack
    <3>1. /\ old[i] \in VersionRecord /\ old[i].id = i /\ i \in 1..(Len(old) + 1)
          /\ Stacked(old, old[i]) /\ old[i].previousRevision < old[i].id
      BY <1>2, <1>3, <2>2 DEF RestsOnLive
    <3>2. PICK x \in VersionRecord : x = old[i]
      BY <3>1
    <3>3. Stacked(Append(old, r), x)'
      BY <1>1, <3>1, <3>2, StackedBelow
    <3> QED
      BY <3>2, <3>3
  <2> DEFINE new == Append(old, r)
  <2>7. /\ DOMAIN new = DOMAIN old \cup {Len(old) + 1}
        /\ \A j \in DOMAIN old : new[j] = old[j]
        /\ new[Len(old) + 1] = r
    BY GrownHistory
  <2> HIDE DEF new
  <2>8. \A i \in DOMAIN new : ~new[i].rolledBack => Stacked(new, new[i])'
    BY <2>5, <2>6, <2>7 DEF new
  <2> QED
    BY <1>4, <2>3, <2>8 DEF StackInv, new
<1>8. ASSUME NEW k \in Nat, Marks(k) PROVE StackInv'
  <2>1. PICK old \in Seq(VersionRecord) : old = rs
    BY <1>2
  <2> DEFINE new == [old EXCEPT ![k].rolledBack = TRUE]
  <2>2. /\ manifest'.revisions = new /\ manifest'.pending = None
        /\ k \in DOMAIN old
    BY <1>8, <2>1 DEF Marks
  <2>3. /\ DOMAIN new = DOMAIN old
        /\ new[k].rolledBack
        /\ \A j \in DOMAIN old : j # k => new[j] = old[j]
    BY <2>2, MarkedHistory
  <2>4. \A i \in DOMAIN old : ~old[i].rolledBack => Stacked(new, old[i])'
    <3> SUFFICES ASSUME NEW i \in DOMAIN old, ~old[i].rolledBack
                 PROVE  Stacked(new, old[i])'
      OBVIOUS
    <3>1. /\ old[i] \in VersionRecord /\ old[i].id = i /\ i \in DOMAIN old
          /\ Stacked(old, old[i]) /\ RestsOnLive(old, old[i])
      BY <1>2, <1>3, <2>1
    <3>2. PICK x \in VersionRecord : x = old[i]
      BY <3>1
    <3>3. x.previousRevision # 0 => x.previousRevision \in DOMAIN old
      BY <1>2, <2>1, <3>1, <3>2 DEF RestsOnLive, VersionRecord
    <3>4. Stacked(new, x)'
      BY <1>1, <2>2, <3>1, <3>2, <3>3, StackedMarked
    <3> QED
      BY <3>2, <3>4
  <2> HIDE DEF new
  <2>5. \A i \in DOMAIN new : ~new[i].rolledBack => Stacked(new, new[i])'
    BY <2>3, <2>4
  <2> QED
    BY <1>4, <2>2, <2>5 DEF StackInv
<1> QED
  BY <1>1, <1>5, <1>6, <1>7, <1>8, ManifestSteps, SavesBySaving

\* What a call has written, and nobody has edited since.
LEMMA WrittenStep ==
  ASSUME ShownInv, IInv', [Next]_vars, edits' = 0 PROVE WrittenInv'
<1>1. IInv /\ WrittenInv
  BY NoEdit DEF ShownInv
<1>2. /\ active \in [Skills -> Markdown \cup {Null}]
      /\ pc = "replaceSkill" => copy.pending.skill \in Skills
      /\ pc = "restoreSkill" => copy.revisions[index].skill \in Skills
  <2>1. copy \in VersionManifest /\ (pc = "replaceSkill" => copy.pending \in VersionRecord)
        /\ (pc = "restoreSkill" => copy.revisions[index] \in VersionRecord)
    BY <1>1 DEF IInv, TypeOK, PublishSteps, RollbackSteps, VersionManifest
  <2>2. \A v \in VersionRecord : v.skill \in Skills
    BY DEF VersionRecord
  <2> QED
    BY <1>1, <2>1, <2>2 DEF IInv, TypeOK
<1>3. CASE ReplaceSkill
  BY <1>2, <1>3 DEF ReplaceSkill, Step, WrittenInv
<1>4. CASE RestoreSkill
  BY <1>2, <1>4 DEF RestoreSkill, Step, WrittenInv
<1>5. CASE pc' \notin {"recordRevision", "markReverted"}
  BY <1>5 DEF WrittenInv
<1>6. CASE UNCHANGED vars
  BY <1>1, <1>6 DEF vars, files, call, WrittenInv
<1>7. edits \in Nat
  BY <1>1, BoundsAssumption DEF IInv, TypeOK
<1>8. ASSUME NEW s \in Skills, NEW text, ExternalEdit(s, text) PROVE FALSE
  BY <1>7, <1>8 DEF ExternalEdit
<1> QED
  BY <1>3, <1>4, <1>5, <1>6, <1>8 DEF Next, Continue, StartPublish, StartRollback,
     PublishExisting, PublishRefused, PublishRetry, PublishNew, RollbackRefused,
     RollbackSettled, RollbackNew, Answer, Begin, Finish, SavePending, CheckActive,
     RefuseChangedSkill, RecordRevision, MarkReverted, Interrupt, Step

\* A step that leaves the histories of skills alone keeps what they account for.
LEMMA ShownKept ==
  ASSUME NEW s, Shown(s), manifest'.revisions = manifest.revisions, original' = original,
         active'[s] = active[s],
         \/ manifest'.pending = manifest.pending
         \/ manifest.pending = None
  PROVE  Shown(s)'
BY DEF Shown, Texts, IsCurrent, LiveFor

\* The revision that is recorded becomes the current of its skill.
LEMMA ShownRecorded ==
  ASSUME ShownInv, edits = 0, original' = original, RecordRevision, NEW s \in Skills
  PROVE  Shown(s)'
<1> DEFINE rs == manifest.revisions
<1>1. /\ manifest = copy /\ manifest.pending \in VersionRecord /\ manifest.pending # None
      /\ rs \in Seq(VersionRecord)
  BY DEF ShownInv, IInv, TypeOK, CopyIsFresh, PublishSteps, RecordRevision, VersionManifest
<1> PICK r \in VersionRecord : r = manifest.pending
  BY <1>1
<1> DEFINE new == Append(rs, r)
           n == Len(rs) + 1
<1>2. /\ manifest'.revisions = new /\ manifest'.pending = None /\ active' = active
      /\ active[r.skill] = r.markdown
  BY <1>1 DEF RecordRevision, ShownInv, WrittenInv
<1>3. ~r.rolledBack
  BY <1>1 DEF ShownInv, IInv, PendingFits
<1>4. /\ DOMAIN new = DOMAIN rs \cup {n} /\ Len(new) = n
      /\ \A j \in DOMAIN rs : new[j] = rs[j]
      /\ new[n] = r
      /\ DOMAIN rs = 1..Len(rs) /\ Len(rs) \in Nat
  BY <1>1, GrownHistory
<1>5. \A i \in 0..Len(rs) : IsCurrent(rs, s, i) =>
        active[s] \in Texts(rs, s, i)
                      \cup (IF manifest.pending # None /\ manifest.pending.skill = s
                            THEN {manifest.pending.markdown} ELSE {})
  BY DEF ShownInv, Shown
<1> HIDE DEF rs, new, n
<1>6. \A i \in 0..n : IsCurrent(new, s, i) => active[s] \in Texts(new, s, i)
  <2> TAKE i \in 0..n
  <2> HAVE IsCurrent(new, s, i)
  <2>1. CASE r.skill = s
    <3>1. LiveFor(new, s, n)
      BY <1>3, <1>4, <2>1 DEF LiveFor
    <3>2. i = n
      BY <1>4, <3>1 DEF IsCurrent, n
    <3>3. n # 0
      BY <1>4 DEF n
    <3> QED
      BY <1>2, <1>4, <2>1, <3>2, <3>3 DEF Texts
  <2>2. CASE r.skill # s
    <3>1. ~LiveFor(new, s, n)
      BY <1>4, <2>2 DEF LiveFor
    <3>2. i # n
      BY <1>4, <3>1 DEF IsCurrent, n
    <3>3. i \in 0..Len(rs)
      BY <1>4, <3>2 DEF n
    <3>4. IsCurrent(rs, s, i)
      BY <1>4, <3>2, <3>3 DEF IsCurrent, LiveFor
    <3>5. active[s] \in Texts(rs, s, i)
      BY <1>5, <2>2, <3>3, <3>4
    <3>6. i # 0 => i \in DOMAIN rs
      BY <1>4, <3>3
    <3> QED
      BY <1>4, <3>5, <3>6 DEF Texts
  <2> QED
    BY <2>1, <2>2
<1> QED
  BY <1>2, <1>4, <1>6 DEF Shown, Texts

\* The revision under the one that is marked becomes the current of its skill.
LEMMA ShownMarked ==
  ASSUME ShownInv, edits = 0, original' = original, MarkReverted, NEW s \in Skills
  PROVE  Shown(s)'
<1> DEFINE rs == manifest.revisions
           new == [rs EXCEPT ![index].rolledBack = TRUE]
           below == rs[index].previousRevision
<1>1. /\ manifest = copy /\ manifest.pending = None /\ index \in DOMAIN rs
      /\ rs \in Seq(VersionRecord)
      /\ IsCurrent(rs, rs[index].skill, index)
      /\ \A i \in DOMAIN rs : rs[i].id = i /\ rs[i] \in VersionRecord
  BY DEF ShownInv, IInv, TypeOK, CopyIsFresh, RollbackSteps, MarkReverted, VersionManifest,
         IdsArePositions
<1>2. /\ manifest'.revisions = new /\ manifest'.pending = None /\ active' = active
      /\ active[rs[index].skill] = rs[index].previousMarkdown
  BY <1>1 DEF MarkReverted, ShownInv, WrittenInv, IInv, TypeOK, VersionManifest
<1>3. /\ DOMAIN new = DOMAIN rs /\ Len(new) = Len(rs)
      /\ \A j \in DOMAIN rs : j # index => new[j] = rs[j]
      /\ new[index].rolledBack
      /\ \A j \in DOMAIN rs : /\ new[j].skill = rs[j].skill
                              /\ new[j].markdown = rs[j].markdown
                              /\ new[j].previousMarkdown = rs[j].previousMarkdown
      /\ DOMAIN rs = 1..Len(rs) /\ Len(rs) \in Nat
  BY <1>1, MarkedHistory
<1>4. ~rs[index].rolledBack
  BY <1>1, <1>3 DEF IsCurrent, LiveFor
<1>5. Stacked(rs, rs[index]) /\ RestsOnLive(rs, rs[index])
  BY <1>1, <1>4 DEF ShownInv, StackInv, IInv, LiveRestsOnLive
<1>6. below \in Nat /\ below < index /\ index \in Nat
  BY <1>1, <1>3, <1>5 DEF RestsOnLive, VersionRecord
<1>7. \A i \in 0..Len(rs) : IsCurrent(rs, s, i) => active[s] \in Texts(rs, s, i)
  BY <1>1 DEF ShownInv, Shown
<1> HIDE DEF rs, new, below
<1>8. \A i \in 0..Len(rs) : IsCurrent(new, s, i) => active[s] \in Texts(new, s, i)
  <2> TAKE i \in 0..Len(rs)
  <2> HAVE IsCurrent(new, s, i)
  <2>0. Texts(new, s, i) = Texts(rs, s, i)
    <3>1. i # 0 => i \in DOMAIN rs
      BY <1>3
    <3> QED
      BY <1>3, <3>1 DEF Texts
  <2>1. CASE rs[index].skill = s
    <3>1. \A j \in DOMAIN rs : j > below => ~LiveFor(new, s, j)
      <4> TAKE j \in DOMAIN rs
      <4> HAVE j > below
      <4>1. CASE j = index
        BY <1>3, <4>1 DEF LiveFor
      <4>2. CASE j > index
        BY <1>1, <1>3, <2>1, <4>2 DEF IsCurrent, LiveFor
      <4>3. CASE j < index
        <5>1. ~LiveFor(rs, s, j)
          BY <1>1, <1>5, <1>6, <2>1, <4>3 DEF Stacked, below
        <5> QED
          BY <1>3, <5>1, <4>3, <1>6 DEF LiveFor
      <4> QED
        BY <1>3, <1>6, <4>1, <4>2, <4>3
    <3>2. below # 0 => below \in DOMAIN rs /\ LiveFor(new, s, below)
      BY <1>1, <1>3, <1>5, <1>6, <2>1 DEF RestsOnLive, LiveFor, below
    <3>3. i = below
      BY <1>3, <1>6, <3>1, <3>2 DEF IsCurrent
    <3>4. active[s] \in Texts(rs, s, below)
      BY <1>2, <1>5, <2>1 DEF Stacked, below
    <3> QED
      BY <2>0, <3>3, <3>4
  <2>2. CASE rs[index].skill # s
    <3>1. IsCurrent(rs, s, i)
      BY <1>1, <1>3, <2>2 DEF IsCurrent, LiveFor
    <3> QED
      BY <1>7, <2>0, <3>1
  <2> QED
    BY <2>1, <2>2
<1> QED
  BY <1>2, <1>3, <1>8 DEF Shown, Texts

LEMMA ShownStep ==
  ASSUME ShownInv, IInv', [Next]_vars, edits' = 0, NEW s \in Skills PROVE Shown(s)'
<1>1. edits = 0 /\ original' = original /\ IInv /\ Shown(s)
  BY NoEdit DEF ShownInv
<1>2. CASE ReplaceSkill
  <2>1. /\ manifest = copy /\ manifest' = manifest
        /\ manifest.pending # None /\ manifest.pending.skill \in Skills
    BY <1>1, <1>2 DEF ReplaceSkill, Step, IInv, TypeOK, CopyIsFresh, PublishSteps,
                      VersionManifest, VersionRecord
  <2>2. active' = [active EXCEPT ![manifest.pending.skill] = manifest.pending.markdown]
    BY <1>2, <2>1 DEF ReplaceSkill
  <2>3. CASE s = manifest.pending.skill
    <3>1. active'[s] = manifest.pending.markdown
      BY <1>1, <2>2, <2>3 DEF IInv, TypeOK
    <3> QED
      BY <2>1, <2>3, <3>1 DEF Shown
  <2>4. CASE s # manifest.pending.skill
    <3>1. active'[s] = active[s]
      BY <1>1, <2>2, <2>4 DEF IInv, TypeOK
    <3> QED
      BY <1>1, <2>1, <3>1, ShownKept
  <2> QED
    BY <2>3, <2>4
<1>3. CASE RestoreSkill
  <2> DEFINE rs == manifest.revisions
  <2>1. /\ manifest = copy /\ manifest' = manifest /\ index \in DOMAIN rs
        /\ rs \in Seq(VersionRecord) /\ IsCurrent(rs, rs[index].skill, index)
    BY <1>1, <1>3 DEF RestoreSkill, Step, IInv, TypeOK, CopyIsFresh, RollbackSteps,
                      VersionManifest
  <2>2. active' = [active EXCEPT ![rs[index].skill] = rs[index].previousMarkdown]
    BY <1>3, <2>1 DEF RestoreSkill
  <2>3. CASE s = rs[index].skill
    <3>1. active'[s] = rs[index].previousMarkdown
      BY <1>1, <2>2, <2>3 DEF IInv, TypeOK
    <3>2. index \in 1..Len(rs)
      BY <2>1
    <3>3. LiveFor(rs, s, index)
      BY <2>1, <2>3, <3>2 DEF IsCurrent
    <3>4. \A i \in 0..Len(rs) : IsCurrent(rs, s, i) => i = index
      <4> TAKE i \in 0..Len(rs)
      <4> HAVE IsCurrent(rs, s, i)
      <4>1. ~(index > i)
        BY <2>1, <3>3 DEF IsCurrent
      <4>2. ~(i > index)
        <5>1. i > index => i \in DOMAIN rs
          BY <2>1, <3>2
        <5> QED
          BY <2>1, <2>3, <3>2, <5>1 DEF IsCurrent
      <4> QED
        BY <3>2, <4>1, <4>2
    <3> HIDE DEF rs
    <3>5. PICK k : k = index
      OBVIOUS
    <3>6. active'[s] \in Texts(rs, s, k)'
      BY <2>1, <3>1, <3>2, <3>5 DEF Texts, rs
    <3>7. \A i \in 0..Len(rs) : IsCurrent(rs, s, i)' => i = k
      BY <2>1, <3>4, <3>5 DEF IsCurrent, LiveFor, rs
    <3> QED
      BY <2>1, <3>6, <3>7 DEF Shown, rs
  <2>4. CASE s # rs[index].skill
    <3>1. active'[s] = active[s]
      BY <1>1, <2>2, <2>4 DEF IInv, TypeOK
    <3> QED
      BY <1>1, <2>1, <3>1, ShownKept
  <2> QED
    BY <2>3, <2>4
<1>4. CASE RecordRevision
  BY <1>1, <1>4, ShownRecorded
<1>5. CASE MarkReverted
  BY <1>1, <1>5, ShownMarked
<1>6. CASE SavePending
  <2>1. active' = active /\ manifest'.revisions = manifest.revisions /\ manifest.pending = None
    BY <1>1, <1>6 DEF SavePending, Step, IInv, CopyIsFresh
  <2> QED
    BY <1>1, <2>1, ShownKept
<1>7. CASE UNCHANGED <<active, manifest>>
  BY <1>1, <1>7, ShownKept
<1>8. ASSUME NEW s0 \in Skills, NEW text, ExternalEdit(s0, text) PROVE FALSE
  <2>1. edits \in Nat
    BY <1>1
  <2> QED
    BY <1>1, <1>8, <2>1 DEF ExternalEdit
<1> QED
  BY <1>2, <1>3, <1>4, <1>5, <1>6, <1>7, <1>8
     DEF vars, files, Next, Continue, StartPublish, StartRollback,
       PublishExisting, PublishRefused, PublishRetry, PublishNew,
       RollbackRefused, RollbackSettled, RollbackNew, Answer, Begin,
       CheckActive, RefuseChangedSkill, Interrupt

\* Unless somebody edits, a skill shows a text of its current revision, or of
\* the publication that is under way; with every revision reverted, what it
\* held before the first.
THEOREM ShowsHistory == Spec => []ActiveMatchesHistory
<1>1. Init => ShownInv
  <2> SUFFICES ASSUME Init PROVE ShownInv
    OBVIOUS
  <2>1. /\ manifest.revisions = <<>> /\ manifest.pending = None /\ pc = "idle"
        /\ original = active
    BY DEF Init, EmptyManifest
  <2>2. DOMAIN manifest.revisions = {} /\ Len(manifest.revisions) = 0
    BY <2>1
  <2>3. StackInv
    BY <2>1, <2>2 DEF StackInv
  <2>4. \A s \in Skills : Shown(s)
    BY <2>1, <2>2 DEF Shown, Texts
  <2>5. WrittenInv
    BY <2>1 DEF WrittenInv
  <2> QED
    BY <2>3, <2>4, <2>5, InitInvariant DEF ShownInv
<1>2. ShownInv /\ [Next]_vars => ShownInv'
  <2> SUFFICES ASSUME ShownInv, [Next]_vars PROVE ShownInv'
    OBVIOUS
  <2>1. IInv'
    BY InvariantStep DEF ShownInv
  <2>2. ASSUME edits' = 0 PROVE StackInv' /\ (\A s \in Skills : Shown(s))' /\ WrittenInv'
    BY <2>1, <2>2, StackStep, ShownStep, WrittenStep
  <2> QED
    BY <2>1, <2>2 DEF ShownInv
<1>3. ShownInv => ActiveMatchesHistory
  BY DEF ShownInv, Shown, Texts, ActiveMatchesHistory
<1> QED
  BY <1>1, <1>2, <1>3, PTL DEF Spec
=============================================================================
