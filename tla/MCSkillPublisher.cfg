SPECIFICATION FairSpec
CONSTANTS
  p1 = p1
  p2 = p2
  p3 = p3
  s1 = s1
  s2 = s2
  a = a
  b = b
  e = e
  Null = Null
  None = None
  Proposals <- MCProposals
  Skills <- MCSkills
  Markdown <- MCMarkdown
  Artifacts <- MCArtifacts
  Preexisting = {e}
  EditedTexts = {e}
  MaxEdits = 1
  MaxInterrupts = 3
INVARIANTS
  TypeOK
  OneRevisionPerProposal
  LiveRestsOnLive
  ActiveMatchesHistory
  RepliesAreDurable
  EditsAreNotLost
PROPERTIES
  ImplementsHistory
  PendingIsResolved
