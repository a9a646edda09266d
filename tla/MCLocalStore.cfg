SPECIFICATION Spec
CONSTANTS
  Keys = {k1, k2}
  Identity <- SameSource
  MaxWrites = 3
  MaxCloseFailures = 1
  None = None
SYMMETRY KeySymmetry
INVARIANTS
  TypeOK
  ResolvedIsDurable
  VisibleProposalsAreDurable
  OneEvidencePerIdentity
PROPERTIES
  ProposalWritesAreGuarded
