SPECIFICATION Spec
CONSTANTS
  Clients = {c1, c2}
  Keys = {k1, k2}
  Agents = {a1, a2}
  Sources = {s}
  Empty = Empty
  None = None
  MaxStatements = 3
SYMMETRY Symmetry
INVARIANTS
  TypeOK
  ColumnsMatchPayload
  OneEvidencePerIdentity
PROPERTIES
  ImplementsStore
CHECK_DEADLOCK FALSE
