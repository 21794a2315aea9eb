SPECIFICATION Spec
CONSTANTS
  d1 = d1
  d2 = d2
  v1 = v1
  v2 = v2
  w1 = w1
  w2 = w2
  c1 = c1
  None = None
  Row <- MCRow
  KeyOf <- MCKeyOf
  Parent <- MCParent
  NTables = 2
  TableOf <- MCTableOf
  Catalogue = {1}
  Writer <- MCTwoWriters
  Pushes <- MCPushes
  Skipping = {w2}
  Client <- MCClient
  Visible <- MCVisible
  PageLimit = 1
  MaxSeq = 4
  MaxLosses = 0
INVARIANTS
  TypeOK
  NoSilentMiss
  ProjectionFollowsLedger
PROPERTIES
  StaleOnlyInWindow
