SPECIFICATION FairSpec
CONSTANTS
  d1 = d1
  d2 = d2
  v1 = v1
  v2 = v2
  w1 = w1
  w2 = w2
  c1 = c1
  None = None
  Row <- MCRow
  KeyOf <- MCKeyOf
  Parent <- MCParent
  NTables = 2
  TableOf <- MCTableOf
  Catalogue = {1}
  Writer <- MCOneWriter
  Pushes <- MCPushesAll
  Skipping = {}
  Client <- MCClient
  Visible <- MCVisible
  PageLimit = 1
  MaxSeq = 3
  MaxLosses = 1
PROPERTIES
  Convergence
