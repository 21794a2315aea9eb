SPECIFICATION FairSpec
CONSTANTS
  t = t
  e = e
  Row <- MCRow
  Catalog <- MCCatalog
  TypesOf <- MCTypesOf
  BadRows <- MCNone
  Guarded <- MCCatalog
  PushLimit = 2
  Keep = 2
  MaxEdits = 2
  MaxSeq = 9
  MaxFaults = 2
INVARIANTS
  TypeOK
  NoSilentDivergence
  SyncedMeansReceived
  QuietEditsSurvive
PROPERTIES
  Settles
