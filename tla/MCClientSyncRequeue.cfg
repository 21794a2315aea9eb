SPECIFICATION Spec
CONSTANTS
  t = t
  e = e
  Row <- MCRow
  Catalog <- MCNone
  TypesOf <- MCNoTypes
  BadRows <- MCNone
  Guarded <- MCCatalog
  PushLimit = 2
  Keep = 2
  MaxEdits = 2
  MaxSeq = 9
  MaxFaults = 2
PROPERTIES
  RequeueRollsNothingBack
