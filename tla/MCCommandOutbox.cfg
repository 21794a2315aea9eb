SPECIFICATION Spec
CONSTANTS
  old = old
  new = new
  edit1 = edit1
  edit2 = edit2
  cancel = cancel
  create = create
  push = push
  None = None
  Cmd = {edit1, edit2, cancel, create, push}
  Kind <- MCKind
  Target <- MCTarget
  Document <- MCDocument
  Existing <- MCExisting
  Task = {t1, t2}
  Inst = {i1, i2}
  Slot = {s1, s2}
  MaxTries = 2
  DeadAfter = 2
  MaxIssued = 2
  MaxFaults = 3
SYMMETRY Symmetry
INVARIANTS
  TypeOK
  AppliedMeansDone
  RefusalMeansUndone
  KeyRunsOnce
  NewestEditWins
PROPERTIES
  AppliedStays
CHECK_DEADLOCK FALSE
