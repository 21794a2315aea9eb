SPECIFICATION Spec
CONSTANTS
  worker = worker
  admin = admin
  None = None
  User = {worker, admin}
  Admin = {admin}
  Locks <- MCLocks
  i1 = i1
  i2 = i2
  Inst = {i1, i2}
  Gated = {i1}
  Slot = {s1, s2}
  This = this
  e1 = e1
  e2 = e2
  Other = {e1, e2}
  Cap = 2
  TTL = 2
  RenewAfter = 2
  CacheTTL = 2
  MaxTime = 3
  Budgets <- MCBudgets
SYMMETRY Symmetry
INVARIANTS
  TypeOK
  GrantStands
  LockIsRecorded
  GateFresh
  ReleaseKept
CHECK_DEADLOCK FALSE
