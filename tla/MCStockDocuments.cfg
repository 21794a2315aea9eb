SPECIFICATION Spec
CONSTANTS
  store = store
  hall = hall
  in = in
  tr = tr
  a1 = a1
  a2 = a2
  w = w
  None = None
  Place <- MCPlace
  Doc <- MCDoc
  Order <- MCOrder
  Proc = {p1, p2}
  Lines <- MCLines
  Incoming <- MCIncoming
  OrderOf <- MCOrderOf
  Stocked <- MCStocked
  Reservable <- MCOrder
  MaxRequests = 3
  MaxDeaths = 1
INVARIANTS
  TypeOK
  StockMatchesRegister
  PostedOnce
  ReversedOnce
  ReservedMatchesRows
  ReservationHasOwner
  StatusMatchesRegister
  ClosedMeansConsumed
  OneDocumentPerOrder
  LedgerTellsStock
CHECK_DEADLOCK FALSE
