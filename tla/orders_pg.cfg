SPECIFICATION Spec
CONSTANTS
  ProductId <- MCProductId
  OrderId = {old, o1, o2}
  old = old
  Session = {r1, r2, r3, r4}
  NoRow = NoRow
  NoSession = NoSession
  Dialect = "postgresql"
  Sku <- MCSku
  Price <- MCPrice
  Quantity <- MCQuantity
  LinesSorted = TRUE
  MaxInFlight = 4
  InitialTables <- OpenOrder
  Cart <- Carts
  PatchStatus <- CancelOrShip
  PostBody = {}
  PutBody = {}
  DeleteId = {}
SYMMETRY Symmetry
INVARIANTS
  NonNegativeStock
  CancelledImpliesRestored
  NothingLeftBehind
  NoDeadlock
  LockOrder
PROPERTIES
  CheckoutAtomic
  OrderHistoryKept
  PatchTakesEffect
CHECK_DEADLOCK FALSE
