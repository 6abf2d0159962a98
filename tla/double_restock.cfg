SPECIFICATION Spec
CONSTANTS
  ProductId <- MCProductId
  OrderId = {old}
  old = old
  Session = {r1, r2}
  NoRow = NoRow
  NoSession = NoSession
  Dialect = "postgresql"
  Sku <- MCSku
  Price <- MCPrice
  Quantity <- MCQuantity
  LinesSorted = TRUE
  MaxInFlight = 2
  InitialTables <- OpenOrder
  Cart = {}
  PatchStatus <- Cancel
  PostBody = {}
  PutBody = {}
  DeleteId = {}
PROPERTIES
  StockMovesForAReason
CHECK_DEADLOCK FALSE
