SPECIFICATION HistorySpec
CONSTANTS
  ProductId <- MCProductId
  OrderId = {old, o1}
  old = old
  Session = {r1, r2, r3}
  NoRow = NoRow
  NoSession = NoSession
  Dialect = "sqlite"
  Sku <- MCSku
  Price <- MCPrice
  Quantity <- MCQuantity
  LinesSorted = FALSE
  MaxInFlight = 1
  InitialTables <- OpenOrder
  Cart = {}
  PatchStatus <- Cancel
  PostBody <- PostSome
  PutBody = {}
  DeleteId = {2}
PROPERTIES
  RestockSkipsDeleted
CHECK_DEADLOCK FALSE
