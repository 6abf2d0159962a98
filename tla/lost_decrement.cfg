SPECIFICATION Spec
CONSTANTS
  ProductId <- MCProductId
  OrderId = {old, o1}
  old = old
  Session = {r1, r2}
  NoRow = NoRow
  NoSession = NoSession
  Dialect = "postgresql"
  Sku <- MCSku
  Price <- MCPrice
  Quantity <- MCQuantity
  LinesSorted = TRUE
  MaxInFlight = 2
  InitialTables <- OpenOrder
  Cart <- Single
  PatchStatus <- Cancel
  PostBody = {}
  PutBody = {}
  DeleteId = {}
PROPERTIES
  BooksBalance
CHECK_DEADLOCK FALSE
