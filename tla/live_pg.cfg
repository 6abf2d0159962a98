SPECIFICATION FairSpec
CONSTANTS
  ProductId <- MCProductId
  OrderId = {old, o1, o2, o3}
  old = old
  Session = {r1, r2, r3}
  NoRow = NoRow
  NoSession = NoSession
  Dialect = "postgresql"
  Sku <- MCSku
  Price <- MCPrice
  Quantity <- MCQuantity
  LinesSorted = TRUE
  MaxInFlight = 3
  InitialTables <- OpenOrder
  Cart <- Carts
  PatchStatus <- Cancel
  PostBody = {}
  PutBody = {}
  DeleteId = {2}
PROPERTIES
  EveryRequestEnds
CHECK_DEADLOCK FALSE
