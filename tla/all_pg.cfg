SPECIFICATION HistorySpec
CONSTANTS
  ProductId <- MCProductId
  OrderId = {old, o1, o2}
  old = old
  Session = {r1, r2, r3}
  NoRow = NoRow
  NoSession = NoSession
  Dialect = "postgresql"
  Sku <- MCSku
  Price <- MCPrice
  Quantity <- MCQuantity
  LinesSorted = FALSE
  MaxInFlight = 3
  InitialTables <- AnyOrder
  Cart <- Carts
  PatchStatus <- AnyStatus
  PostBody <- PostSome
  PutBody <- PutEither
  DeleteId = {2}
SYMMETRY Symmetry
INVARIANTS
  TypeOK
  IInv
  HistoryInv
PROPERTIES
  RestockSkipsDeleted
CHECK_DEADLOCK FALSE
