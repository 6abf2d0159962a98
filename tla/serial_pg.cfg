SPECIFICATION Spec
CONSTANTS
  ProductId <- MCProductId
  OrderId = {old, o1, o2, o3}
  old = old
  Session = {r1, r2, r3, r4}
  NoRow = NoRow
  NoSession = NoSession
  Dialect = "postgresql"
  Sku <- MCSku
  Price <- MCPrice
  Quantity <- MCQuantity
  LinesSorted = FALSE
  MaxInFlight = 1
  InitialTables <- AnyOrder
  Cart <- Carts
  PatchStatus <- CancelOrShip
  PostBody <- PostSome
  PutBody <- PutEither
  DeleteId = {2}
SYMMETRY Symmetry
INVARIANTS
  PatchNeverErrs
  SerialInv
PROPERTIES
  BooksBalance
  ImplementsInventory
  RestockExact
  PricesOfTheMoment
CHECK_DEADLOCK FALSE
