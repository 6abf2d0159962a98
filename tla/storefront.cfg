SPECIFICATION Spec
CONSTANTS
  p1 = p1
  before = before
  Product = {p1, p2}
  Attempt = {x1, x2}
  Order <- MCOrder
  Account = {u1, u2}
  Owner = u1
  MaxQuantity = 2
  Sku = {"s1", "s2"}
  Quantity = {3}
  Status = {"pending", "shipped", "cancelled"}
  Text = {"all", "a", "b"}
  Request = {c1, c2}
  None = None
  Acting <- MCActing
  InitialCatalogue <- MCInitialCatalogue
  InitialOrder <- MCInitialOrder
SYMMETRY Symmetry
INVARIANTS
  TypeOK
  IInv
  CartKeptUntilOrdered
  SecondOrderHasACause
  SessionAgrees
  OrderedByTheShownUser
  TableShowsTheFilter
  ResultsMatchSearch
PROPERTIES
  SaveChangesOnlyWhatWasTyped
CHECK_DEADLOCK FALSE
