----------------------------- MODULE BrowserState -----------------------------
(***************************************************************************)
(* The state of the storefront's pages (frontend/src): a customer's tab    *)
(* with its cart and its session, an admin's tab, and the shop behind the  *)
(* API as Inventory promises it, which answers each request in one step.   *)
(* A page sends a request, goes on, and meets the answer later, out of     *)
(* order or never.                                                         *)
(***************************************************************************)
EXTENDS Integers, FiniteSets

CONSTANTS
  Product, Attempt,   \* products; checkouts of this tab, and the orders they make
  Order,              \* all orders: Attempt and the orders from before
  Account, Owner,     \* customers, and whose browser it is; a token is the account it names
  MaxQuantity,        \* bound: units of one product in a cart
  Sku, Quantity,      \* bound: what is typed into the form of a product
  Status, Text,       \* bound: the statuses picked, what is searched for
  Request,            \* bound: requests of one list in flight
  None

ASSUME OrderAssumption == Attempt \subseteq Order
ASSUME QuantityAssumption == MaxQuantity \in Nat \ {0} /\ Quantity \subseteq Nat
ASSUME OwnerAssumption == Owner \in Account
ASSUME NoneAssumption == None \notin Account \cup Order \cup Product \cup Request

VARIABLES
  acting,                                          \* bound: what moves in this behaviour
  catalogue, orders,                               \* the shop
  items, stored, page, submitting, attempt,        \* CartContext, Cart
  token, storedUser, user, me, signin,             \* AuthContext, localStorage
  list, loads, loading, editing, form, saving, removing,   \* AdminProducts
  filter, table, lists, listing, patch, failed,    \* AdminOrders
  newest,                                          \* history: the last list it asked for
  search, results, queries, searchFailed           \* Products

world == acting
shop == <<catalogue, orders>>
cart == <<items, stored, page, submitting, attempt>>
session == <<token, storedUser, user, me, signin>>
productAdmin == <<list, loads, loading, editing, form, saving, removing>>
orderAdmin == <<filter, table, lists, listing, patch, failed, newest>>
catalog == <<search, results, queries, searchFailed>>
vars == <<world, shop, cart, session, productAdmin, orderAdmin, catalog>>

Shop == INSTANCE Inventory WITH ProductId <- Product, OrderId <- Order, NoRow <- None

Line == [quantity : 1..MaxQuantity]
Cart == UNION {[ids -> Line] : ids \in SUBSET Product}
Empty == [p \in {} |-> None]

(* Requests of the customer's tab whose answer the tab still waits for.    *)
UnderWay == {"fetch", "post", "placed", "rejected"}
Pending == {a \in Attempt : attempt[a] # None /\ attempt[a].stage \in UnderWay
                            /\ attempt[a].view # "deaf"}
(* Users wait for the answer to one act before the next.                   *)
patient == "haste" \notin acting
CustomerMayAct == patient => Pending = {} /\ me = None /\ signin = None

(* The customers who use the tab.                                          *)
Customers == IF "sharing" \in acting THEN Account ELSE {Owner}

(* The requests of one kind in flight, and one more on a free place.       *)
Quiet(slots) == \A c \in Request : slots[c] = None
Launched(slots, request) ==
  {[slots EXCEPT ![c] = request] : c \in {c \in Request : slots[c] = None}}

(* The page under a route that is left, or whose user goes, unmounts.      *)
Unmounted ==
  [a \in Attempt |-> IF attempt[a] # None /\ attempt[a].view = "mounted"
                       THEN [attempt[a] EXCEPT !.view = "left"] ELSE attempt[a]]
=============================================================================
