--------------------------- MODULE ShopInvariant ---------------------------
(***************************************************************************)
(* The inductive invariant of Shop: what the handlers know about their own *)
(* session and about the tables at each of their steps.                    *)
(***************************************************************************)
EXTENDS Shop

CheckoutSteps == {"decrement", "commit_checkout"}
PatchSteps == {"restock", "adjust_quantity", "update_status", "commit_status", "reload"}
LoopSteps == {"decrement", "restock", "adjust_quantity"}

(* What the objects of a session and the request are at each step.         *)
SessionOK(r) ==
  /\ pc[r] \in OrderSteps => order[r] # NoRow
  /\ pc[r] \in {"create_with_line_items"} \cup CheckoutSteps =>
       order[r].status = "pending" /\ ~order[r].stock_restored
  /\ pc[r] \in LoopSteps => todo[r] # {} /\ todo[r] \subseteq DOMAIN order[r].line_items
  /\ pc[r] = "commit_checkout" => todo[r] = {}
  /\ pc[r] \in CheckoutSteps \cup PatchSteps => target[r] \in OrderId
  /\ pc[r] \in ProductSteps => target[r] \in ProductId
  /\ pc[r] = "adjust_quantity" => product[r] # NoRow /\ product[r].id \in todo[r]
  /\ pc[r] \in PatchSteps => body[r] \in OrderStatusUpdate
  /\ pc[r] = "update" => product[r] # NoRow /\ body[r] \in ProductWrite

SessionsOK == \A r \in Session : SessionOK(r)

(* An order that others may have read keeps its row and its lines in every *)
(* version, and its stock_restored is never taken back.                    *)
OrderKept(o) ==
  committed[o] # NoRow =>
    /\ working[o] # NoRow
    /\ working[o].line_items = committed[o].line_items
    /\ committed[o].stock_restored => working[o].stock_restored

OrdersKept == \A o \in OrderId : OrderKept(o)

(* What a PATCH has loaded was committed, and what has been restored since *)
(* is still restored.                                                      *)
LoadedOK(r) ==
  pc[r] \in PatchSteps =>
    /\ committed[target[r]] # NoRow
    /\ order[r].stock_restored => committed[target[r]].stock_restored

PatchesLoaded == \A r \in Session : LoadedOK(r)

(* CancelledImpliesRestored, of any version of an order.                   *)
RestoredIfCancelled(version) ==
  version # NoRow /\ version.status = "cancelled" => version.stock_restored

CancelledRestored ==
  \A o \in OrderId :
    RestoredIfCancelled(committed[o]) /\ RestoredIfCancelled(working[o])

(* NonNegativeStock, of any version of a product, loaded ones included.    *)
NoDebt(version) == version # NoRow => version.quantity >= 0

StockNotNegative ==
  /\ \A p \in ProductId : NoDebt(committed[p]) /\ NoDebt(working[p])
  /\ \A r \in Session : NoDebt(product[r])

(* What the lines behind the loop of a checkout have done to their rows.   *)
Decremented(r, p) ==
  /\ lock[p] = r
  /\ Covers(committed[p], ordered(r, p))
  /\ working[p] # NoRow
  /\ working[p] = [committed[p] EXCEPT !.quantity = @ - ordered(r, p)]

(* The open transaction of a checkout has added its order and decremented  *)
(* the lines behind it, and has changed no other row.                      *)
CheckoutOpen(r) ==
  pc[r] \in CheckoutSteps =>
    /\ committed[target[r]] = NoRow
    /\ working[target[r]] = order[r]
    /\ lock[target[r]] = r
    /\ \A p \in DOMAIN order[r].line_items \ todo[r] : Decremented(r, p)
    /\ \A x \in Row :
         lock[x] = r /\ x # target[r] /\ x \notin DOMAIN order[r].line_items \ todo[r]
           => working[x] = committed[x]

CheckoutsOpen == \A r \in Session : CheckoutOpen(r)

(* The open transaction of a PATCH has left the order's row as it was      *)
(* until its last write, and then keeps it locked with the status that is  *)
(* due, whatever was committed since the order was loaded.                 *)
PatchOpen(r) ==
  /\ pc[r] \in {"restock", "adjust_quantity", "update_status"} /\ lock[target[r]] = r =>
       working[target[r]] = committed[target[r]]
  /\ pc[r] = "commit_status" =>
       lock[target[r]] = r /\ working[target[r]].status = StatusDue(r)

PatchesOpen == \A r \in Session : PatchOpen(r)

(* Only a checkout adds an order.                                          *)
OrdersAddedByCheckout ==
  \A o \in OrderId :
    working[o] # NoRow /\ committed[o] = NoRow =>
      lock[o] \in Session /\ pc[lock[o]] \in CheckoutSteps

Shape == TypeOK /\ SessionsOK /\ NothingLeftBehind /\ OrdersKept /\ PatchesLoaded

IInv == /\ Shape
        /\ CancelledRestored
        /\ StockNotNegative
        /\ CheckoutsOpen
        /\ PatchesOpen
        /\ OrdersAddedByCheckout

(***************************************************************************)
(* What keeps requests from waiting for one another in a circle            *)
(***************************************************************************)

(* The server handles no more requests at a time than it takes up.         *)
InFlightBounded == IsFiniteSet(InFlight) /\ Cardinality(InFlight) <= MaxInFlight

(* SQLite has one lock for all rows.                                       *)
OneLock == Dialect = "sqlite" => \A x, y \in Row : lock[x] = lock[y]

(* PostgreSQL: an order's row is locked by the checkout that adds it, or   *)
(* by a PATCH that has only its commit left.                               *)
OrdersLockedLast ==
  Dialect = "postgresql" =>
    \A o \in OrderId : lock[o] # NoSession =>
      /\ target[lock[o]] = o
      /\ pc[lock[o]] \in CheckoutSteps \cup {"commit_status"}

(* The loops take the lines in the order of their ids: in PostgreSQL, the  *)
(* products r keeps locked come before all those it has left.              *)
LinesAscend(r) ==
  /\ pc[r] = "adjust_quantity" => product[r].id \in First(todo[r])
  /\ Dialect = "postgresql" /\ pc[r] \in LoopSteps =>
       \A p \in ProductId : lock[p] = r => \A q \in todo[r] : p < q

LockOrder ==
  /\ InFlightBounded
  /\ OneLock
  /\ OrdersLockedLast
  /\ \A r \in Session : LinesAscend(r)

(***************************************************************************)
(* What a handler can rely on when it is the only one: nothing it has read *)
(* changes before it writes                                                *)
(***************************************************************************)
restocks(r) == should_restock(order[r], body[r].status)

(* Product p with its line of order[r] given back, if p is there at all.   *)
Restocked(r, p) ==
  IF committed[p] = NoRow THEN NoRow
                          ELSE [committed[p] EXCEPT !.quantity = @ + ordered(r, p)]

(* A PATCH still holds the committed versions of the order and the product *)
(* it works on; its transaction has given back the lines behind its loop,  *)
(* changed the order's row last, and touched no other row.                 *)
PatchExact(r) ==
  pc[r] \in PatchSteps \ {"reload"} =>
    /\ order[r] = committed[target[r]]
    /\ pc[r] \in LoopSteps => restocks(r)
    /\ pc[r] \notin LoopSteps => todo[r] = {}
    /\ pc[r] = "adjust_quantity" => product[r] = committed[product[r].id]
    /\ working[target[r]] = IF pc[r] = "commit_status" THEN changed(r, order[r])
                                                       ELSE order[r]
    /\ \A o \in OrderId \ {target[r]} : working[o] = committed[o]
    /\ \A p \in ProductId :
         working[p] = IF restocks(r) /\ p \in DOMAIN order[r].line_items \ todo[r]
                        THEN Restocked(r, p) ELSE committed[p]

(* The products of an order being placed are there, at its prices.         *)
PricesHold(r) ==
  pc[r] \in {"create_with_line_items"} \cup CheckoutSteps =>
    \A p \in DOMAIN order[r].line_items :
      committed[p] # NoRow /\ order[r].line_items[p].unit_price = committed[p].price

(* The product service's steps are not a PATCH's, no request is answered   *)
(* before its end, and none has lines to restock before its call.          *)
EndpointOK(r) ==
  /\ pc[r] \in ProductSteps => op[r] # "patch"
  /\ pc[r] # "done" => reply[r] = NoRow
  /\ pc[r] = "idle" => todo[r] = {}

SerialInv ==
  /\ InFlightBounded
  /\ PatchNeverErrs
  /\ \A r \in Session : PatchExact(r) /\ PricesHold(r) /\ EndpointOK(r)

(***************************************************************************)
(* What the ids of products rely on                                        *)
(***************************************************************************)

(* There are finitely many products, and a new product or a deletion is    *)
(* never uncommitted.                                                      *)
CatalogueAgreed ==
  /\ IsFiniteSet({p \in ProductId : working[p] # NoRow})
  /\ \A p \in ProductId : committed[p] = NoRow <=> working[p] = NoRow

(* PostgreSQL: no product and no order, placed or being placed, has an id  *)
(* that the sequence has still to hand out.                                *)
IdsHandedOut ==
  Dialect = "postgresql" =>
    /\ \A p \in ProductId : working[p] # NoRow => p <= sequence
    /\ \A o \in OrderId : working[o] # NoRow =>
         \A p \in DOMAIN working[o].line_items : p <= sequence
    /\ \A r \in Session : order[r] # NoRow =>
         \A p \in DOMAIN order[r].line_items : p <= sequence

(* A product that is in the catalogue, and nobody deletes one, stays: what *)
(* a PATCH has read of it can still be written.                            *)
ProductsStay ==
  /\ CatalogueAgreed /\ PatchNeverErrs
  /\ \A r \in Session :
       /\ EndpointOK(r) /\ pc[r] # "delete"
       /\ pc[r] = "adjust_quantity" => working[product[r].id] # NoRow
=============================================================================
