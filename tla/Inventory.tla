------------------------------ MODULE Inventory ------------------------------
(***************************************************************************)
(* What the shop promises (specs/003-orders-checkout/spec.md): a catalogue *)
(* and the orders, where an order is placed, cancelled or moved on in one  *)
(* step, and admins change one product at a time.  There are no requests,  *)
(* no transactions and no failures here.                                   *)
(***************************************************************************)
EXTENDS Integers

CONSTANTS ProductId, OrderId, NoRow

VARIABLES
  catalogue,    \* catalogue[p]: the product p, or NoRow
  orders        \* orders[o]: the order o, or NoRow

Init ==
  /\ \A p \in ProductId : catalogue[p] # NoRow => catalogue[p].quantity >= 0
  /\ \A o \in OrderId :
       orders[o] # NoRow /\ orders[o].status = "cancelled" => orders[o].stock_restored

(* The catalogue with the lines taken (-1) or returned (+1), as far as     *)
(* their products exist.                                                   *)
Moved(lines, sign) ==
  [p \in ProductId |->
     IF p \in DOMAIN lines /\ catalogue[p] # NoRow
       THEN [catalogue[p] EXCEPT !.quantity = @ + sign * lines[p].quantity]
       ELSE catalogue[p]]

(* A customer buys lines that are all in stock.                            *)
Place(o) ==
  LET lines == orders'[o].line_items IN
  /\ orders[o] = NoRow /\ orders'[o] # NoRow
  /\ \A p \in DOMAIN lines :
       catalogue[p] # NoRow /\ catalogue[p].quantity >= lines[p].quantity
  /\ orders' = [orders EXCEPT ![o] = [status |-> "pending", stock_restored |-> FALSE,
                                      line_items |-> lines]]
  /\ catalogue' = Moved(lines, -1)

(* The first cancellation returns the lines.                               *)
Cancel(o) ==
  /\ orders[o] # NoRow /\ ~orders[o].stock_restored
  /\ orders' = [orders EXCEPT ![o].status = "cancelled", ![o].stock_restored = TRUE]
  /\ catalogue' = Moved(orders[o].line_items, 1)

(* Any other change of status moves no stock.                              *)
SetStatus(o) ==
  LET status == orders'[o].status IN
  /\ orders[o] # NoRow
  /\ status = "cancelled" => orders[o].stock_restored
  /\ orders' = [orders EXCEPT ![o].status = status]
  /\ UNCHANGED catalogue

(* An admin adds, edits or deletes one product.                            *)
Change(p) ==
  /\ catalogue'[p] # NoRow => catalogue'[p].quantity >= 0
  /\ catalogue' = [catalogue EXCEPT ![p] = catalogue'[p]]
  /\ UNCHANGED orders

Next ==
  \/ \E o \in OrderId : Place(o) \/ Cancel(o) \/ SetStatus(o)
  \/ \E p \in ProductId : Change(p)

Spec == Init /\ [][Next]_<<catalogue, orders>>
=============================================================================
