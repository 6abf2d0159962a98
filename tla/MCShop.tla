------------------------------- MODULE MCShop -------------------------------
(***************************************************************************)
(* Instances of Shop for TLC: two products, one order from before, and a   *)
(* few requests.                                                           *)
(***************************************************************************)
EXTENDS ShopInventory, TLC

CONSTANT old      \* the order of the initial database

MCProductId == 1..3
MCSku == {"a", "b", "c"}
MCPrice == {10, 20}
MCQuantity == 1..3

Item(p, n) == [product_id |-> p, quantity |-> n]
Single == {<<Item(1, 1)>>}
(* One cart names its products twice and not in order: 2, 1, 2.            *)
Carts == {<<Item(1, 1)>>, <<Item(2, 1), Item(1, 1), Item(2, 1)>>}

Row1(n) == [id |-> 1, sku |-> "a", price |-> 10, quantity |-> n]
Row2(n) == [id |-> 2, sku |-> "b", price |-> 10, quantity |-> n]

Placed(status, restored, lines) ==
  [status |-> status, stock_restored |-> restored,
   line_items |-> [p \in lines |-> [quantity |-> 1, unit_price |-> 10]]]

Tables(row1, row2, placed) ==
  [x \in Row |-> CASE x = 1 -> row1 [] x = 2 -> row2
                   [] x = old -> placed [] OTHER -> NoRow]

(* Stock for some, not all, of the carts; an order that is still open.     *)
OpenOrder == {Tables(Row1(2), Row2(2), Placed("pending", FALSE, {1, 2}))}

(* The order may also have been cancelled, or reopened after it was.       *)
AnyOrder == OpenOrder \cup
  {Tables(Row1(1), Row2(0), Placed("cancelled", TRUE, {1})),
   Tables(Row1(1), NoRow, Placed("shipped", TRUE, {1, 2}))}

Cancel == {"cancelled"}
Ship == {"shipped"}
CancelOrShip == {"cancelled", "shipped"}
AnyStatus == {"pending", "shipped", "cancelled"}

PutEither == {[sku |-> "a", price |-> 10, quantity |-> 0],
              [sku |-> "b", price |-> 20, quantity |-> 2]}
PutPrice == {[sku |-> "a", price |-> 20, quantity |-> 2]}
PostSome == {[sku |-> "b", price |-> 10, quantity |-> 1]}

Symmetry == Permutations(Session) \cup Permutations(OrderId \ {old})
=============================================================================
