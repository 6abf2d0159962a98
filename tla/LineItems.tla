----------------------------- MODULE LineItems -----------------------------
(***************************************************************************)
(* The pure part of app/services/order_service.py: the items of a checkout *)
(* payload are a sequence of [product_id, quantity] records, and           *)
(* merge_line_items folds them into one line per product.  The merged list *)
(* is sorted by product id in the code; here it is a function from product *)
(* ids to quantities and whoever walks it takes the least id first.        *)
(***************************************************************************)
EXTENDS Integers, FiniteSets, SequencesExt

(* What a payload line may hold: OrderLineItemCreate demands ids and       *)
(* quantities of at least 1, OrderCreate at least one line.                *)
PayloadLine(ids, max) == [product_id : ids, quantity : 1..max]

(* The product ids of a payload, each once.                                *)
product_ids(items) == {items[i].product_id : i \in DOMAIN items}

(* A merge that keeps the last duplicate instead of adding it up.          *)
merge_keeps_last(items) ==
  [p \in product_ids(items) |->
     FoldLeft(LAMBDA n, item : IF item.product_id = p THEN item.quantity ELSE n,
              0, items)]

merge_line_items(items) ==
  [p \in product_ids(items) |->
     FoldLeft(LAMBDA n, item : IF item.product_id = p THEN n + item.quantity ELSE n,
              0, items)]

(* The id that sort puts first among the ids left, if any is left.         *)
First(ids) == {p \in ids : \A q \in ids : p <= q}
=============================================================================
