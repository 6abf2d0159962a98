---------------------------- MODULE OrderService ----------------------------
(***************************************************************************)
(* OrderService.checkout and OrderService.update_status with the           *)
(* repository methods they call: POST /orders and PATCH                    *)
(* /orders/{id}/status, one action for each wait on the database.          *)
(***************************************************************************)
EXTENDS ShopState

CONSTANTS
  Cart,           \* the item lists customers check out
  PatchStatus     \* the statuses admins ask for

ASSUME CartAssumption ==
  \A items \in Cart :
    merge_line_items(items)
      \in UNION {[ids -> Quantity] : ids \in (SUBSET ProductId) \ {{}}}
ASSUME PatchStatusAssumption == PatchStatus \subseteq OrderStatus

(***************************************************************************)
(* POST /orders                                                            *)
(***************************************************************************)

(* What the conditional UPDATE demands of a row, and the loop over the     *)
(* products loaded before it: the product is there with enough stock.      *)
Covers(row, quantity) == row # NoRow /\ row.quantity >= quantity

(* The lines the products just read cannot serve.                          *)
Unserved(r, want) == {p \in DOMAIN want : ~Covers(Read(r, p), want[p])}

(* A snapshot that leaves the price to be looked up later.                 *)
new_order_without_price(r, want) ==
  [status |-> "pending", stock_restored |-> FALSE,
   line_items |-> [p \in DOMAIN want |-> [quantity |-> want[p]]]]

(* A snapshot whose loop reads the price of the first product every time.  *)
new_order_one_price(r, want) ==
  [status |-> "pending", stock_restored |-> FALSE,
   line_items |-> [p \in DOMAIN want |->
     [quantity |-> want[p], unit_price |-> Read(r, CHOOSE q \in First(DOMAIN want) : TRUE).price]]]

(* The Order object create_with_line_items adds to the session.            *)
new_order(r, want) ==
  [status |-> "pending", stock_restored |-> FALSE,
   line_items |-> [p \in DOMAIN want |->
     [quantity |-> want[p], unit_price |-> Read(r, p).price]]]

(* get_by_ids, and a validation loop that passes.                          *)
checkout(r, items) ==
  LET want == merge_line_items(items) IN
  /\ Admit(r)
  /\ Unserved(r, want) = {}
  /\ order' = [order EXCEPT ![r] = new_order(r, want)]
  /\ Called(r, "checkout", NoRow, NoRow)
  /\ Goto(r, "create_with_line_items")
  /\ UNCHANGED <<tables, product, todo, sequence>>

(* get_by_ids, and a validation loop that stops at the least product it    *)
(* cannot serve: nothing is written.                                       *)
checkout_refused(r, items) ==
  LET want == merge_line_items(items) IN
  /\ Admit(r)
  /\ \E p \in First(Unserved(r, want)) :
       Respond(r, IF Read(r, p) = NoRow THEN 404 ELSE 409)
  /\ Called(r, "checkout", NoRow, NoRow)
  /\ UNCHANGED <<tables, sequence>>

(* The two flushes of create_with_line_items: the order and its lines, the *)
(* first write of the transaction.                                         *)
create_with_line_items(r) ==
  /\ pc[r] = "create_with_line_items"
  /\ \E id \in OrderId :
       /\ working[id] = NoRow
       /\ Write(r, id, order[r])
       /\ target' = [target EXCEPT ![r] = id]
  /\ todo' = [todo EXCEPT ![r] = DOMAIN order[r].line_items]
  /\ Goto(r, "decrement")
  /\ UNCHANGED <<op, body, order, product, sequence>>

ordered(r, p) == order[r].line_items[p].quantity

AfterDecrement(r, p) == IF todo[r] = {p} THEN "commit_checkout" ELSE "decrement"

(* A decrement from the product validated earlier, without the condition   *)
(* quantity >= :qty of the UPDATE: read-check-write.                       *)
decrement_unconditionally(r) ==
  /\ pc[r] = "decrement"
  /\ \E p \in First(todo[r]) :
       /\ working[p] # NoRow
       /\ Write(r, p, [working[p] EXCEPT !.quantity = @ - ordered(r, p)])
       /\ todo' = [todo EXCEPT ![r] = @ \ {p}]
       /\ Goto(r, AfterDecrement(r, p))
  /\ UNCHANGED <<handler, order, product, sequence>>

(* A decrement that commits at once, as the helpers of the catalogue do.   *)
decrement_and_commit(r) ==
  /\ pc[r] = "decrement"
  /\ \E p \in First(todo[r]) :
       /\ Covers(working[p], ordered(r, p))
       /\ WriteAndCommit(r, p, [working[p] EXCEPT !.quantity = @ - ordered(r, p)])
       /\ todo' = [todo EXCEPT ![r] = @ \ {p}]
       /\ Goto(r, AfterDecrement(r, p))
  /\ UNCHANGED <<handler, order, product, sequence>>

(* UPDATE products SET quantity = quantity - :qty WHERE id = :id AND       *)
(* quantity >= :qty finds its row once the lock is free.                   *)
decrement_quantity_if_available(r) ==
  /\ pc[r] = "decrement"
  /\ \E p \in First(todo[r]) :
       /\ Covers(working[p], ordered(r, p))
       /\ Write(r, p, [working[p] EXCEPT !.quantity = @ - ordered(r, p)])
       /\ todo' = [todo EXCEPT ![r] = @ \ {p}]
       /\ Goto(r, AfterDecrement(r, p))
  /\ UNCHANGED <<handler, order, product, sequence>>

(* The error raised without the rollback.                                  *)
decrement_insufficient_no_rollback(r) ==
  /\ pc[r] = "decrement"
  /\ \E p \in First(todo[r]) : ~Covers(Read(r, p), ordered(r, p))
  /\ Respond(r, 409)
  /\ UNCHANGED <<tables, handler, sequence>>

(* The same UPDATE matches no row: InsufficientStockError and rollback.    *)
decrement_insufficient(r) ==
  /\ pc[r] = "decrement"
  /\ \E p \in First(todo[r]) : ~Covers(Read(r, p), ordered(r, p))
  /\ Rollback(r)
  /\ Respond(r, 409)
  /\ UNCHANGED <<handler, sequence>>

commit_checkout(r) ==
  /\ pc[r] = "commit_checkout"
  /\ Commit(r)
  /\ Respond(r, 201)
  /\ UNCHANGED <<handler, sequence>>

(***************************************************************************)
(* PATCH /orders/{id}/status                                               *)
(***************************************************************************)

(* should_restock without the look at stock_restored.                      *)
should_restock_ignoring_flag(loaded, status) ==
  status = "cancelled" /\ loaded.status # "cancelled"

(* should_restock restricted to orders nobody has started on.              *)
should_restock_if_pending(loaded, status) ==
  status = "cancelled" /\ loaded.status = "pending" /\ ~loaded.stock_restored

should_restock(loaded, status) ==
  status = "cancelled" /\ loaded.status # "cancelled" /\ ~loaded.stock_restored

(* The order and its lines are loaded, outside any lock.                   *)
update_status(r, id, status) ==
  /\ Admit(r)
  /\ Read(r, id) # NoRow
  /\ Called(r, "patch", id, [status |-> status])
  /\ order' = [order EXCEPT ![r] = Read(r, id)]
  /\ IF should_restock(Read(r, id), status)
       THEN /\ todo' = [todo EXCEPT ![r] = DOMAIN Read(r, id).line_items]
            /\ Goto(r, "restock")
       ELSE /\ Goto(r, "update_status")
            /\ UNCHANGED todo
  /\ UNCHANGED <<tables, product, sequence>>

update_status_not_found(r, id, status) ==
  /\ Admit(r)
  /\ Read(r, id) = NoRow
  /\ Called(r, "patch", id, [status |-> status])
  /\ Respond(r, 404)
  /\ UNCHANGED <<tables, sequence>>

(* The restock loop takes the lines in no order of its own.                *)
next_lines_unsorted(r) == todo[r]

(* The lines the restock loop may come to: insertion order is the order of *)
(* the merged, sorted checkout.                                            *)
next_lines(r) == IF LinesSorted THEN First(todo[r]) ELSE todo[r]

(* A restock loop that is left after its first line.                       *)
AfterFirstLine(r, p) == "update_status"

AfterLine(r, p) == IF todo[r] = {p} THEN "update_status" ELSE "restock"

(* get_by_id of the service and of adjust_quantity, which sees the later   *)
(* version of the two: the stock is read, without a lock.                  *)
restock(r) ==
  /\ pc[r] = "restock"
  /\ \E p \in next_lines(r) :
       /\ Read(r, p) # NoRow
       /\ product' = [product EXCEPT ![r] = Read(r, p)]
  /\ Goto(r, "adjust_quantity")
  /\ UNCHANGED <<tables, handler, order, todo, sequence>>

(* A missing product taken for an error of the request.                    *)
restock_missing_fails(r) ==
  /\ pc[r] = "restock"
  /\ \E p \in next_lines(r) : Read(r, p) = NoRow
  /\ Rollback(r)
  /\ Respond(r, 500)
  /\ UNCHANGED <<handler, sequence>>

(* The product is not in the catalogue any more: the line is skipped.      *)
restock_product_missing(r) ==
  /\ pc[r] = "restock"
  /\ \E p \in next_lines(r) :
       /\ Read(r, p) = NoRow
       /\ todo' = [todo EXCEPT ![r] = @ \ {p}]
       /\ Goto(r, AfterLine(r, p))
  /\ UNCHANGED <<tables, handler, order, product, sequence>>

(* The flush of adjust_quantity: the UPDATE sets the sum of the quantity   *)
(* read and the line's, whatever the row holds by then.                    *)
adjust_quantity(r) ==
  LET p == product[r].id IN
  /\ pc[r] = "adjust_quantity"
  /\ working[p] # NoRow
  /\ Write(r, p, [working[p] EXCEPT !.quantity = product[r].quantity + ordered(r, p)])
  /\ todo' = [todo EXCEPT ![r] = @ \ {p}]
  /\ Goto(r, AfterLine(r, p))
  /\ UNCHANGED <<handler, order, product, sequence>>

(* The UPDATE finds no row: StaleDataError, rollback, an unhandled error.  *)
adjust_quantity_stale(r) ==
  /\ pc[r] = "adjust_quantity"
  /\ Read(r, product[r].id) = NoRow
  /\ Rollback(r)
  /\ Respond(r, 500)
  /\ UNCHANGED <<handler, sequence>>

(* A write of every attribute of the object, changed or not.               *)
changed_all(r, row) ==
  [row EXCEPT !.status = body[r].status,
              !.stock_restored = order[r].stock_restored
                                   \/ should_restock(order[r], body[r].status)]

(* The unit of work writes the attributes that differ from the values      *)
(* loaded, and no others.                                                  *)
changed(r, row) ==
  [row EXCEPT !.status = IF body[r].status # order[r].status
                           THEN body[r].status ELSE @,
              !.stock_restored = @ \/ should_restock(order[r], body[r].status)]

(* OrderRepository.update_status.                                          *)
write_status(r) ==
  LET id == target[r] IN
  /\ pc[r] = "update_status"
  /\ Write(r, id, changed(r, working[id]))
  /\ Goto(r, "commit_status")
  /\ UNCHANGED <<handler, session, sequence>>

(* The transaction left to the end of the session, which rolls it back.    *)
commit_status_forgotten(r) ==
  /\ pc[r] = "commit_status"
  /\ Rollback(r)
  /\ Goto(r, "reload")
  /\ UNCHANGED <<handler, session, sequence>>

commit_status(r) ==
  /\ pc[r] = "commit_status"
  /\ Commit(r)
  /\ Goto(r, "reload")
  /\ UNCHANGED <<handler, session, sequence>>

(* The order is read again after the commit.  The session keeps the object *)
(* it has, so the response carries the status asked for in any case.       *)
reload(r) ==
  /\ pc[r] = "reload"
  /\ Respond(r, IF Read(r, target[r]) = NoRow THEN 404 ELSE 200)
  /\ UNCHANGED <<tables, handler, sequence>>

(* The steps of a request of either kind once it is being handled.         *)
OrderServiceStep(r) ==
  \/ create_with_line_items(r)
  \/ decrement_quantity_if_available(r)
  \/ decrement_insufficient(r)
  \/ commit_checkout(r)
  \/ restock(r)
  \/ restock_product_missing(r)
  \/ adjust_quantity(r)
  \/ adjust_quantity_stale(r)
  \/ write_status(r)
  \/ commit_status(r)
  \/ reload(r)

OrderServiceCall(r) ==
  \/ \E items \in Cart : checkout(r, items) \/ checkout_refused(r, items)
  \/ \E id \in OrderId, status \in PatchStatus :
       update_status(r, id, status) \/ update_status_not_found(r, id, status)
=============================================================================
