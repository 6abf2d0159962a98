-------------------------------- MODULE Shop --------------------------------
(***************************************************************************)
(* The shop's back end: any number of requests to the order and product    *)
(* services at a time, over one database, and what must be true of them.   *)
(***************************************************************************)
EXTENDS OrderService, ProductService

(* A request stops at any wait on the database: an error, a lock time-out, *)
(* a deadlock broken by the database, a client that went away, or the end  *)
(* of the server.  The open transaction, if any, is rolled back.           *)
Abort(r) ==
  /\ r \in InFlight
  /\ Rollback(r)
  /\ Respond(r, Lost)
  /\ UNCHANGED <<handler, sequence>>

Step(r) == OrderServiceStep(r) \/ ProductServiceStep(r)

Call(r) == OrderServiceCall(r) \/ ProductServiceCall(r)

Next == \E r \in Session : Call(r) \/ Step(r) \/ Abort(r)

Spec == Init /\ [][Next]_vars

(* The event loop comes back to every handler whose database call ends;    *)
(* nothing makes a client call or a request fail.                          *)
FairSpec == Spec /\ \A r \in Session : WF_vars(Step(r))

-----------------------------------------------------------------------------
(* Invariants                                                              *)
-----------------------------------------------------------------------------

(* Stock is never negative, whatever checkouts, cancellations and edits    *)
(* overlap: the conditional UPDATE of decrement_quantity_if_available      *)
(* against the unconditional writes of adjust_quantity and update.         *)
NonNegativeStock ==
  \A p \in ProductId : committed[p] # NoRow => committed[p].quantity >= 0

(* An order that is cancelled has had its stock restored, even when PATCH  *)
(* requests of different statuses overlap and each writes only the columns *)
(* it believes it changed.                                                 *)
CancelledImpliesRestored ==
  \A o \in OrderId :
    committed[o] # NoRow /\ committed[o].status = "cancelled"
      => committed[o].stock_restored

(* Only a transaction in progress keeps others from a row: a request that  *)
(* was refused, failed or was answered has left no lock and no uncommitted *)
(* version behind.                                                         *)
NothingLeftBehind ==
  \A x \in Row :
    /\ lock[x] # NoSession => pc[lock[x]] \in TransactionSteps
    /\ lock[x] = NoSession => working[x] = committed[x]

(* The rows whose lock the next statement of r needs.                      *)
Wanted(r) ==
  CASE pc[r] = "create_with_line_items" -> IF Dialect = "sqlite" THEN Row ELSE {}
    [] pc[r] = "decrement" -> UNION {LockSet(p) : p \in First(todo[r])}
    [] pc[r] = "adjust_quantity" -> LockSet(product[r].id)
    [] pc[r] \in {"update_status", "update", "delete"} -> LockSet(target[r])
    [] OTHER -> {}

WaitsFor(r, s) == r # s /\ \E x \in Wanted(r) : lock[x] = s

(* No set of requests wait for one another: checkouts and cancellations    *)
(* take the product rows they share in the order of their ids, and a       *)
(* cancellation takes the order's own row last.                            *)
NoDeadlock ==
  \A group \in SUBSET Session :
    group # {} => \E r \in group : \A s \in group : ~WaitsFor(r, s)

(* A PATCH is answered 200 or 404 unless the server fails: a cancellation  *)
(* does not fail because products of the order are deleted.                *)
PatchNeverErrs == \A r \in Session : op[r] = "patch" => reply[r] # 500

-----------------------------------------------------------------------------
(* Action properties                                                       *)
-----------------------------------------------------------------------------
Appears(o) == committed[o] = NoRow /\ committed'[o] # NoRow

Restored(o) ==
  /\ committed[o] # NoRow /\ ~committed[o].stock_restored
  /\ committed'[o].stock_restored

StockKnown(p) == committed[p] # NoRow /\ committed'[p] # NoRow

(* An order and its stock decrements become visible in one step: each line *)
(* was covered by the stock of that moment, takes exactly its quantity,    *)
(* and no other product changes.                                           *)
CheckoutAtomic ==
  [][\A o \in OrderId : Appears(o) =>
       \A p \in ProductId :
         IF p \in DOMAIN committed'[o].line_items
           THEN LET n == committed'[o].line_items[p].quantity IN
                /\ Covers(committed[p], n) /\ committed'[p] # NoRow
                /\ committed'[p].quantity = committed[p].quantity - n
           ELSE committed'[p] = committed[p]]_vars

(* What an order says was bought and at what price never changes, an order *)
(* never disappears, and stock given back once counts as given back for    *)
(* good, whatever statuses it goes through.                                *)
OrderHistoryKept ==
  [][\A o \in OrderId : committed[o] # NoRow =>
       /\ committed'[o] # NoRow
       /\ committed'[o].line_items = committed[o].line_items
       /\ committed[o].stock_restored => committed'[o].stock_restored]_vars

(* The step in which the PUT of r sets the stock of p: the UPDATE and its  *)
(* commit, when the quantity sent is not the quantity that was loaded.     *)
SetsStock(r, p) ==
  /\ pc[r] = "update" /\ pc'[r] = "refresh" /\ target[r] = p
  /\ body[r].quantity # product[r].quantity

(* Stock moves for a reason: a new order or a first cancellation with a    *)
(* line for the product, or a PUT that sets it in this very step.  A PUT   *)
(* that waits excuses nobody, and one that sends the quantity it loaded    *)
(* leaves the sales made meanwhile alone.                                  *)
StockMovesForAReason ==
  [][\A p \in ProductId :
       StockKnown(p) /\ committed'[p].quantity # committed[p].quantity =>
         \/ \E o \in OrderId : Appears(o) /\ p \in DOMAIN committed'[o].line_items
         \/ \E o \in OrderId : Restored(o) /\ p \in DOMAIN committed[o].line_items
         \/ \E r \in Session : SetsStock(r, p)]_vars

(* The step that cancels an order gives each product that is still in the  *)
(* catalogue exactly the quantity of the order's line.                     *)
RestockExact ==
  [][\A o \in OrderId : Restored(o) =>
       \A p \in DOMAIN committed[o].line_items : StockKnown(p) =>
         committed'[p].quantity
           = committed[p].quantity + committed[o].line_items[p].quantity]_vars

(* The status an order should have once the PATCH of r is committed.       *)
StatusDue(r) ==
  IF body[r].status # order[r].status THEN body[r].status
                                      ELSE committed[target[r]].status

(* The commit of a PATCH leaves the order at the status it asked for,      *)
(* whatever PATCH requests overlap it and whatever they loaded.  Only one  *)
(* that asked for the status it had loaded lets a status set meanwhile     *)
(* stand: it takes nobody's change back.                                   *)
PatchTakesEffect ==
  [][\A r \in Session : pc[r] = "commit_status" /\ pc'[r] = "reload" =>
       committed'[target[r]].status = StatusDue(r)]_vars

(* An order is placed at the prices the catalogue has at that moment.      *)
PricesOfTheMoment ==
  [][\A o \in OrderId : Appears(o) =>
       \A p \in DOMAIN committed'[o].line_items : committed[p] # NoRow =>
         committed'[o].line_items[p].unit_price = committed[p].price]_vars

(* Units of p in orders whose stock has not been given back.               *)
Sold(t, p) ==
  MapThenFoldSet(LAMBDA m, n : m + n, 0,
                 LAMBDA o : t[o].line_items[p].quantity,
                 LAMBDA S : CHOOSE o \in S : TRUE,
                 {o \in OrderId : /\ t[o] # NoRow /\ ~t[o].stock_restored
                                  /\ p \in DOMAIN t[o].line_items})

(* Conservation: in every step but the one in which a PUT sets another     *)
(* quantity, the units on the shelf and in unrestored orders add up to the *)
(* same number before and after, whatever PUT requests overlap the step.   *)
BooksBalance ==
  [][\A p \in ProductId :
       StockKnown(p) /\ ~(\E r \in Session : SetsStock(r, p)) =>
         committed'[p].quantity + Sold(committed', p)
           = committed[p].quantity + Sold(committed, p)]_vars

-----------------------------------------------------------------------------
(* Liveness                                                                *)
-----------------------------------------------------------------------------

(* Every request taken up is answered, or fails: nobody waits forever for  *)
(* a row another request keeps locked.                                     *)
EveryRequestEnds == \A r \in Session : r \in InFlight ~> pc[r] = "done"
=============================================================================
