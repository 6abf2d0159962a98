----------------------------- MODULE ShopProofs -----------------------------
(***************************************************************************)
(* The safety properties of Shop, for any numbers of products, orders and  *)
(* requests, on either database: IInv is inductive, it implies the         *)
(* invariants, and it makes every step respect the action properties.      *)
(***************************************************************************)
EXTENDS ShopTypeProofs

(* What a step of request r does to the tables.                            *)
Quiet(r) ==
  /\ UNCHANGED tables
  /\ pc[r] \in TransactionSteps => pc'[r] \in TransactionSteps
  /\ pc[r] \notin CheckoutSteps \cup {"commit_status"} /\ pc'[r] \notin CheckoutSteps

Adds(r) ==
  /\ pc[r] = "create_with_line_items" /\ pc'[r] = "decrement"
  /\ order'[r] = order[r] /\ todo'[r] = DOMAIN order[r].line_items
  /\ target'[r] \in OrderId /\ working[target'[r]] = NoRow
  /\ Write(r, target'[r], order[r])

Takes(r, p) ==
  /\ pc[r] = "decrement" /\ p \in First(todo[r])
  /\ pc'[r] \in {"decrement", "commit_checkout"}
  /\ order'[r] = order[r] /\ target'[r] = target[r] /\ todo'[r] = todo[r] \ {p}
  /\ Covers(working[p], ordered(r, p))
  /\ Write(r, p, [working[p] EXCEPT !.quantity = @ - ordered(r, p)])

Returns(r, p) ==
  /\ pc[r] = "adjust_quantity" /\ pc'[r] \in {"restock", "update_status"}
  /\ order'[r] = order[r] /\ target'[r] = target[r] /\ todo'[r] = todo[r] \ {p}
  /\ p = product[r].id /\ working[p] # NoRow
  /\ Write(r, p, [working[p] EXCEPT !.quantity = product[r].quantity + ordered(r, p)])

SetsStatus(r) ==
  /\ pc[r] = "update_status" /\ pc'[r] = "commit_status" /\ target'[r] = target[r]
  /\ Write(r, target[r], changed(r, working[target[r]]))

Commits(r) ==
  /\ \/ pc[r] = "commit_checkout" /\ pc'[r] = "done"
     \/ pc[r] = "commit_status" /\ pc'[r] = "reload"
  /\ Commit(r)

RollsBack(r) == Rollback(r) /\ pc'[r] = "done"

Edits(r, p, version) ==
  /\ WriteAndCommit(r, p, version)
  /\ pc[r] \notin TransactionSteps /\ pc'[r] \notin TransactionSteps
  /\ \/ pc[r] = "delete" /\ version = NoRow
     \/ pc[r] = "idle" /\ p = new_id /\ take_id
        /\ version \in Product /\ version.quantity \in Nat
     \/ pc[r] = "update" /\ p = target[r] /\ working[p] # NoRow
        /\ version \in Product
        /\ \/ version.quantity = working[p].quantity
           \/ version.quantity = body[r].quantity /\ SetsStock(r, p)

LEMMA StepKinds ==
  ASSUME TypeOK, SessionsOK, OrdersKept, PatchesLoaded, NEW r \in Session,
         Call(r) \/ Step(r) \/ Abort(r)
  PROVE  \/ Quiet(r)
         \/ Adds(r)
         \/ \E p \in ProductId : p \in todo[r] /\ Takes(r, p)
         \/ \E p \in ProductId : p \in todo[r] /\ Returns(r, p)
         \/ SetsStatus(r)
         \/ Commits(r)
         \/ RollsBack(r)
         \/ \E p \in ProductId : \E version : Edits(r, p, version)
<1>1. CASE OrderServiceCall(r)
  <2>1. UNCHANGED tables /\ pc[r] = "idle"
    BY <1>1 DEF OrderServiceCall, checkout, checkout_refused, update_status,
                update_status_not_found, Admit
  <2>2. pc'[r] \notin CheckoutSteps
    <3>1. CASE \E items \in Cart : checkout(r, items) \/ checkout_refused(r, items)
      BY <3>1 DEF checkout, checkout_refused, Goto, Respond, CheckoutSteps, TypeOK
    <3>2. CASE \E id \in OrderId, status \in PatchStatus :
                 update_status(r, id, status) \/ update_status_not_found(r, id, status)
      BY <3>2 DEF update_status, update_status_not_found, Goto, Respond, CheckoutSteps,
                  TypeOK
    <3> QED BY <1>1, <3>1, <3>2 DEF OrderServiceCall
  <2> QED BY <2>1, <2>2 DEF Quiet, TransactionSteps, CheckoutSteps
<1>2. CASE create_with_line_items(r)
  <2>1. target'[r] \in OrderId /\ working[target'[r]] = NoRow
        /\ Write(r, target'[r], order[r])
    BY <1>2 DEF create_with_line_items, TypeOK
  <2>2. Adds(r)
    BY <1>2, <2>1 DEF create_with_line_items, TypeOK, Goto, Adds
  <2> QED BY <2>2
<1>3. CASE decrement_quantity_if_available(r)
  <2>1. PICK p \in First(todo[r]) :
          /\ Covers(working[p], ordered(r, p))
          /\ Write(r, p, [working[p] EXCEPT !.quantity = @ - ordered(r, p)])
          /\ todo' = [todo EXCEPT ![r] = @ \ {p}]
          /\ Goto(r, AfterDecrement(r, p))
    BY <1>3 DEF decrement_quantity_if_available
  <2>2. p \in ProductId /\ p \in todo[r]
    BY DEF TypeOK, First
  <2>3. Takes(r, p)
    BY <1>3, <2>1 DEF decrement_quantity_if_available, TypeOK, Goto, AfterDecrement,
                      handler, Takes
  <2> QED BY <2>2, <2>3
<1>4. CASE decrement_insufficient(r) \/ adjust_quantity_stale(r) \/ Abort(r)
  BY <1>4 DEF decrement_insufficient, adjust_quantity_stale, Abort, Respond, RollsBack,
              TypeOK
<1>5. CASE commit_checkout(r) \/ commit_status(r)
  BY <1>5 DEF commit_checkout, commit_status, Respond, Goto, Commits, TypeOK
<1>6. CASE restock(r) \/ restock_product_missing(r)
  <2>1. UNCHANGED tables
    BY <1>6 DEF restock, restock_product_missing
  <2>2. pc[r] = "restock" /\ pc'[r] \in {"adjust_quantity", "restock", "update_status"}
    BY <1>6 DEF restock, restock_product_missing, Goto, AfterLine, TypeOK
  <2> QED BY <2>1, <2>2 DEF Quiet, TransactionSteps, CheckoutSteps
<1>7. CASE adjust_quantity(r)
  <2>1. product[r].id \in todo[r] /\ product[r].id \in ProductId
    BY <1>7 DEF adjust_quantity, TypeOK, SessionsOK, SessionOK
  <2>2. Returns(r, product[r].id)
    BY <1>7 DEF adjust_quantity, TypeOK, Goto, AfterLine, handler, Returns
  <2> QED BY <2>1, <2>2
<1>8. CASE write_status(r)
  BY <1>8 DEF write_status, Goto, handler, SetsStatus, TypeOK
<1>9. CASE reload(r) \/ refresh(r) \/ update_duplicate(r) \/ update_stale(r)
  BY <1>9 DEF reload, refresh, update_duplicate, update_stale, Respond, Quiet,
              TransactionSteps, CheckoutSteps, TypeOK
<1>10. CASE ProductServiceCall(r)
  <2>1. CASE \E content \in PostBody : create_product(r, content)
    <3>1. PICK content \in PostBody : create_product(r, content)
      BY <2>1
    <3> DEFINE row == [id |-> new_id, sku |-> content.sku, price |-> content.price,
                       quantity |-> content.quantity]
    <3>2. /\ pc[r] = "idle" /\ pc'[r] = "refresh" /\ new_id \in ProductId
          /\ WriteAndCommit(r, new_id, row) /\ take_id
      BY <3>1 DEF create_product, Admit, Goto, TypeOK
    <3>3. row \in Product /\ row.quantity \in Nat
      BY <3>2, BodyAssumption DEF ProductWrite, Product
    <3> HIDE DEF row
    <3>4. Edits(r, new_id, row)
      BY <3>2, <3>3 DEF Edits, TransactionSteps
    <3> QED BY <3>2, <3>4
  <2>2. CASE ~ \E content \in PostBody : create_product(r, content)
    <3>1. UNCHANGED tables /\ pc[r] = "idle"
      BY <1>10, <2>2 DEF ProductServiceCall, create_product_duplicate, update_product,
         update_product_not_found, delete_product, delete_product_not_found, Admit
    <3>2. pc'[r] \notin CheckoutSteps
      BY <1>10, <2>2 DEF ProductServiceCall, create_product_duplicate, update_product,
         update_product_not_found, delete_product, delete_product_not_found, Goto,
         Respond, CheckoutSteps, TypeOK
    <3> QED BY <3>1, <3>2 DEF Quiet, TransactionSteps, CheckoutSteps
  <2> QED BY <2>1, <2>2
<1>11. CASE update_commit(r)
  <2>1. target[r] \in ProductId /\ pc[r] = "update" /\ pc'[r] = "refresh"
    BY <1>11 DEF update_commit, SessionsOK, SessionOK, ProductSteps, Goto, TypeOK
  <2>2. working[target[r]] \in Product /\ body[r] \in ProductWrite
    BY <1>11, <2>1 DEF update_commit, TypeOK, TablesTypeOK, SessionsOK, SessionOK
  <2>3. assigned(r, working[target[r]]) \in Product
    BY <2>2 DEF assigned, Product, ProductWrite
  <2> DEFINE version == assigned(r, working[target[r]])
  <2>4. \/ version.quantity = working[target[r]].quantity
        \/ version.quantity = body[r].quantity /\ SetsStock(r, target[r])
    BY <2>1 DEF assigned, SetsStock
  <2>5. WriteAndCommit(r, target[r], version) /\ working[target[r]] # NoRow
    BY <1>11 DEF update_commit
  <2> HIDE DEF version
  <2>6. Edits(r, target[r], version)
    BY <2>1, <2>3, <2>4, <2>5 DEF Edits, TransactionSteps, version
  <2> QED BY <2>1, <2>6
<1>12. CASE delete_commit(r)
  <2>1. target[r] \in ProductId /\ pc[r] = "delete" /\ pc'[r] = "done"
    BY <1>12 DEF delete_commit, SessionsOK, SessionOK, ProductSteps, Respond, TypeOK
  <2>2. Edits(r, target[r], NoRow)
    BY <1>12, <2>1 DEF delete_commit, Edits, TransactionSteps
  <2> QED BY <2>1, <2>2
<1> QED BY <1>1, <1>2, <1>3, <1>4, <1>5, <1>6, <1>7, <1>8, <1>9, <1>10, <1>11, <1>12
        DEF Call, Step, OrderServiceStep, ProductServiceStep

-----------------------------------------------------------------------------
(* Locks                                                                   *)
-----------------------------------------------------------------------------
LEMMA LocksStep ==
  ASSUME Shape, NEW r \in Session, Call(r) \/ Step(r) \/ Abort(r)
  PROVE  NothingLeftBehind'
<1> USE SessionAssumption DEF Shape
<1>1. StepOK(r)
  BY TypeStep
<1>2. \A s \in Session : s # r => pc'[s] = pc[s]
  BY <1>1 DEF StepOK, SameSession
<1>3. lock \in [Row -> Session \cup {NoSession}]
  BY DEF TypeOK
<1>4. CASE Quiet(r)
  BY <1>4, <1>2, <1>3 DEF Quiet, tables, NothingLeftBehind
<1>5. CASE /\ \E x \in Row : \E version : Write(r, x, version)
           /\ pc'[r] \in TransactionSteps
  <2>1. PICK x \in Row : \E version : Write(r, x, version)
    BY <1>5
  <2>2. x \in LockSet(x)
    BY DEF LockSet
  <2>3. committed' = committed /\ \A y \in Row : y # x => working'[y] = working[y]
    BY <2>1 DEF Write, TypeOK, TablesTypeOK
  <2>4. lock' = [y \in Row |-> IF y \in LockSet(x) THEN r ELSE lock[y]]
    BY <2>1 DEF Write
  <2> QED BY <1>2, <1>3, <1>5, <2>2, <2>3, <2>4 DEF NothingLeftBehind
<1>6. CASE Commits(r) \/ RollsBack(r)
  <2>1. lock' = Released(r)
    BY <1>6 DEF Commits, RollsBack, Commit, Rollback
  <2>2. \A x \in Row : lock'[x] = NoSession => working'[x] = committed'[x]
    BY <1>6 DEF Commits, RollsBack, Commit, Rollback, Released, NothingLeftBehind,
                TypeOK, TablesTypeOK
  <2> QED BY <1>2, <1>3, <2>1, <2>2 DEF Released, NothingLeftBehind
<1>7. CASE \E p \in ProductId : \E version : Edits(r, p, version)
  <2>1. PICK p \in ProductId : \E version : Edits(r, p, version)
    BY <1>7
  <2>2. PICK version : Edits(r, p, version)
    BY <2>1
  <2>3. /\ lock' = lock
        /\ \A x \in Row \ {p} : working'[x] = working[x] /\ committed'[x] = committed[x]
        /\ working'[p] = committed'[p] /\ p \in Row
    BY <2>2 DEF Edits, WriteAndCommit, TypeOK, TablesTypeOK, Row
  <2>4. \A x \in Row : lock[x] # r
    BY <2>2 DEF Edits, NothingLeftBehind
  <2> QED BY <1>2, <1>3, <2>3, <2>4 DEF NothingLeftBehind
<1>8. Adds(r) \/ SetsStatus(r)
        \/ (\E p \in ProductId : Takes(r, p)) \/ (\E p \in ProductId : Returns(r, p))
      => /\ \E x \in Row : \E version : Write(r, x, version)
         /\ pc'[r] \in TransactionSteps
  BY DEF Adds, Takes, Returns, SetsStatus, TransactionSteps, Row, SessionsOK, SessionOK,
         PatchSteps
<1> QED BY <1>4, <1>5, <1>6, <1>7, <1>8, StepKinds

-----------------------------------------------------------------------------
(* Orders                                                                  *)
-----------------------------------------------------------------------------

(* What is committed of an order is only added to.                         *)
HistoryOf(o) ==
  committed[o] # NoRow =>
    /\ committed'[o] # NoRow
    /\ committed'[o].line_items = committed[o].line_items
    /\ committed[o].stock_restored => committed'[o].stock_restored

LEMMA HistoryStep ==
  ASSUME Shape, NEW r \in Session, Call(r) \/ Step(r) \/ Abort(r), NEW o \in OrderId
  PROVE  HistoryOf(o)
<1> USE DEF Shape
<1>1. o \in Row /\ o \notin ProductId
  BY KeyAssumption DEF Row
<1>2. committed'[o] = committed[o] \/ committed'[o] = working[o]
  BY <1>1, StepKinds
  DEF Quiet, tables, Adds, Takes, Returns, SetsStatus, Commits, RollsBack, Edits, Write,
      Commit, Rollback, WriteAndCommit, TypeOK, TablesTypeOK
<1> QED BY <1>2 DEF HistoryOf, OrdersKept, OrderKept

LEMMA ChangedKeepsOrder ==
  ASSUME Shape, NEW r \in Session, pc[r] = "update_status"
  PROVE  LET old == working[target[r]]
             new == changed(r, old) IN
         /\ old # NoRow /\ old \in Order /\ new \in Order
         /\ new.line_items = old.line_items
         /\ new.stock_restored = (old.stock_restored
                                    \/ should_restock(order[r], body[r].status))
         /\ new.status \in {old.status, body[r].status}
         /\ new.status # old.status => body[r].status # order[r].status
<1>1. working[target[r]] \in Order /\ changed(r, working[target[r]]) \in Order
  BY ChangedIsOrder DEF Shape
<1> QED BY <1>1, NoRowAssumption DEF changed, Order

LEMMA OrdersKeptStep ==
  ASSUME Shape, NEW r \in Session, Call(r) \/ Step(r) \/ Abort(r)
  PROVE  OrdersKept'
<1> SUFFICES ASSUME NEW o \in OrderId PROVE OrderKept(o)'
  BY DEF OrdersKept
<1> USE DEF Shape
<1>1. o \in Row /\ o \notin ProductId
  BY KeyAssumption DEF Row
<1>2. OrderKept(o)
  BY DEF OrdersKept
<1>3. CASE committed'[o] = committed[o] /\ working'[o] = working[o]
  BY <1>2, <1>3 DEF OrderKept
<1>4. CASE committed'[o] = working'[o]
  BY <1>4 DEF OrderKept
<1>5. CASE Adds(r)
  BY <1>1, <1>2, <1>3, <1>5 DEF Adds, Write, OrderKept, TypeOK, TablesTypeOK
<1>6. CASE SetsStatus(r)
  <2>1. CASE o = target[r]
    <3> DEFINE new == changed(r, working[o])
    <3>1. committed'[o] = committed[o] /\ working'[o] = new
      BY <1>1, <1>6, <2>1 DEF SetsStatus, Write, TypeOK, TablesTypeOK
    <3>2. /\ new \in Order /\ new.line_items = working[o].line_items
          /\ working[o].stock_restored => new.stock_restored
      BY <1>6, <2>1, ChangedKeepsOrder DEF SetsStatus
    <3> HIDE DEF new
    <3> QED BY <1>2, <3>1, <3>2, NoRowAssumption DEF OrderKept
  <2>2. CASE o # target[r]
    BY <1>1, <1>3, <1>6, <2>2 DEF SetsStatus, Write, TypeOK, TablesTypeOK
  <2> QED BY <2>1, <2>2
<1>7. CASE Commits(r) \/ RollsBack(r)
  BY <1>1, <1>3, <1>4, <1>7 DEF Commits, RollsBack, Commit, Rollback, TypeOK, TablesTypeOK
<1>8. CASE Quiet(r) \/ (\E p \in ProductId : Takes(r, p) \/ Returns(r, p))
           \/ (\E p \in ProductId : \E version : Edits(r, p, version))
  <2>1. CASE Quiet(r)
    BY <1>3, <2>1 DEF Quiet, tables
  <2>2. CASE \E p \in ProductId : Takes(r, p) \/ Returns(r, p)
    <3>1. PICK p \in ProductId : \E version : Write(r, p, version)
      BY <2>2 DEF Takes, Returns
    <3> QED BY <1>1, <1>3, <3>1 DEF Write, TypeOK, TablesTypeOK
  <2>3. CASE \E p \in ProductId : \E version : Edits(r, p, version)
    BY <1>1, <1>3, <2>3 DEF Edits, WriteAndCommit, TypeOK, TablesTypeOK
  <2> QED BY <1>8, <2>1, <2>2, <2>3
<1> QED BY <1>5, <1>6, <1>7, <1>8, StepKinds

(* The steps that lead to or stay within the handling of a PATCH.          *)
LEMMA PatchStepKinds ==
  ASSUME Shape, NEW r \in Session, Call(r) \/ Step(r) \/ Abort(r)
  PROVE  \/ pc'[r] \notin PatchSteps
         \/ \E id \in OrderId, status \in PatchStatus : update_status(r, id, status)
         \/ restock(r) \/ restock_product_missing(r) \/ adjust_quantity(r)
         \/ write_status(r) \/ commit_status(r)
<1> USE DEF Shape
<1>1. \/ create_with_line_items(r) \/ decrement_quantity_if_available(r)
      \/ decrement_insufficient(r) \/ commit_checkout(r) \/ adjust_quantity_stale(r)
      \/ reload(r) \/ Abort(r)
      => pc'[r] \notin PatchSteps
  <2>1. create_with_line_items(r) \/ decrement_quantity_if_available(r)
          => pc'[r] \in {"decrement", "commit_checkout"}
    BY DEF create_with_line_items, decrement_quantity_if_available, AfterDecrement,
           Goto, TypeOK
  <2>2. \/ decrement_insufficient(r) \/ commit_checkout(r) \/ adjust_quantity_stale(r)
        \/ reload(r) \/ Abort(r)
        => pc'[r] = "done"
    BY DEF decrement_insufficient, commit_checkout, adjust_quantity_stale, reload,
           Abort, Respond, TypeOK
  <2> QED BY <2>1, <2>2 DEF PatchSteps
<1>2. ProductServiceStep(r) \/ ProductServiceCall(r) => pc'[r] \notin PatchSteps
  <2>1. ProductServiceStep(r) => pc'[r] \in {"done", "refresh"}
    BY DEF ProductServiceStep, update_commit, update_duplicate, update_stale, refresh,
       delete_commit, Goto, Respond, TypeOK
  <2>2. ProductServiceCall(r) => pc'[r] \in {"done", "refresh", "update", "delete"}
    BY DEF ProductServiceCall, create_product, create_product_duplicate,
       update_product, update_product_not_found, delete_product,
       delete_product_not_found, Goto, Respond, TypeOK
  <2> QED BY <2>1, <2>2 DEF PatchSteps
<1>3. (\E items \in Cart : checkout(r, items) \/ checkout_refused(r, items))
        \/ (\E id \in OrderId, status \in PatchStatus :
              update_status_not_found(r, id, status))
      => pc'[r] \notin PatchSteps
  <2>1. ASSUME NEW items \in Cart, checkout(r, items) \/ checkout_refused(r, items)
        PROVE  pc'[r] \in {"create_with_line_items", "done"}
    BY <2>1 DEF checkout, checkout_refused, Goto, Respond, TypeOK
  <2>2. ASSUME NEW id \in OrderId, NEW status \in PatchStatus,
               update_status_not_found(r, id, status)
        PROVE  pc'[r] = "done"
    BY <2>2 DEF update_status_not_found, Respond, TypeOK
  <2> QED BY <2>1, <2>2 DEF PatchSteps
<1> QED BY <1>1, <1>2, <1>3 DEF Call, Step, OrderServiceStep, OrderServiceCall

LEMMA PatchesLoadedStep ==
  ASSUME Shape, NEW r \in Session, Call(r) \/ Step(r) \/ Abort(r)
  PROVE  PatchesLoaded'
<1> SUFFICES ASSUME NEW s \in Session PROVE LoadedOK(s)'
  BY DEF PatchesLoaded
<1> USE DEF Shape
<1>1. StepOK(r)
  BY TypeStep
<1>2. ASSUME pc[s] \in PatchSteps, pc'[s] \in PatchSteps,
             target'[s] = target[s], order'[s] = order[s]
      PROVE  LoadedOK(s)'
  <2>1. LoadedOK(s) /\ target[s] \in OrderId
    BY <1>2 DEF PatchesLoaded, SessionsOK, SessionOK
  <2> QED BY <1>2, <2>1, HistoryStep DEF LoadedOK, HistoryOf
<1>3. CASE s # r
  BY <1>1, <1>2, <1>3 DEF StepOK, SameSession, LoadedOK
<1>4. CASE s = r /\ \E id \in OrderId, status \in PatchStatus : update_status(r, id, status)
  <2>1. PICK id \in OrderId, status \in PatchStatus : update_status(r, id, status)
    BY <1>4
  <2>2. lock[id] # r
    BY <2>1, SessionAssumption
    DEF update_status, Admit, NothingLeftBehind, TransactionSteps, Row
  <2>3. /\ order'[r] = committed[id] /\ committed[id] # NoRow
        /\ target'[r] = id /\ committed' = committed
    BY <2>1, <2>2 DEF update_status, Read, Called, tables, TypeOK
  <2> QED BY <1>4, <2>3 DEF LoadedOK
<1>5. CASE s = r /\ pc'[r] \notin PatchSteps
  BY <1>5 DEF LoadedOK
<1>6. CASE /\ s = r
           /\ \/ restock(r) \/ restock_product_missing(r) \/ adjust_quantity(r)
              \/ write_status(r) \/ commit_status(r)
  <2>1. target'[s] = target[s] /\ order'[s] = order[s] /\ pc[s] \in PatchSteps
    BY <1>6 DEF restock, restock_product_missing, adjust_quantity, write_status,
                commit_status, handler, session, PatchSteps
  <2> QED BY <1>2, <2>1 DEF LoadedOK
<1> QED BY <1>3, <1>4, <1>5, <1>6, PatchStepKinds

LEMMA ShapeStep ==
  ASSUME Shape, NEW r \in Session, Call(r) \/ Step(r) \/ Abort(r)
  PROVE  Shape'
<1>1. StepOK(r)
  BY TypeStep DEF Shape
<1>2. SessionsOK'
  BY <1>1, SameSessionOK DEF StepOK, SessionsOK, Shape
<1> QED BY <1>1, <1>2, LocksStep, OrdersKeptStep, PatchesLoadedStep DEF StepOK, Shape

-----------------------------------------------------------------------------
(* Cancelled orders have been restored                                     *)
-----------------------------------------------------------------------------
LEMMA CancelledRestoredStep ==
  ASSUME Shape, CancelledRestored, NEW r \in Session, Call(r) \/ Step(r) \/ Abort(r)
  PROVE  CancelledRestored'
<1> SUFFICES ASSUME NEW o \in OrderId
             PROVE  RestoredIfCancelled(committed'[o]) /\ RestoredIfCancelled(working'[o])
  BY DEF CancelledRestored
<1> USE DEF Shape
<1>1. o \in Row /\ o \notin ProductId
  BY KeyAssumption DEF Row
<1>2. RestoredIfCancelled(committed[o]) /\ RestoredIfCancelled(working[o])
  BY DEF CancelledRestored
<1>3. CASE Adds(r)
  <2>1. order[r].status = "pending"
    BY <1>3 DEF Adds, SessionsOK, SessionOK
  <2> QED BY <1>1, <1>2, <1>3, <2>1
          DEF Adds, Write, RestoredIfCancelled, TypeOK, TablesTypeOK
<1>4. CASE SetsStatus(r) /\ o = target[r]
  <2> DEFINE old == working[o]
             new == changed(r, old)
  <2>1. committed'[o] = committed[o] /\ working'[o] = new
    BY <1>1, <1>4 DEF SetsStatus, Write, TypeOK, TablesTypeOK
  <2>2. /\ old # NoRow
        /\ new.stock_restored = (old.stock_restored
                                   \/ should_restock(order[r], body[r].status))
        /\ new.status \in {old.status, body[r].status}
        /\ new.status # old.status => body[r].status # order[r].status
    BY <1>4, ChangedKeepsOrder DEF SetsStatus
  <2>3. order[r].stock_restored => old.stock_restored
    BY <1>4 DEF SetsStatus, PatchesLoaded, LoadedOK, OrdersKept, OrderKept, PatchSteps
  <2> HIDE DEF new
  <2>4. RestoredIfCancelled(new)
    BY <1>2, <2>2, <2>3 DEF RestoredIfCancelled, should_restock
  <2> QED BY <1>2, <2>1, <2>4
<1>5. CASE ~Adds(r) /\ ~(SetsStatus(r) /\ o = target[r])
  <2>1. committed'[o] \in {committed[o], working[o]} /\ working'[o] \in {committed[o], working[o]}
    BY <1>1, <1>5, StepKinds
    DEF Quiet, tables, Takes, Returns, SetsStatus, Commits, RollsBack, Edits, Write,
        Commit, Rollback, WriteAndCommit, TypeOK, TablesTypeOK
  <2> QED BY <1>2, <2>1
<1> QED BY <1>3, <1>4, <1>5

-----------------------------------------------------------------------------
(* Stock is not negative                                                   *)
-----------------------------------------------------------------------------

(* The object a session holds is one it held, one it reads now, or none.   *)
LEMMA ProductObject ==
  ASSUME Shape, NEW r \in Session, Call(r) \/ Step(r) \/ Abort(r), NEW s \in Session
  PROVE  \/ product'[s] = product[s]
         \/ product'[s] = NoRow
         \/ \E p \in ProductId : product'[s] \in {committed[p], working[p]}
<1> USE DEF Shape
<1>1. CASE s # r
  BY <1>1, TypeStep DEF StepOK, SameSession
<1>2. CASE s = r /\ OrderServiceCall(r)
  <2>1. CASE \E items \in Cart : checkout(r, items) \/ checkout_refused(r, items)
    BY <1>2, <2>1 DEF checkout, checkout_refused, Respond, TypeOK
  <2>2. CASE \E id \in OrderId, status \in PatchStatus :
               update_status(r, id, status) \/ update_status_not_found(r, id, status)
    BY <1>2, <2>2 DEF update_status, update_status_not_found, Respond, TypeOK
  <2> QED BY <1>2, <2>1, <2>2 DEF OrderServiceCall
<1>3. CASE s = r /\ restock(r)
  <2>1. PICK p \in todo[r] : product' = [product EXCEPT ![r] = Read(r, p)]
    BY <1>3 DEF restock, next_lines, First
  <2> QED BY <1>3, <2>1 DEF Read, TypeOK
<1>4. CASE s = r /\ ~restock(r) /\ (OrderServiceStep(r) \/ Abort(r))
  <2>1. create_with_line_items(r) \/ decrement_quantity_if_available(r)
          \/ restock_product_missing(r) \/ adjust_quantity(r) \/ write_status(r)
          \/ commit_status(r)
        => product' = product
    BY DEF create_with_line_items, decrement_quantity_if_available,
       restock_product_missing, adjust_quantity, write_status, commit_status, session
  <2>2. decrement_insufficient(r) \/ commit_checkout(r) \/ adjust_quantity_stale(r)
          \/ reload(r) \/ Abort(r)
        => product'[r] = NoRow
    BY DEF decrement_insufficient, commit_checkout, adjust_quantity_stale, reload,
       Abort, Respond, TypeOK
  <2> QED BY <1>4, <2>1, <2>2 DEF OrderServiceStep
<1>5. CASE s = r /\ ProductServiceCall(r)
  <2>1. CASE \E content \in PostBody :
               create_product(r, content) \/ create_product_duplicate(r, content)
    BY <1>5, <2>1 DEF create_product, create_product_duplicate, Respond, session, TypeOK
  <2>2. CASE \E p \in ProductId, content \in PutBody :
               update_product(r, p, content) \/ update_product_not_found(r, p, content)
    BY <1>5, <2>2 DEF update_product, update_product_not_found, Respond, Read, TypeOK
  <2>3. CASE \E p \in DeleteId :
               delete_product(r, p) \/ delete_product_not_found(r, p)
    BY <1>5, <2>3, DeleteIdAssumption
    DEF delete_product, delete_product_not_found, Respond, Read, TypeOK
  <2> QED BY <1>5, <2>1, <2>2, <2>3 DEF ProductServiceCall
<1>6. CASE s = r /\ ProductServiceStep(r)
  <2>1. update_commit(r) => product' = product
    BY DEF update_commit, session
  <2>2. update_duplicate(r) \/ update_stale(r) \/ refresh(r) \/ delete_commit(r)
        => product'[r] = NoRow
    BY DEF update_duplicate, update_stale, refresh, delete_commit, Respond, TypeOK
  <2> QED BY <1>6, <2>1, <2>2 DEF ProductServiceStep
<1> QED BY <1>1, <1>2, <1>3, <1>4, <1>5, <1>6 DEF Call, Step

LEMMA StockNotNegativeStep ==
  ASSUME Shape, StockNotNegative, NEW r \in Session, Call(r) \/ Step(r) \/ Abort(r)
  PROVE  StockNotNegative'
<1> USE DEF Shape
<1>1. ASSUME NEW s \in Session PROVE NoDebt(product'[s])
  BY ProductObject DEF StockNotNegative, NoDebt
<1>2. ASSUME NEW q \in ProductId PROVE NoDebt(committed'[q]) /\ NoDebt(working'[q])
  <2>1. NoDebt(committed[q]) /\ NoDebt(working[q]) /\ q \in Row /\ q \notin OrderId
    BY KeyAssumption DEF StockNotNegative, Row
  <2>2. working[q] # NoRow => working[q] \in Product
    BY DEF TypeOK, TablesTypeOK
  <2>3. CASE \E p \in ProductId : p \in todo[r] /\ Takes(r, p)
    <3>1. PICK p \in ProductId : p \in todo[r] /\ Takes(r, p)
      BY <2>3
    <3>2. ordered(r, p) \in Nat
      BY <3>1, LineInLoop DEF Takes, LoopSteps
    <3> QED BY <2>1, <2>2, <3>1, <3>2
            DEF Takes, Covers, Write, NoDebt, Product, TypeOK, TablesTypeOK
  <2>4. CASE \E p \in ProductId : p \in todo[r] /\ Returns(r, p)
    <3>1. PICK p \in ProductId : p \in todo[r] /\ Returns(r, p)
      BY <2>4
    <3>2. ordered(r, p) \in Nat
      BY <3>1, LineInLoop DEF Returns, LoopSteps
    <3>3. product[r] \in Product /\ product[r].quantity >= 0
      BY <3>1 DEF Returns, SessionsOK, SessionOK, StockNotNegative, NoDebt, TypeOK
    <3>4. product[r].quantity + ordered(r, p) >= 0
      BY <3>2, <3>3 DEF Product
    <3> QED BY <2>1, <2>2, <3>1, <3>4
            DEF Returns, Write, NoDebt, Product, TypeOK, TablesTypeOK
  <2>5. CASE \E p \in ProductId : \E version : Edits(r, p, version)
    <3>1. PICK p \in ProductId : \E version : Edits(r, p, version)
      BY <2>5
    <3>2. PICK version : Edits(r, p, version)
      BY <3>1
    <3>3. NoDebt(version)
      <4>1. pc[r] = "update" => body[r].quantity \in Nat
        BY DEF SessionsOK, SessionOK, ProductWrite
      <4>2. NoDebt(working[p])
        BY DEF StockNotNegative
      <4> QED BY <3>2, <4>1, <4>2 DEF Edits, NoDebt
    <3> QED BY <2>1, <3>2, <3>3 DEF Edits, WriteAndCommit, TypeOK, TablesTypeOK
  <2>6. CASE Quiet(r) \/ Adds(r) \/ SetsStatus(r) \/ Commits(r) \/ RollsBack(r)
    <3>1. SetsStatus(r) => target[r] \in OrderId
      BY DEF SetsStatus, SessionsOK, SessionOK, PatchSteps
    <3> QED BY <2>1, <2>6, <3>1
            DEF Quiet, tables, Adds, SetsStatus, Commits, RollsBack, Write, Commit,
                Rollback, TypeOK, TablesTypeOK
  <2> QED BY <2>3, <2>4, <2>5, <2>6, StepKinds
<1> QED BY <1>1, <1>2 DEF StockNotNegative

-----------------------------------------------------------------------------
(* Open checkouts                                                          *)
-----------------------------------------------------------------------------

(* What another session has locked is out of reach of r.                   *)
LEMMA Undisturbed ==
  ASSUME Shape, NEW r \in Session, Call(r) \/ Step(r) \/ Abort(r),
         NEW s \in Session, s # r, NEW x \in Row
  PROVE  /\ lock[x] = s => /\ lock'[x] = s
                           /\ committed'[x] = committed[x]
                           /\ working'[x] = working[x]
         /\ lock'[x] = s => lock[x] = s
<1> USE SessionAssumption DEF Shape
<1>1. CASE Quiet(r)
  BY <1>1 DEF Quiet, tables
<1>2. CASE \E y \in Row : \E version : Write(r, y, version)
  <2>1. PICK y \in Row : \E version : Write(r, y, version)
    BY <1>2
  <2>2. /\ \A z \in LockSet(y) : lock[z] \in {r, NoSession}
        /\ lock' = [z \in Row |-> IF z \in LockSet(y) THEN r ELSE lock[z]]
        /\ committed' = committed
        /\ x # y => working'[x] = working[x]
    BY <2>1 DEF Write, CanWrite, TypeOK, TablesTypeOK
  <2>3. y \in LockSet(y)
    BY DEF LockSet
  <2> QED BY <2>2, <2>3
<1>3. CASE Commits(r) \/ RollsBack(r)
  BY <1>3 DEF Commits, RollsBack, Commit, Rollback, Released, TypeOK, TablesTypeOK
<1>4. CASE \E p \in ProductId : \E version : Edits(r, p, version)
  <2>1. PICK p \in ProductId : \E version : Edits(r, p, version)
    BY <1>4
  <2>2. /\ lock[p] \in {r, NoSession} /\ lock' = lock
        /\ x # p => working'[x] = working[x] /\ committed'[x] = committed[x]
    BY <2>1 DEF Edits, WriteAndCommit, CanWrite, LockSet, TypeOK, TablesTypeOK, Row
  <2> QED BY <2>2
<1>5. Adds(r) \/ SetsStatus(r)
        \/ (\E p \in ProductId : Takes(r, p)) \/ (\E p \in ProductId : Returns(r, p))
      => \E y \in Row : \E version : Write(r, y, version)
  BY DEF Adds, Takes, Returns, SetsStatus, Row, SessionsOK, SessionOK, PatchSteps
<1> QED BY <1>1, <1>2, <1>3, <1>4, <1>5, StepKinds

(* The rows r may write before it has written any, or after: no version of *)
(* theirs is uncommitted but its own.                                      *)
LEMMA FreeIsCommitted ==
  ASSUME Shape, NEW r \in Session, NEW x \in Row, CanWrite(r, x), NEW y \in LockSet(x),
         lock[y] # r
  PROVE  working[y] = committed[y]
  BY DEF CanWrite, Shape, NothingLeftBehind, LockSet

LEMMA AddsOpens ==
  ASSUME Shape, NEW r \in Session, Adds(r)
  PROVE  CheckoutOpen(r)'
<1> USE DEF Shape
<1> DEFINE id == target'[r]
<1>1. /\ id \in OrderId /\ id \in Row /\ working[id] = NoRow
      /\ Write(r, id, order[r]) /\ id \in LockSet(id)
  BY DEF Adds, Row, LockSet
<1>2. committed'[id] = NoRow /\ working'[id] = order'[r] /\ lock'[id] = r
  BY <1>1 DEF Adds, Write, OrdersKept, OrderKept, TypeOK, TablesTypeOK
<1>3. DOMAIN order'[r].line_items \ todo'[r] = {}
  BY DEF Adds
<1>4. ASSUME NEW x \in Row, lock'[x] = r, x # id PROVE working'[x] = committed'[x]
  <2>1. lock[x] # r
    BY SessionAssumption DEF Adds, NothingLeftBehind, TransactionSteps
  <2>2. x \in LockSet(id) /\ CanWrite(r, id)
    BY <1>1, <1>4, <2>1 DEF Write
  <2>3. working[x] = committed[x]
    BY <1>1, <2>1, <2>2, FreeIsCommitted
  <2> QED BY <1>1, <1>4, <2>3 DEF Write, TypeOK, TablesTypeOK
<1> QED BY <1>2, <1>3, <1>4 DEF CheckoutOpen

LEMMA TakesStaysOpen ==
  ASSUME Shape, CheckoutsOpen, NEW r \in Session, NEW p \in ProductId, p \in todo[r],
         Takes(r, p)
  PROVE  CheckoutOpen(r)'
<1> USE DEF Shape
<1>1. /\ CheckoutOpen(r) /\ pc[r] = "decrement" /\ pc[r] \in CheckoutSteps
      /\ target[r] \in OrderId /\ target[r] \in Row /\ target[r] # p /\ p \in Row
  BY KeyAssumption DEF Takes, CheckoutsOpen, CheckoutSteps, SessionsOK, SessionOK, Row
<1>2. p \in DOMAIN order[r].line_items /\ DOMAIN order[r].line_items \subseteq ProductId
  BY <1>1, LineInLoop, LinesOfOrder DEF LoopSteps
<1> DEFINE new == [working[p] EXCEPT !.quantity = @ - ordered(r, p)]
<1>3. /\ Write(r, p, new) /\ CanWrite(r, p) /\ p \in LockSet(p)
      /\ committed' = committed
  <2>1. Write(r, p, new)
    BY DEF Takes
  <2>2. p \in LockSet(p)
    BY <1>1 DEF LockSet
  <2> HIDE DEF new
  <2> QED BY <2>1, <2>2 DEF Write
<1>4. working'[p] = new /\ \A x \in Row : x # p => working'[x] = working[x]
  BY <1>1, <1>3 DEF Write, TypeOK, TablesTypeOK
<1>5. \A x \in Row : lock'[x] = IF x \in LockSet(p) THEN r ELSE lock[x]
  BY <1>3 DEF Write
<1>6. working[p] = committed[p]
  <2>1. CASE lock[p] = r
    BY <1>1, <2>1 DEF CheckoutOpen
  <2>2. CASE lock[p] # r
    BY <1>1, <1>3, <2>2, FreeIsCommitted
  <2> QED BY <2>1, <2>2
<1>7. /\ order'[r] = order[r] /\ target'[r] = target[r] /\ todo'[r] = todo[r] \ {p}
      /\ Covers(working[p], ordered(r, p))
  BY DEF Takes
<1>8. Decremented(r, p)'
  <2>1. working[p] \in Product
    BY <1>7 DEF Covers, TypeOK, TablesTypeOK
  <2>2. new \in Product /\ new.quantity = working[p].quantity - ordered(r, p)
    <3>1. ordered(r, p) \in Nat
      BY <1>1, LineInLoop DEF LoopSteps
    <3> QED BY <2>1, <3>1 DEF Product
  <2>3. new # NoRow
    BY <2>2, NoRowAssumption
  <2>4. lock'[p] = r
    BY <1>1, <1>3, <1>5
  <2>5. new = [committed[p] EXCEPT !.quantity = @ - ordered(r, p)]
    BY <1>6
  <2>6. ordered(r, p)' = ordered(r, p)
    BY <1>7 DEF ordered
  <2> HIDE DEF new
  <2> QED BY <1>3, <1>4, <1>6, <1>7, <2>3, <2>4, <2>5, <2>6 DEF Decremented, Covers
<1>9. ASSUME NEW q \in DOMAIN order[r].line_items \ todo[r], q # p
      PROVE  Decremented(r, q)'
  <2>1. Decremented(r, q) /\ q \in Row
    BY <1>1, <1>2 DEF CheckoutOpen, Row
  <2> QED BY <1>3, <1>4, <1>5, <1>7, <1>9, <2>1 DEF Decremented, ordered, Covers
<1>10. ASSUME NEW x \in Row, lock'[x] = r, x # target[r], x # p,
              x \notin DOMAIN order[r].line_items \ todo[r]
       PROVE  working'[x] = committed'[x]
  <2>1. CASE lock[x] = r
    BY <1>1, <1>3, <1>4, <1>10, <2>1 DEF CheckoutOpen
  <2>2. CASE lock[x] # r
    <3>1. x \in LockSet(p)
      BY <1>5, <1>10, <2>2
    <3> QED BY <1>1, <1>3, <1>4, <1>10, <2>2, <3>1, FreeIsCommitted
  <2> QED BY <2>1, <2>2
<1>11. committed'[target[r]] = NoRow /\ working'[target[r]] = order[r]
       /\ lock'[target[r]] = r
  BY <1>1, <1>3, <1>4, <1>5 DEF CheckoutOpen
<1>12. \A q \in DOMAIN order'[r].line_items \ todo'[r] : Decremented(r, q)'
  BY <1>2, <1>7, <1>8, <1>9
<1>13. \A x \in Row :
         lock'[x] = r /\ x # target'[r] /\ x \notin DOMAIN order'[r].line_items \ todo'[r]
           => working'[x] = committed'[x]
  BY <1>2, <1>7, <1>10
<1> QED BY <1>7, <1>11, <1>12, <1>13 DEF CheckoutOpen

LEMMA CheckoutsOpenStep ==
  ASSUME Shape, CheckoutsOpen, NEW r \in Session, Call(r) \/ Step(r) \/ Abort(r)
  PROVE  CheckoutsOpen'
<1> SUFFICES ASSUME NEW s \in Session PROVE CheckoutOpen(s)'
  BY DEF CheckoutsOpen
<1> USE DEF Shape
<1>1. CASE s # r
  <2>1. SameSession(s)
    BY <1>1, TypeStep DEF StepOK
  <2>2. SUFFICES ASSUME pc[s] \in CheckoutSteps PROVE CheckoutOpen(s)'
    BY <2>1 DEF CheckoutOpen, SameSession
  <2>3. CheckoutOpen(s) /\ target[s] \in Row /\ order[s] \in Order
    BY <2>2 DEF CheckoutsOpen, SessionsOK, SessionOK, TypeOK, Row, CheckoutSteps, OrderSteps
  <2>4. DOMAIN order[s].line_items \subseteq Row
    BY <2>3, LinesOfOrder DEF Row
  <2>5. ASSUME NEW p \in DOMAIN order[s].line_items \ todo[s] PROVE Decremented(s, p)'
    <3>1. Decremented(s, p) /\ p \in Row
      BY <2>2, <2>3, <2>4, <2>5 DEF CheckoutOpen
    <3>2. lock'[p] = s /\ committed'[p] = committed[p] /\ working'[p] = working[p]
      BY <1>1, <3>1, Undisturbed DEF Decremented
    <3> QED BY <2>1, <3>1, <3>2 DEF Decremented, SameSession, ordered, Covers
  <2>6. /\ committed'[target[s]] = NoRow /\ working'[target[s]] = order[s]
        /\ lock'[target[s]] = s
    BY <1>1, <2>2, <2>3, Undisturbed DEF CheckoutOpen
  <2>7. ASSUME NEW x \in Row, lock'[x] = s, x # target[s],
               x \notin DOMAIN order[s].line_items \ todo[s]
        PROVE  working'[x] = committed'[x]
    BY <1>1, <2>2, <2>3, <2>7, Undisturbed DEF CheckoutOpen
  <2> QED BY <2>1, <2>5, <2>6, <2>7 DEF CheckoutOpen, SameSession
<1>2. CASE s = r /\ Adds(r)
  BY <1>2, AddsOpens
<1>3. CASE s = r /\ \E p \in ProductId : p \in todo[r] /\ Takes(r, p)
  BY <1>3, TakesStaysOpen
<1>4. CASE s = r /\ pc'[r] \notin CheckoutSteps
  BY <1>4 DEF CheckoutOpen
<1>5. Quiet(r) \/ SetsStatus(r) \/ Commits(r) \/ RollsBack(r)
        \/ (\E p \in ProductId : Returns(r, p))
        \/ (\E p \in ProductId : \E version : Edits(r, p, version))
      => pc'[r] \notin CheckoutSteps
  BY DEF Quiet, SetsStatus, Commits, RollsBack, Returns, Edits, CheckoutSteps,
         TransactionSteps
<1> QED BY <1>1, <1>2, <1>3, <1>4, <1>5, StepKinds

(* The last write of a PATCH: the order's row is free, or its own.         *)
LEMMA SetsStatusOpens ==
  ASSUME Shape, PatchesOpen, NEW r \in Session, write_status(r)
  PROVE  PatchOpen(r)'
<1> USE DEF Shape
<1> DEFINE id == target[r]
           new == changed(r, working[id])
<1>1. /\ pc[r] = "update_status" /\ pc'[r] = "commit_status" /\ Write(r, id, new)
      /\ target' = target /\ body' = body /\ order' = order /\ id \in Row
  BY DEF write_status, Goto, handler, session, SessionsOK, SessionOK, PatchSteps, TypeOK,
         Row
<1>2. id \in LockSet(id) /\ CanWrite(r, id)
  BY <1>1 DEF Write, LockSet
<1>3. working[id] = committed[id]
  <2>1. CASE lock[id] = r
    BY <1>1, <2>1 DEF PatchesOpen, PatchOpen
  <2>2. CASE lock[id] # r
    BY <1>1, <1>2, <2>2, FreeIsCommitted
  <2> QED BY <2>1, <2>2
<1>4. working[id] \in Order
  BY <1>1, ChangedKeepsOrder
<1>5. new.status = StatusDue(r)
  BY <1>3, <1>4 DEF changed, StatusDue, Order
<1>6. lock'[id] = r /\ working'[id] = new /\ committed' = committed
  BY <1>1, <1>2 DEF Write, TypeOK, TablesTypeOK
<1> HIDE DEF new
<1> QED BY <1>1, <1>5, <1>6 DEF PatchOpen, StatusDue

LEMMA PatchesOpenStep ==
  ASSUME Shape, PatchesOpen, NEW r \in Session, Call(r) \/ Step(r) \/ Abort(r)
  PROVE  PatchesOpen'
<1> SUFFICES ASSUME NEW s \in Session PROVE PatchOpen(s)'
  BY DEF PatchesOpen
<1> USE DEF Shape
<1>1. CASE s # r
  <2>1. SameSession(s)
    BY <1>1, TypeStep DEF StepOK
  <2>2. SUFFICES ASSUME pc[s] \in PatchSteps PROVE PatchOpen(s)'
    BY <2>1 DEF PatchOpen, SameSession, PatchSteps
  <2>3. PatchOpen(s) /\ target[s] \in Row
    BY <2>2 DEF PatchesOpen, SessionsOK, SessionOK, Row
  <2> QED BY <1>1, <2>1, <2>3, Undisturbed DEF PatchOpen, SameSession, StatusDue
<1>2. CASE s = r /\ write_status(r)
  BY <1>2, SetsStatusOpens
<1>3. CASE s = r /\ (commit_status(r) \/ pc'[r] \notin PatchSteps)
  <2>1. pc'[r] \notin PatchSteps \ {"reload"}
    BY <1>3 DEF commit_status, Goto, TypeOK
  <2> QED BY <1>3, <2>1 DEF PatchOpen, PatchSteps
<1>4. CASE s = r /\ \E id \in OrderId, status \in PatchStatus : update_status(r, id, status)
  <2>1. PICK id \in OrderId, status \in PatchStatus : update_status(r, id, status)
    BY <1>4
  <2>2. /\ pc'[r] \in {"restock", "update_status"} /\ target'[r] = id /\ id \in Row
        /\ lock' = lock
    BY <2>1 DEF update_status, Goto, Called, tables, TypeOK, Row
  <2>3. lock[id] # r
    BY <2>1, <2>2, SessionAssumption
    DEF update_status, Admit, NothingLeftBehind, TransactionSteps
  <2> QED BY <1>4, <2>2, <2>3 DEF PatchOpen
<1>5. CASE s = r /\ (restock(r) \/ restock_product_missing(r))
  <2>1. /\ pc[r] = "restock" /\ UNCHANGED tables /\ target' = target
        /\ pc'[r] \in {"restock", "adjust_quantity", "update_status"}
    BY <1>5 DEF restock, restock_product_missing, Goto, AfterLine, handler, TypeOK
  <2> QED BY <1>5, <2>1 DEF PatchesOpen, PatchOpen, tables
<1>6. CASE s = r /\ adjust_quantity(r)
  <2> DEFINE p == product[r].id
  <2>1. /\ pc[r] = "adjust_quantity" /\ target' = target
        /\ pc'[r] \in {"restock", "update_status"}
        /\ \E version : Write(r, p, version)
    BY <1>6 DEF adjust_quantity, Goto, AfterLine, handler, TypeOK
  <2>2. /\ target[r] \in Row /\ target[r] # p /\ p \in Row
    BY <2>1, KeyAssumption
    DEF SessionsOK, SessionOK, PatchSteps, LoopSteps, TypeOK, Row
  <2>3. lock[target[r]] = r => working[target[r]] = committed[target[r]]
    BY <2>1 DEF PatchesOpen, PatchOpen
  <2>4. target[r] \in LockSet(p) => working[target[r]] = committed[target[r]]
    <3>1. CanWrite(r, p)
      BY <2>1 DEF Write
    <3> HIDE DEF p
    <3> QED BY <2>2, <2>3, <3>1, FreeIsCommitted
  <2>5. /\ working'[target[r]] = working[target[r]] /\ committed' = committed
        /\ lock'[target[r]] = IF target[r] \in LockSet(p) THEN r ELSE lock[target[r]]
    BY <2>1, <2>2 DEF Write, TypeOK, TablesTypeOK
  <2> QED BY <1>6, <2>1, <2>3, <2>4, <2>5 DEF PatchOpen
<1> QED BY <1>1, <1>2, <1>3, <1>4, <1>5, <1>6, PatchStepKinds

LEMMA OrdersAddedByCheckoutStep ==
  ASSUME Shape, OrdersAddedByCheckout, NEW r \in Session, Call(r) \/ Step(r) \/ Abort(r)
  PROVE  OrdersAddedByCheckout'
<1> SUFFICES ASSUME NEW o \in OrderId, working'[o] # NoRow, committed'[o] = NoRow
             PROVE  lock'[o] \in Session /\ pc'[lock'[o]] \in CheckoutSteps
  BY DEF OrdersAddedByCheckout
<1> USE DEF Shape
<1>1. o \in Row /\ o \notin ProductId
  BY KeyAssumption DEF Row
<1>2. committed[o] = NoRow
  BY HistoryStep DEF HistoryOf
<1>3. CASE working[o] # NoRow
  <2> DEFINE s == lock[o]
  <2>1. s \in Session /\ pc[s] \in CheckoutSteps
    BY <1>2, <1>3 DEF OrdersAddedByCheckout
  <2>2. CASE s # r
    <3>1. lock'[o] = s
      BY <1>1, <2>1, <2>2, Undisturbed
    <3>2. pc'[s] = pc[s]
      BY <2>1, <2>2, TypeStep DEF StepOK, SameSession
    <3> QED BY <2>1, <3>1, <3>2
  <2>3. CASE s = r
    <3>1. pc[r] \in {"decrement", "commit_checkout"} /\ lock[o] = r
      BY <2>1, <2>3 DEF CheckoutSteps
    <3>2. ~Commits(r) /\ ~RollsBack(r)
      BY <1>1, <1>2, <1>3, <3>1 DEF Commits, RollsBack, Commit, Rollback
    <3>3. \E p \in ProductId : Takes(r, p)
      BY <3>1, <3>2, StepKinds
      DEF Quiet, Adds, Returns, SetsStatus, Edits, CheckoutSteps, TransactionSteps
    <3>4. lock'[o] = r /\ pc'[r] \in CheckoutSteps
      BY <1>1, <3>1, <3>3 DEF Takes, Write, CheckoutSteps
    <3> QED BY <3>4
  <2> QED BY <2>2, <2>3
<1>4. CASE working[o] = NoRow
  <2>1. SetsStatus(r) => o # target[r]
    BY <1>2 DEF SetsStatus, PatchesLoaded, LoadedOK, PatchSteps
  <2>2. Adds(r)
    BY <1>1, <1>2, <1>4, <2>1, StepKinds
    DEF Quiet, tables, Takes, Returns, SetsStatus, Commits, RollsBack, Edits, Write,
        Commit, Rollback, WriteAndCommit, TypeOK, TablesTypeOK
  <2>3. o = target'[r]
    BY <1>1, <1>4, <2>2 DEF Adds, Write, TypeOK, TablesTypeOK
  <2>4. lock'[o] = r /\ pc'[r] = "decrement"
    BY <1>1, <2>2, <2>3 DEF Adds, Write, LockSet
  <2> QED BY <2>4 DEF CheckoutSteps
<1> QED BY <1>3, <1>4

-----------------------------------------------------------------------------
(* The inductive invariant                                                 *)
-----------------------------------------------------------------------------
LEMMA InitIInv == Init => IInv
<1> SUFFICES ASSUME Init PROVE IInv
  OBVIOUS
<1>1. Legal(committed) /\ working = committed
  BY InitialTablesAssumption DEF Init
<1>2. TypeOK
  <2>1. MentionedIds(committed) \subseteq Nat
    <3>1. \A o \in OrderId : committed[o] # NoRow => DOMAIN committed[o].line_items \subseteq ProductId
      BY <1>1, LinesOfOrder DEF Legal, TablesTypeOK
    <3> QED BY <3>1, KeyAssumption DEF MentionedIds
  <2>2. sequence \in Nat
    BY <2>1 DEF Init, Greatest
  <2> QED BY <1>1, <2>2 DEF Init, TypeOK, Legal, Steps
<1>3. \A r \in Session : pc[r] = "idle" /\ product[r] = NoRow
  BY DEF Init
<1>4. SessionsOK /\ PatchesLoaded /\ CheckoutsOpen /\ PatchesOpen
  BY <1>3 DEF SessionsOK, SessionOK, OrderSteps, ProductSteps, LoopSteps, CheckoutSteps,
              PatchSteps, PatchesLoaded, LoadedOK, CheckoutsOpen, CheckoutOpen,
              PatchesOpen, PatchOpen
<1>5. NothingLeftBehind
  BY <1>1 DEF Init, NothingLeftBehind
<1>6. OrdersKept /\ OrdersAddedByCheckout
  BY <1>1 DEF OrdersKept, OrderKept, OrdersAddedByCheckout
<1>7. CancelledRestored /\ StockNotNegative
  BY <1>1, <1>3 DEF Legal, CancelledRestored, RestoredIfCancelled, StockNotNegative, NoDebt
<1> QED BY <1>2, <1>4, <1>5, <1>6, <1>7 DEF IInv, Shape

LEMMA StutterIInv == IInv /\ UNCHANGED vars => IInv'
<1> SUFFICES ASSUME IInv, UNCHANGED vars PROVE IInv'
  OBVIOUS
<1> USE DEF vars, tables
<1>1. TypeOK' /\ SessionsOK'
  BY DEF IInv, Shape, TypeOK, SessionsOK, SessionOK, TablesTypeOK
<1>2. NothingLeftBehind' /\ OrdersKept' /\ PatchesLoaded'
  BY DEF IInv, Shape, NothingLeftBehind, OrdersKept, OrderKept, PatchesLoaded, LoadedOK
<1>3. CancelledRestored' /\ StockNotNegative'
  BY DEF IInv, CancelledRestored, StockNotNegative
<1>4. CheckoutsOpen' /\ OrdersAddedByCheckout'
  BY DEF IInv, CheckoutsOpen, CheckoutOpen, Decremented, ordered, Covers, OrdersAddedByCheckout
<1>5. PatchesOpen'
  BY DEF IInv, PatchesOpen, PatchOpen, StatusDue
<1> QED BY <1>1, <1>2, <1>3, <1>4, <1>5 DEF IInv, Shape

LEMMA NextIInv == IInv /\ [Next]_vars => IInv'
<1> SUFFICES ASSUME IInv, NEW r \in Session, Call(r) \/ Step(r) \/ Abort(r) PROVE IInv'
  BY StutterIInv DEF Next
<1> QED BY ShapeStep, CancelledRestoredStep, StockNotNegativeStep, CheckoutsOpenStep,
           PatchesOpenStep, OrdersAddedByCheckoutStep DEF IInv

(* IInv holds of every reachable state: what each handler believes of its  *)
(* own session and of the tables is so at each of its steps.               *)
THEOREM InductiveInvariant == Spec => []IInv
  BY InitIInv, NextIInv, PTL DEF Spec

(* Rows, sessions and replies always have their types.                     *)
THEOREM TypeCorrect == Spec => []TypeOK
<1>1. IInv => TypeOK
  BY DEF IInv, Shape
<1> QED BY <1>1, InductiveInvariant, PTL

(* No checkout, cancellation or edit ever brings a stock below zero.       *)
THEOREM StockNeverNegative == Spec => []NonNegativeStock
<1>1. IInv => NonNegativeStock
  BY DEF IInv, StockNotNegative, NoDebt, NonNegativeStock
<1> QED BY <1>1, InductiveInvariant, PTL

(* A cancelled order has given its stock back, whatever PATCH requests     *)
(* overlap.                                                                *)
THEOREM CancelledRestoredAlways == Spec => []CancelledImpliesRestored
<1>1. IInv => CancelledImpliesRestored
  BY DEF IInv, CancelledRestored, RestoredIfCancelled, CancelledImpliesRestored
<1> QED BY <1>1, InductiveInvariant, PTL

(* Every way out of a handler ends its transaction.                        *)
THEOREM NoLockLeftBehind == Spec => []NothingLeftBehind
<1>1. IInv => NothingLeftBehind
  BY DEF IInv, Shape
<1> QED BY <1>1, InductiveInvariant, PTL

-----------------------------------------------------------------------------
(* The action properties                                                   *)
-----------------------------------------------------------------------------

(* Orders stay, with the lines and prices they were placed at, and a       *)
(* restored order never counts as unrestored again.                        *)
THEOREM HistoryIsKept == Spec => OrderHistoryKept
<1>1. IInv /\ [Next]_vars =>
        [\A o \in OrderId : committed[o] # NoRow =>
           /\ committed'[o] # NoRow
           /\ committed'[o].line_items = committed[o].line_items
           /\ committed[o].stock_restored => committed'[o].stock_restored]_vars
  BY HistoryStep DEF IInv, Next, HistoryOf
<1> QED BY <1>1, InductiveInvariant, PTL DEF Spec, OrderHistoryKept

LEMMA CheckoutCommit ==
  ASSUME IInv, NEW r \in Session, Call(r) \/ Step(r) \/ Abort(r),
         NEW o \in OrderId, Appears(o)
  PROVE  /\ Commits(r) /\ pc[r] = "commit_checkout"
         /\ todo[r] = {} /\ o = target[r] /\ committed'[o] = order[r]
         /\ order[r] \in Order
<1> USE DEF IInv, Shape
<1>1. o \in Row /\ o \notin ProductId /\ committed[o] = NoRow /\ committed'[o] # NoRow
  BY KeyAssumption DEF Row, Appears
<1>2. Commits(r)
  BY <1>1, StepKinds
  DEF Quiet, tables, Adds, Takes, Returns, SetsStatus, RollsBack, Edits, Write, Rollback,
      WriteAndCommit, TypeOK, TablesTypeOK
<1>3. lock[o] = r /\ working[o] # NoRow /\ committed'[o] = working[o]
  BY <1>1, <1>2 DEF Commits, Commit
<1>4. pc[r] = "commit_checkout"
  BY <1>1, <1>2, <1>3 DEF OrdersAddedByCheckout, Commits, CheckoutSteps
<1>5. CheckoutOpen(r) /\ pc[r] \in CheckoutSteps /\ todo[r] = {} /\ order[r] \in Order
  BY <1>4, NoRowAssumption
  DEF CheckoutsOpen, CheckoutSteps, SessionsOK, SessionOK, OrderSteps, TypeOK
<1>6. DOMAIN order[r].line_items \subseteq ProductId
  BY <1>5, LinesOfOrder
<1>7. o = target[r]
  BY <1>1, <1>3, <1>5, <1>6 DEF CheckoutOpen
<1> QED BY <1>2, <1>3, <1>4, <1>5, <1>7 DEF CheckoutOpen

(* An order and exactly its decrements are committed in one step, each     *)
(* covered by the stock other sessions saw just before.                    *)
THEOREM CheckoutIsAtomic == Spec => CheckoutAtomic
<1>1. ASSUME IInv, NEW r \in Session, Call(r) \/ Step(r) \/ Abort(r),
             NEW o \in OrderId, Appears(o), NEW p \in ProductId
      PROVE  IF p \in DOMAIN committed'[o].line_items
               THEN LET n == committed'[o].line_items[p].quantity IN
                    /\ Covers(committed[p], n) /\ committed'[p] # NoRow
                    /\ committed'[p].quantity = committed[p].quantity - n
               ELSE committed'[p] = committed[p]
  <2>1. /\ Commit(r) /\ pc[r] \in CheckoutSteps /\ todo[r] = {}
        /\ o = target[r] /\ committed'[o] = order[r]
    BY <1>1, CheckoutCommit DEF Commits, CheckoutSteps
  <2>2. p \in Row /\ p # target[r]
    BY <1>1, <2>1, KeyAssumption DEF Row
  <2>3. CheckoutOpen(r)
    BY <1>1 DEF IInv, CheckoutsOpen
  <2>4. CASE p \in DOMAIN order[r].line_items
    <3>1. Decremented(r, p)
      BY <2>1, <2>3, <2>4 DEF CheckoutOpen
    <3>2. committed'[p] = working[p]
      BY <2>1, <2>2, <3>1 DEF Commit, Decremented
    <3>3. committed[p] \in Product
      BY <1>1, <3>1 DEF IInv, Shape, TypeOK, TablesTypeOK, Decremented, Covers
    <3> QED BY <2>1, <2>4, <3>1, <3>2, <3>3 DEF Decremented, ordered, Product
  <2>5. CASE p \notin DOMAIN order[r].line_items
    <3>1. lock[p] = r => working[p] = committed[p]
      BY <2>1, <2>2, <2>3, <2>5 DEF CheckoutOpen
    <3>2. committed'[p] = committed[p]
      BY <2>1, <2>2, <3>1 DEF Commit
    <3> QED BY <2>1, <2>5, <3>2
  <2> QED BY <2>4, <2>5
<1>2. IInv /\ [Next]_vars =>
        [\A o \in OrderId : Appears(o) =>
           \A p \in ProductId :
             IF p \in DOMAIN committed'[o].line_items
               THEN LET n == committed'[o].line_items[p].quantity IN
                    /\ Covers(committed[p], n) /\ committed'[p] # NoRow
                    /\ committed'[p].quantity = committed[p].quantity - n
               ELSE committed'[p] = committed[p]]_vars
  BY <1>1 DEF Next
<1> QED BY <1>2, InductiveInvariant, PTL DEF Spec, CheckoutAtomic

(* Whatever PATCH requests, checkouts and restocks overlap, the commit of  *)
(* a PATCH shows the status it asked for; one that asked for the status it *)
(* had loaded takes back no status set since.                              *)
THEOREM PatchesTakeEffect == Spec => PatchTakesEffect
<1>1. ASSUME IInv, NEW s \in Session, Call(s) \/ Step(s) \/ Abort(s),
             NEW r \in Session, pc[r] = "commit_status", pc'[r] = "reload"
      PROVE  committed'[target[r]].status = StatusDue(r)
  <2>1. r = s
    BY <1>1, TypeStep DEF StepOK, SameSession, IInv, Shape
  <2>2. Commit(r)
    BY <1>1, <2>1, StepKinds
    DEF Quiet, Adds, Takes, Returns, SetsStatus, Commits, RollsBack, Edits,
        TransactionSteps, IInv, Shape
  <2>3. target[r] \in Row
    BY <1>1 DEF IInv, Shape, SessionsOK, SessionOK, PatchSteps, Row
  <2>4. lock[target[r]] = r /\ working[target[r]].status = StatusDue(r)
    BY <1>1 DEF IInv, PatchesOpen, PatchOpen
  <2> QED BY <2>2, <2>3, <2>4 DEF Commit
<1>2. IInv /\ [Next]_vars =>
        [\A r \in Session : pc[r] = "commit_status" /\ pc'[r] = "reload" =>
           committed'[target[r]].status = StatusDue(r)]_vars
  BY <1>1 DEF Next
<1> QED BY <1>2, InductiveInvariant, PTL DEF Spec, PatchTakesEffect
=============================================================================
