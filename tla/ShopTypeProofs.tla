--------------------------- MODULE ShopTypeProofs ---------------------------
(***************************************************************************)
(* Type correctness of Shop, together with what every handler knows about  *)
(* its session at each step (SessionsOK), which the types of the next step *)
(* rest on.  One lemma for each kind of write to the tables, one for each  *)
(* action, and the theorem that combines them.                             *)
(***************************************************************************)
EXTENDS ShopInvariant, TLAPS

-----------------------------------------------------------------------------
(* The tables                                                              *)
-----------------------------------------------------------------------------
TypedTables ==
  /\ TablesTypeOK(committed)
  /\ TablesTypeOK(working)
  /\ lock \in [Row -> Session \cup {NoSession}]

(* A version row x may hold.                                               *)
Fits(x, version) ==
  \/ version = NoRow
  \/ x \in ProductId /\ version \in Product /\ version.id = x
  \/ x \in OrderId /\ version \in Order

LEMMA KeysDisjoint ==
  ASSUME NEW x \in Row
  PROVE  x \in ProductId <=> x \notin OrderId
  BY KeyAssumption DEF Row

LEMMA TablesFit ==
  ASSUME NEW t
  PROVE  TablesTypeOK(t) <=> /\ t \in [Row -> Product \cup Order \cup {NoRow}]
                             /\ \A x \in Row : Fits(x, t[x])
  BY KeysDisjoint DEF TablesTypeOK, Fits, Row

LEMMA ReadFits ==
  ASSUME TypedTables, NEW r \in Session, NEW x \in Row
  PROVE  Fits(x, Read(r, x))
  BY TablesFit DEF TypedTables, Read

LEMMA WriteTyped ==
  ASSUME TypedTables, NEW r \in Session, NEW x \in Row, NEW v, Fits(x, v),
         Write(r, x, v)
  PROVE  TypedTables'
<1>1. lock' \in [Row -> Session \cup {NoSession}]
  BY DEF TypedTables, Write
<1>2. v \in Product \cup Order \cup {NoRow}
  BY DEF Fits
<1>3. TablesTypeOK(working')
  BY TablesFit, <1>2 DEF TypedTables, Write
<1> QED BY <1>1, <1>3 DEF TypedTables, Write, TablesTypeOK

LEMMA WriteAndCommitTyped ==
  ASSUME TypedTables, NEW r \in Session, NEW x \in Row, NEW v, Fits(x, v),
         WriteAndCommit(r, x, v)
  PROVE  TypedTables'
<1>1. v \in Product \cup Order \cup {NoRow}
  BY DEF Fits
<1>2. TablesTypeOK(working') /\ TablesTypeOK(committed')
  BY TablesFit, <1>1 DEF TypedTables, WriteAndCommit
<1> QED BY <1>2 DEF TypedTables, WriteAndCommit, TablesTypeOK

LEMMA CommitTyped ==
  ASSUME TypedTables, NEW r \in Session, Commit(r)
  PROVE  TypedTables'
<1>1. TablesTypeOK(committed')
  BY TablesFit DEF TypedTables, Commit
<1> QED BY <1>1 DEF TypedTables, Commit, Released, TablesTypeOK

LEMMA RollbackTyped ==
  ASSUME TypedTables, NEW r \in Session, Rollback(r)
  PROVE  TypedTables'
<1>1. TablesTypeOK(working')
  BY TablesFit DEF TypedTables, Rollback
<1> QED BY <1>1 DEF TypedTables, Rollback, Released, TablesTypeOK

LEMMA TablesKept ==
  ASSUME TypedTables, UNCHANGED tables
  PROVE  TypedTables'
  BY DEF TypedTables, TablesTypeOK, tables

-----------------------------------------------------------------------------
(* The requests                                                            *)
-----------------------------------------------------------------------------
TypedRequests ==
  /\ sequence \in Nat
  /\ pc \in [Session -> Steps]
  /\ op \in [Session -> Operations \cup {NoRow}]
  /\ body \in [Session -> OrderStatusUpdate \cup ProductWrite \cup {NoRow}]
  /\ target \in [Session -> Row \cup {NoRow}]
  /\ order \in [Session -> Order \cup {NoRow}]
  /\ product \in [Session -> Product \cup {NoRow}]
  /\ todo \in [Session -> SUBSET ProductId]
  /\ reply \in [Session -> Codes \cup {NoRow}]

LEMMA TypeSplit == TypeOK <=> TypedTables /\ TypedRequests
  BY DEF TypeOK, TypedTables, TypedRequests

LEMMA TypeJoin == TypedTables' /\ TypedRequests' => TypeOK'
  BY DEF TypeOK, TypedTables, TypedRequests

(* What a request owns is as it was.                                       *)
SameSession(s) ==
  /\ pc'[s] = pc[s] /\ body'[s] = body[s] /\ target'[s] = target[s]
  /\ order'[s] = order[s] /\ product'[s] = product[s] /\ todo'[s] = todo[s]

LEMMA SameSessionOK ==
  ASSUME NEW s \in Session, SessionOK(s), SameSession(s)
  PROVE  SessionOK(s)'
  BY DEF SessionOK, SameSession

(* A request that has been answered.                                       *)
LEMMA AnsweredOK ==
  ASSUME TypedRequests, NEW r \in Session, NEW code, Respond(r, code)
  PROVE  SessionOK(r)'
  BY DEF TypedRequests, Respond, SessionOK, OrderSteps, ProductSteps,
         LoopSteps, CheckoutSteps, PatchSteps

LEMMA AnsweredTyped ==
  ASSUME TypedRequests, NEW r \in Session, NEW code \in Codes, Respond(r, code),
         sequence' \in Nat,
         op' \in [Session -> Operations \cup {NoRow}],
         body' \in [Session -> OrderStatusUpdate \cup ProductWrite \cup {NoRow}],
         target' \in [Session -> Row \cup {NoRow}]
  PROVE  TypedRequests'
  BY DEF TypedRequests, Respond, Steps

LEMMA AnsweredOthers ==
  ASSUME TypedRequests, NEW r \in Session, NEW code, Respond(r, code),
         NEW s \in Session, s # r, body'[s] = body[s], target'[s] = target[s]
  PROVE  SameSession(s)
  BY DEF TypedRequests, Respond, SameSession

LEMMA CalledTyped ==
  ASSUME TypedRequests, NEW r \in Session, NEW endpoint \in Operations,
         NEW key \in Row \cup {NoRow},
         NEW content \in OrderStatusUpdate \cup ProductWrite \cup {NoRow},
         Called(r, endpoint, key, content)
  PROVE  /\ op' \in [Session -> Operations \cup {NoRow}]
         /\ body' \in [Session -> OrderStatusUpdate \cup ProductWrite \cup {NoRow}]
         /\ target' \in [Session -> Row \cup {NoRow}]
         /\ \A s \in Session : s # r => body'[s] = body[s] /\ target'[s] = target[s]
         /\ target'[r] = key /\ body'[r] = content
  BY DEF TypedRequests, Called

(* What each action of request r is shown to do.                           *)
StepOK(r) ==
  /\ TypeOK'
  /\ SessionOK(r)'
  /\ \A s \in Session : s # r => SameSession(s)

-----------------------------------------------------------------------------
(* The actions of the order service                                        *)
-----------------------------------------------------------------------------
LEMMA NewOrderIsOrder ==
  ASSUME TypeOK, NEW r \in Session, NEW items \in Cart,
         Unserved(r, merge_line_items(items)) = {}
  PROVE  new_order(r, merge_line_items(items)) \in Order
<1> DEFINE want == merge_line_items(items)
<1>1. PICK ids \in (SUBSET ProductId) \ {{}} : want \in [ids -> Quantity]
  BY CartAssumption
<1> HIDE DEF want
<1>2. ASSUME NEW p \in ids PROVE Read(r, p) \in Product
  <2>1. Read(r, p) # NoRow
    BY <1>1, <1>2 DEF Unserved, Covers, want
  <2> QED
    BY <2>1, <1>2 DEF Read, TypeOK, TablesTypeOK
<1>3. new_order(r, want).line_items \in [ids -> LineItem]
  BY <1>1, <1>2 DEF new_order, LineItem, Product
<1> QED
  BY <1>3, <1>1 DEF new_order, Order, OrderStatus, LineItemList, want

LEMMA LinesOfOrder ==
  ASSUME NEW o \in Order
  PROVE  /\ DOMAIN o.line_items \subseteq ProductId
         /\ DOMAIN o.line_items # {}
         /\ \A p \in DOMAIN o.line_items : o.line_items[p].quantity \in Nat \ {0}
<1>1. o.line_items \in LineItemList
  BY DEF Order
<1>2. PICK ids \in (SUBSET ProductId) \ {{}} : o.line_items \in [ids -> LineItem]
  BY <1>1 DEF LineItemList
<1>3. \A p \in ids : o.line_items[p].quantity \in Quantity
  BY <1>2 DEF LineItem
<1> QED BY <1>2, <1>3, QuantityAssumption

LEMMA TypeCheckout ==
  ASSUME TypeOK, SessionsOK, NEW r \in Session, NEW items \in Cart, checkout(r, items)
  PROVE  StepOK(r)
<1>1. order'[r] \in Order /\ order' \in [Session -> Order \cup {NoRow}]
  BY NewOrderIsOrder DEF checkout, TypeOK
<1>2. TypedRequests'
  BY <1>1 DEF checkout, TypeOK, TypedRequests, Called, Goto, Steps, OrderSteps,
              Operations
<1>3. SessionOK(r)'
  BY <1>1, NoRowAssumption
  DEF checkout, TypeOK, SessionOK, Called, Goto, Admit, new_order, OrderSteps,
      ProductSteps, LoopSteps, CheckoutSteps, PatchSteps
<1>4. ASSUME NEW s \in Session, s # r PROVE SameSession(s)
  BY <1>4 DEF checkout, TypeOK, SameSession, Called, Goto
<1> QED BY <1>2, <1>3, <1>4, TablesKept, TypeJoin, TypeSplit DEF StepOK, checkout

LEMMA TypeCheckoutRefused ==
  ASSUME TypeOK, SessionsOK, NEW r \in Session, NEW items \in Cart,
         checkout_refused(r, items)
  PROVE  StepOK(r)
<1>1. PICK code \in Codes : Respond(r, code)
  BY DEF checkout_refused, Codes
<1>2. TypedRequests /\ TypedTables'
  BY TypeSplit, TablesKept DEF checkout_refused
<1>3. Called(r, "checkout", NoRow, NoRow)
  BY DEF checkout_refused
<1>4. sequence' \in Nat
  BY DEF checkout_refused, TypeOK
<1>5. TypedRequests'
  BY <1>1, <1>2, <1>3, <1>4, CalledTyped, AnsweredTyped DEF Operations
<1>6. ASSUME NEW s \in Session, s # r PROVE SameSession(s)
  BY <1>1, <1>2, <1>3, <1>6, AnsweredOthers DEF Called, TypedRequests
<1> QED BY <1>1, <1>2, <1>5, <1>6, AnsweredOK, TypeJoin, TypeSplit DEF StepOK

LEMMA TypeCreateWithLineItems ==
  ASSUME TypeOK, SessionsOK, NEW r \in Session, create_with_line_items(r)
  PROVE  StepOK(r)
<1>1. PICK id \in OrderId : /\ working[id] = NoRow
                            /\ Write(r, id, order[r])
                            /\ target' = [target EXCEPT ![r] = id]
  BY DEF create_with_line_items
<1>2. order[r] \in Order
  BY DEF create_with_line_items, TypeOK, SessionsOK, SessionOK, OrderSteps
<1>3. TypedTables'
  BY <1>1, <1>2, WriteTyped, TypeSplit DEF Fits, Row
<1>4. DOMAIN order[r].line_items \subseteq ProductId /\ DOMAIN order[r].line_items # {}
  BY <1>2, LinesOfOrder
<1>5. TypedRequests'
  BY <1>1, <1>2, <1>4 DEF create_with_line_items, TypeOK, TypedRequests, Goto, Row,
     Steps, OrderSteps
<1>6. SessionOK(r)'
  BY <1>1, <1>2, <1>4 DEF create_with_line_items, TypeOK, SessionsOK, SessionOK, Goto,
     OrderSteps, ProductSteps, LoopSteps, CheckoutSteps, PatchSteps
<1>7. ASSUME NEW s \in Session, s # r PROVE SameSession(s)
  BY <1>1, <1>7 DEF create_with_line_items, TypeOK, SameSession, Goto
<1> QED BY <1>3, <1>5, <1>6, <1>7, TypeJoin, TypeSplit DEF StepOK

LEMMA LineInLoop ==
  ASSUME TypeOK, SessionsOK, NEW r \in Session, pc[r] \in LoopSteps, NEW p \in todo[r]
  PROVE  /\ order[r] \in Order
         /\ p \in DOMAIN order[r].line_items
         /\ p \in ProductId /\ p \in Row
         /\ ordered(r, p) \in Nat \ {0}
<1>1. order[r] \in Order /\ p \in DOMAIN order[r].line_items
  BY DEF TypeOK, SessionsOK, SessionOK, LoopSteps, OrderSteps
<1> QED BY <1>1, LinesOfOrder DEF ordered, Row

LEMMA NewQuantityFits ==
  ASSUME TypedTables, NEW p \in ProductId, working[p] # NoRow, NEW n \in Int
  PROVE  Fits(p, [working[p] EXCEPT !.quantity = n])
<1>1. working[p] \in Product /\ working[p].id = p
  BY DEF TypedTables, TablesTypeOK
<1> QED BY <1>1 DEF Fits, Product

(* A step of r inside one of its loops, to the next line or out of it.     *)
LEMMA TypeLine ==
  ASSUME TypeOK, SessionsOK, TypedTables', NEW r \in Session, NEW p \in todo[r],
         NEW next,
         pc[r] = "decrement" => next = AfterDecrement(r, p),
         pc[r] \in {"restock", "adjust_quantity"} => next = AfterLine(r, p),
         pc[r] \in LoopSteps,
         todo' = [todo EXCEPT ![r] = @ \ {p}], Goto(r, next),
         UNCHANGED <<handler, order, product, sequence>>
  PROVE  StepOK(r)
<1>1. next \in {"decrement", "commit_checkout", "restock", "update_status"}
  BY DEF AfterDecrement, AfterLine, LoopSteps
<1>2. TypedRequests'
  BY <1>1, LineInLoop
  DEF TypeOK, TypedRequests, Goto, handler, Steps, OrderSteps
<1>3. SessionOK(r)'
  BY <1>1
  DEF TypeOK, SessionsOK, SessionOK, Goto, handler, OrderSteps, ProductSteps,
      AfterDecrement, AfterLine, LoopSteps, CheckoutSteps, PatchSteps
<1>4. ASSUME NEW s \in Session, s # r PROVE SameSession(s)
  BY <1>4 DEF TypeOK, SameSession, Goto, handler
<1> QED BY <1>2, <1>3, <1>4, TypeJoin DEF StepOK

LEMMA TypeDecrement ==
  ASSUME TypeOK, SessionsOK, NEW r \in Session, decrement_quantity_if_available(r)
  PROVE  StepOK(r)
<1>1. pc[r] = "decrement" /\ UNCHANGED <<handler, order, product, sequence>>
  BY DEF decrement_quantity_if_available
<1>2. PICK p \in todo[r] :
        /\ Covers(working[p], ordered(r, p))
        /\ Write(r, p, [working[p] EXCEPT !.quantity = @ - ordered(r, p)])
        /\ todo' = [todo EXCEPT ![r] = @ \ {p}]
        /\ Goto(r, AfterDecrement(r, p))
  BY DEF decrement_quantity_if_available, First
<1>3. p \in ProductId /\ p \in Row /\ ordered(r, p) \in Nat
  BY <1>1, LineInLoop DEF LoopSteps
<1>4. working[p] # NoRow /\ working[p].quantity \in Int
  BY <1>2, <1>3 DEF Covers, TypeOK, TablesTypeOK, Product
<1>5. Fits(p, [working[p] EXCEPT !.quantity = @ - ordered(r, p)])
  BY <1>3, <1>4, NewQuantityFits, TypeSplit
<1>6. TypedTables'
  BY <1>2, <1>3, <1>5, WriteTyped, TypeSplit
<1> QED BY <1>1, <1>2, <1>6, TypeLine DEF LoopSteps

(* Answering a request already taken up.                                   *)
LEMMA TypeAnswer ==
  ASSUME TypeOK, SessionsOK, TypedTables', NEW r \in Session, NEW code \in Codes,
         Respond(r, code), UNCHANGED <<handler, sequence>>
  PROVE  StepOK(r)
<1>1. TypedRequests'
  BY DEF TypeOK, TypedRequests, Respond, handler, Steps
<1>2. SessionOK(r)'
  BY AnsweredOK, TypeSplit
<1>3. ASSUME NEW s \in Session, s # r PROVE SameSession(s)
  BY <1>3 DEF TypeOK, SameSession, Respond, handler
<1> QED BY <1>1, <1>2, <1>3, TypeJoin DEF StepOK

LEMMA TypeDecrementInsufficient ==
  ASSUME TypeOK, SessionsOK, NEW r \in Session, decrement_insufficient(r)
  PROVE  StepOK(r)
  BY RollbackTyped, TypeAnswer, TypeSplit DEF decrement_insufficient, Codes

LEMMA TypeCommitCheckout ==
  ASSUME TypeOK, SessionsOK, NEW r \in Session, commit_checkout(r)
  PROVE  StepOK(r)
  BY CommitTyped, TypeAnswer, TypeSplit DEF commit_checkout, Codes

LEMMA TypeUpdateStatus ==
  ASSUME TypeOK, SessionsOK, NEW r \in Session, NEW id \in OrderId,
         NEW status \in PatchStatus, update_status(r, id, status)
  PROVE  StepOK(r)
<1>1. Read(r, id) \in Order
  BY DEF update_status, Read, TypeOK, TablesTypeOK
<1>2. [status |-> status] \in OrderStatusUpdate
  BY PatchStatusAssumption DEF OrderStatusUpdate
<1>3. Called(r, "patch", id, [status |-> status])
  BY DEF update_status
<1>4. pc' = [pc EXCEPT ![r] = "restock"] \/ pc' = [pc EXCEPT ![r] = "update_status"]
  BY DEF update_status, Goto
<1>5. pc'[r] = "restock" => todo'[r] = DOMAIN Read(r, id).line_items
  BY DEF update_status, Goto, TypeOK
<1>6. DOMAIN Read(r, id).line_items \subseteq ProductId
      /\ DOMAIN Read(r, id).line_items # {}
  BY <1>1, LinesOfOrder
<1>7. todo' \in [Session -> SUBSET ProductId]
  BY <1>6 DEF update_status, TypeOK
<1>8. order' = [order EXCEPT ![r] = Read(r, id)] /\ UNCHANGED <<product, sequence, reply>>
  BY DEF update_status, Goto
<1>9. TypedRequests'
  BY <1>1, <1>2, <1>3, <1>4, <1>7, <1>8, CalledTyped, TypeSplit
  DEF TypedRequests, Steps, OrderSteps, Operations, Row
<1>10. SessionOK(r)'
  BY <1>1, <1>2, <1>3, <1>4, <1>5, <1>6, <1>8, NoRowAssumption
  DEF TypeOK, SessionOK, Called, OrderSteps, ProductSteps, LoopSteps, CheckoutSteps,
      PatchSteps
<1>11. ASSUME NEW s \in Session, s # r PROVE SameSession(s)
  BY <1>11, <1>3, <1>4, <1>8 DEF TypeOK, SameSession, Called, update_status
<1> QED BY <1>9, <1>10, <1>11, TypeJoin, TablesKept, TypeSplit
        DEF StepOK, update_status

(* A call that is answered at once.                                        *)
LEMMA TypeAnswerAtOnce ==
  ASSUME TypeOK, SessionsOK, TypedTables', NEW r \in Session, NEW code \in Codes,
         Respond(r, code), sequence' \in Nat, NEW endpoint \in Operations,
         NEW key \in Row \cup {NoRow},
         NEW content \in OrderStatusUpdate \cup ProductWrite \cup {NoRow},
         Called(r, endpoint, key, content)
  PROVE  StepOK(r)
<1>1. TypedRequests'
  BY CalledTyped, AnsweredTyped, TypeSplit
<1>2. ASSUME NEW s \in Session, s # r PROVE SameSession(s)
  BY <1>2, AnsweredOthers, CalledTyped, TypeSplit
<1> QED BY <1>1, <1>2, AnsweredOK, TypeJoin, TypeSplit DEF StepOK

LEMMA TypeUpdateStatusNotFound ==
  ASSUME TypeOK, SessionsOK, NEW r \in Session, NEW id \in OrderId,
         NEW status \in PatchStatus, update_status_not_found(r, id, status)
  PROVE  StepOK(r)
<1>1. [status |-> status] \in OrderStatusUpdate
  BY PatchStatusAssumption DEF OrderStatusUpdate
<1>2. TypedTables' /\ sequence' \in Nat
  BY TablesKept, TypeSplit DEF update_status_not_found, TypeOK
<1> QED BY <1>1, <1>2, TypeAnswerAtOnce
        DEF update_status_not_found, Codes, Operations, Row

LEMMA TypeRestock ==
  ASSUME TypeOK, SessionsOK, NEW r \in Session, restock(r)
  PROVE  StepOK(r)
<1>1. /\ pc[r] = "restock"
      /\ Goto(r, "adjust_quantity")
      /\ UNCHANGED <<tables, handler, order, todo, sequence>>
  BY DEF restock
<1>2. PICK p \in todo[r] : /\ Read(r, p) # NoRow
                           /\ product' = [product EXCEPT ![r] = Read(r, p)]
  BY DEF restock, next_lines, First
<1>3. p \in ProductId /\ p \in Row
  BY <1>1, LineInLoop DEF LoopSteps
<1>4. Read(r, p) \in Product /\ Read(r, p).id = p
  BY <1>2, <1>3 DEF Read, TypeOK, TablesTypeOK
<1>5. TypedRequests'
  BY <1>1, <1>2, <1>4 DEF TypeOK, TypedRequests, Goto, handler, Steps, OrderSteps
<1>6. SessionOK(r)'
  BY <1>1, <1>2, <1>4, NoRowAssumption
  DEF TypeOK, SessionsOK, SessionOK, Goto, handler, OrderSteps, ProductSteps,
      LoopSteps, CheckoutSteps, PatchSteps
<1>7. ASSUME NEW s \in Session, s # r PROVE SameSession(s)
  BY <1>1, <1>2, <1>7 DEF TypeOK, SameSession, Goto, handler
<1> QED BY <1>1, <1>5, <1>6, <1>7, TypeJoin, TablesKept, TypeSplit DEF StepOK

LEMMA TypeRestockProductMissing ==
  ASSUME TypeOK, SessionsOK, NEW r \in Session, restock_product_missing(r)
  PROVE  StepOK(r)
<1>1. /\ pc[r] = "restock"
      /\ UNCHANGED <<tables, handler, order, product, sequence>>
  BY DEF restock_product_missing
<1>2. PICK p \in todo[r] : /\ todo' = [todo EXCEPT ![r] = @ \ {p}]
                           /\ Goto(r, AfterLine(r, p))
  BY DEF restock_product_missing, next_lines, First
<1> QED BY <1>1, <1>2, TypeLine, TablesKept, TypeSplit DEF LoopSteps

LEMMA TypeAdjustQuantity ==
  ASSUME TypeOK, SessionsOK, NEW r \in Session, adjust_quantity(r)
  PROVE  StepOK(r)
<1> DEFINE p == product[r].id
<1>1. /\ pc[r] = "adjust_quantity" /\ working[p] # NoRow
      /\ Write(r, p, [working[p] EXCEPT !.quantity = product[r].quantity + ordered(r, p)])
      /\ todo' = [todo EXCEPT ![r] = @ \ {p}]
      /\ Goto(r, AfterLine(r, p))
      /\ UNCHANGED <<handler, order, product, sequence>>
  BY DEF adjust_quantity
<1>2. product[r] \in Product /\ p \in todo[r]
  BY <1>1 DEF TypeOK, SessionsOK, SessionOK
<1>3. p \in ProductId /\ p \in Row /\ product[r].quantity + ordered(r, p) \in Int
  BY <1>1, <1>2, LineInLoop DEF LoopSteps, Product
<1> HIDE DEF p
<1>4. Fits(p, [working[p] EXCEPT !.quantity = product[r].quantity + ordered(r, p)])
  BY <1>1, <1>3, NewQuantityFits, TypeSplit
<1>5. TypedTables'
  BY <1>1, <1>3, <1>4, WriteTyped, TypeSplit
<1> QED BY <1>1, <1>2, <1>5, TypeLine DEF LoopSteps

LEMMA TypeAdjustQuantityStale ==
  ASSUME TypeOK, SessionsOK, NEW r \in Session, adjust_quantity_stale(r)
  PROVE  StepOK(r)
  BY RollbackTyped, TypeAnswer, TypeSplit DEF adjust_quantity_stale, Codes

LEMMA ChangedIsOrder ==
  ASSUME TypeOK, SessionsOK, OrdersKept, PatchesLoaded, NEW r \in Session,
         pc[r] = "update_status"
  PROVE  /\ target[r] \in OrderId /\ target[r] \in Row
         /\ working[target[r]] \in Order
         /\ changed(r, working[target[r]]) \in Order
<1>1. target[r] \in OrderId /\ body[r] \in OrderStatusUpdate /\ order[r] \in Order
  BY DEF TypeOK, SessionsOK, SessionOK, PatchSteps, OrderSteps
<1>2. working[target[r]] \in Order
  BY <1>1 DEF TypeOK, TablesTypeOK, OrdersKept, OrderKept, PatchesLoaded, LoadedOK,
              PatchSteps
<1>3. should_restock(order[r], body[r].status) \in BOOLEAN
  BY DEF should_restock
<1> QED BY <1>1, <1>2, <1>3 DEF changed, Order, OrderStatusUpdate, Row

(* A step of r that only moves on, beyond what it does to the tables.      *)
LEMMA TypeMoveOn ==
  ASSUME TypeOK, SessionsOK, TypedTables', NEW r \in Session, NEW next,
         \/ pc[r] = "update_status" /\ next = "commit_status"
         \/ pc[r] = "commit_status" /\ next = "reload"
         \/ pc[r] = "update" /\ next = "refresh",
         Goto(r, next), UNCHANGED <<handler, session, sequence>>
  PROVE  StepOK(r)
<1>1. TypedRequests'
  BY DEF TypeOK, TypedRequests, Goto, handler, session, Steps, OrderSteps, ProductSteps
<1>2. SessionOK(r)'
  BY DEF TypeOK, SessionsOK, SessionOK, Goto, handler, session, OrderSteps,
         ProductSteps, LoopSteps, CheckoutSteps, PatchSteps
<1>3. ASSUME NEW s \in Session, s # r PROVE SameSession(s)
  BY <1>3 DEF TypeOK, SameSession, Goto, handler, session
<1> QED BY <1>1, <1>2, <1>3, TypeJoin DEF StepOK

LEMMA TypeWriteStatus ==
  ASSUME TypeOK, SessionsOK, OrdersKept, PatchesLoaded, NEW r \in Session,
         write_status(r)
  PROVE  StepOK(r)
<1>1. Fits(target[r], changed(r, working[target[r]])) /\ target[r] \in Row
  BY ChangedIsOrder DEF Fits, write_status
<1>2. TypedTables'
  BY <1>1, WriteTyped, TypeSplit DEF write_status
<1> QED BY <1>2, TypeMoveOn DEF write_status

LEMMA TypeCommitStatus ==
  ASSUME TypeOK, SessionsOK, NEW r \in Session, commit_status(r)
  PROVE  StepOK(r)
  BY CommitTyped, TypeMoveOn, TypeSplit DEF commit_status

LEMMA TypeReload ==
  ASSUME TypeOK, SessionsOK, NEW r \in Session, reload(r)
  PROVE  StepOK(r)
<1>1. PICK code \in Codes : Respond(r, code)
  BY DEF reload, Codes
<1> QED BY <1>1, TypeAnswer, TablesKept, TypeSplit DEF reload

-----------------------------------------------------------------------------
(* The actions of the product service                                      *)
-----------------------------------------------------------------------------
LEMMA TypeCreateProduct ==
  ASSUME TypeOK, SessionsOK, NEW r \in Session, NEW content \in PostBody,
         create_product(r, content)
  PROVE  StepOK(r)
<1> DEFINE row == [id |-> new_id, sku |-> content.sku, price |-> content.price,
                   quantity |-> content.quantity]
<1>1. /\ Admit(r) /\ new_id \in ProductId
      /\ WriteAndCommit(r, new_id, row) /\ take_id
      /\ Called(r, "post", new_id, NoRow) /\ Goto(r, "refresh") /\ UNCHANGED session
  BY DEF create_product
<1>2. content \in ProductWrite
  BY BodyAssumption
<1>3. Fits(new_id, row) /\ new_id \in Row
  BY <1>1, <1>2 DEF Fits, ProductWrite, Product, Row
<1> HIDE DEF row
<1>4. TypedTables'
  BY <1>1, <1>3, WriteAndCommitTyped, TypeSplit
<1>5. sequence' \in Nat
  BY <1>1 DEF take_id, TypeOK
<1>6. TypedRequests'
  BY <1>1, <1>3, <1>5, CalledTyped, TypeSplit
  DEF TypedRequests, Goto, session, Steps, ProductSteps, Operations
<1>7. SessionOK(r)'
  BY <1>1 DEF TypeOK, SessionOK, Goto, Called, session, OrderSteps, ProductSteps,
              LoopSteps, CheckoutSteps, PatchSteps
<1>8. ASSUME NEW s \in Session, s # r PROVE SameSession(s)
  BY <1>1, <1>8 DEF TypeOK, SameSession, Goto, Called, session
<1> QED BY <1>4, <1>6, <1>7, <1>8, TypeJoin DEF StepOK

LEMMA TypeCreateProductDuplicate ==
  ASSUME TypeOK, SessionsOK, NEW r \in Session, NEW content \in PostBody,
         create_product_duplicate(r, content)
  PROVE  StepOK(r)
<1>1. TypedTables' /\ sequence' \in Nat
  BY TablesKept, TypeSplit DEF create_product_duplicate, take_id, TypeOK
<1> QED BY <1>1, TypeAnswerAtOnce DEF create_product_duplicate, Codes, Operations

(* A PUT or DELETE that finds its product.                                 *)
LEMMA TypeProductLoaded ==
  ASSUME TypeOK, SessionsOK, NEW r \in Session, NEW p \in ProductId, Read(r, p) # NoRow,
         NEW content \in ProductWrite \cup {NoRow}, NEW endpoint \in Operations,
         NEW next \in {"update", "delete"}, next = "update" => content \in ProductWrite,
         product' = [product EXCEPT ![r] = Read(r, p)],
         Called(r, endpoint, p, content), Goto(r, next),
         UNCHANGED <<tables, order, todo, sequence>>
  PROVE  StepOK(r)
<1>1. Read(r, p) \in Product
  BY DEF Read, TypeOK, TablesTypeOK, Row
<1>2. TypedRequests'
  BY <1>1, CalledTyped, TypeSplit DEF TypedRequests, Goto, Steps, ProductSteps, Row
<1>3. SessionOK(r)'
  BY <1>1, NoRowAssumption
  DEF TypeOK, SessionOK, Goto, Called, OrderSteps, ProductSteps, LoopSteps,
      CheckoutSteps, PatchSteps
<1>4. ASSUME NEW s \in Session, s # r PROVE SameSession(s)
  BY <1>4 DEF TypeOK, SameSession, Goto, Called
<1> QED BY <1>2, <1>3, <1>4, TypeJoin, TablesKept, TypeSplit DEF StepOK

LEMMA TypeProductNotFound ==
  ASSUME TypeOK, SessionsOK, NEW r \in Session, NEW p \in ProductId,
         NEW content \in ProductWrite \cup {NoRow}, NEW endpoint \in Operations,
         Called(r, endpoint, p, content), Respond(r, 404), UNCHANGED <<tables, sequence>>
  PROVE  StepOK(r)
<1>1. TypedTables' /\ sequence' \in Nat
  BY TablesKept, TypeSplit DEF TypeOK
<1> QED BY <1>1, TypeAnswerAtOnce DEF Codes, Row

LEMMA TypeUpdateCommit ==
  ASSUME TypeOK, SessionsOK, NEW r \in Session, update_commit(r)
  PROVE  StepOK(r)
<1> DEFINE p == target[r]
<1>1. /\ pc[r] = "update" /\ working[p] # NoRow
      /\ WriteAndCommit(r, p, assigned(r, working[p]))
      /\ Goto(r, "refresh") /\ UNCHANGED <<handler, session, sequence>>
  BY DEF update_commit
<1>2. p \in ProductId /\ body[r] \in ProductWrite
  BY <1>1 DEF SessionsOK, SessionOK, ProductSteps
<1>3. working[p] \in Product /\ working[p].id = p
  BY <1>1, <1>2 DEF TypeOK, TablesTypeOK
<1>4. Fits(p, assigned(r, working[p])) /\ p \in Row
  BY <1>2, <1>3 DEF Fits, assigned, Product, ProductWrite, Row
<1>5. TypedTables'
  BY <1>1, <1>4, WriteAndCommitTyped, TypeSplit
<1> QED BY <1>1, <1>5, TypeMoveOn

LEMMA TypeUpdateDuplicate ==
  ASSUME TypeOK, SessionsOK, NEW r \in Session, update_duplicate(r)
  PROVE  StepOK(r)
  BY TypeAnswer, TablesKept, TypeSplit DEF update_duplicate, Codes

LEMMA TypeUpdateStale ==
  ASSUME TypeOK, SessionsOK, NEW r \in Session, update_stale(r)
  PROVE  StepOK(r)
  BY TypeAnswer, TablesKept, TypeSplit DEF update_stale, Codes

LEMMA TypeRefresh ==
  ASSUME TypeOK, SessionsOK, NEW r \in Session, refresh(r)
  PROVE  StepOK(r)
<1>1. PICK code \in Codes : Respond(r, code)
  BY DEF refresh, Codes
<1> QED BY <1>1, TypeAnswer, TablesKept, TypeSplit DEF refresh

LEMMA TypeDeleteCommit ==
  ASSUME TypeOK, SessionsOK, NEW r \in Session, delete_commit(r)
  PROVE  StepOK(r)
<1>1. target[r] \in Row /\ Fits(target[r], NoRow)
  BY DEF delete_commit, SessionsOK, SessionOK, ProductSteps, Row, Fits
<1>2. TypedTables'
  BY <1>1, WriteAndCommitTyped, TypeSplit DEF delete_commit
<1> QED BY <1>2, TypeAnswer DEF delete_commit, Codes

LEMMA TypeAbort ==
  ASSUME TypeOK, SessionsOK, NEW r \in Session, Abort(r)
  PROVE  StepOK(r)
  BY RollbackTyped, TypeAnswer, TypeSplit DEF Abort, Codes, Lost

-----------------------------------------------------------------------------
(* Every step                                                              *)
-----------------------------------------------------------------------------
LEMMA TypeStep ==
  ASSUME TypeOK, SessionsOK, OrdersKept, PatchesLoaded, NEW r \in Session,
         Call(r) \/ Step(r) \/ Abort(r)
  PROVE  StepOK(r)
<1>1. CASE OrderServiceCall(r)
  BY <1>1, TypeCheckout, TypeCheckoutRefused, TypeUpdateStatus,
     TypeUpdateStatusNotFound DEF OrderServiceCall
<1>2. CASE OrderServiceStep(r)
  BY <1>2, TypeCreateWithLineItems, TypeDecrement, TypeDecrementInsufficient,
     TypeCommitCheckout, TypeRestock, TypeRestockProductMissing, TypeAdjustQuantity,
     TypeAdjustQuantityStale, TypeWriteStatus, TypeCommitStatus, TypeReload
  DEF OrderServiceStep
<1>3. CASE ProductServiceCall(r)
  <2>1. CASE \E content \in PostBody :
               create_product(r, content) \/ create_product_duplicate(r, content)
    BY <2>1, TypeCreateProduct, TypeCreateProductDuplicate
  <2>2. CASE \E p \in ProductId, content \in PutBody :
               update_product(r, p, content) \/ update_product_not_found(r, p, content)
    BY <2>2, TypeProductLoaded, TypeProductNotFound, BodyAssumption
    DEF update_product, update_product_not_found, Operations
  <2>3. CASE \E p \in DeleteId :
               delete_product(r, p) \/ delete_product_not_found(r, p)
    BY <2>3, TypeProductLoaded, TypeProductNotFound, DeleteIdAssumption
    DEF delete_product, delete_product_not_found, Operations
  <2> QED BY <1>3, <2>1, <2>2, <2>3 DEF ProductServiceCall
<1>4. CASE ProductServiceStep(r)
  BY <1>4, TypeUpdateCommit, TypeUpdateDuplicate, TypeUpdateStale, TypeRefresh,
     TypeDeleteCommit DEF ProductServiceStep
<1>5. CASE Abort(r)
  BY <1>5, TypeAbort
<1> QED BY <1>1, <1>2, <1>3, <1>4, <1>5 DEF Call, Step
=============================================================================
