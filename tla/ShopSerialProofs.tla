-------------------------- MODULE ShopSerialProofs --------------------------
(***************************************************************************)
(* What holds when the server handles one request at a time, for any       *)
(* tables, carts and requests, any of which may fail half-way: SerialInv   *)
(* is an invariant, a PATCH never ends in an error, a cancellation gives   *)
(* back exactly the lines of its order, and every operation, cancellations *)
(* included, is a step of Inventory.                                       *)
(***************************************************************************)
EXTENDS ShopLockProofs, ShopInventoryProofs

-----------------------------------------------------------------------------
(* Nobody else                                                             *)
-----------------------------------------------------------------------------
LEMMA OnlyOne ==
  ASSUME MaxInFlight = 1, InFlightBounded, NEW r \in InFlight, NEW s \in InFlight
  PROVE  r = s
<1>1. SUFFICES ASSUME r # s PROVE FALSE
  OBVIOUS
<1>2. IsFiniteSet({r}) /\ Cardinality({r}) = 1
  BY FS_Singleton
<1>3. IsFiniteSet({r} \cup {s}) /\ Cardinality({r} \cup {s}) = 2
  BY <1>1, <1>2, FS_AddElement
<1>4. {r} \cup {s} \in SUBSET InFlight
  OBVIOUS
<1>5. Cardinality({r} \cup {s}) <= Cardinality(InFlight)
  BY <1>4, FS_Subset DEF InFlightBounded
<1>6. Cardinality(InFlight) \in Nat /\ Cardinality(InFlight) <= 1
  BY FS_CardinalityType DEF InFlightBounded
<1> QED BY <1>3, <1>5, <1>6

LEMMA NoneWhenCalled ==
  ASSUME MaxInFlight = 1, InFlightBounded, NEW r \in Session, Admit(r)
  PROVE  InFlight = {}
<1>1. IsFiniteSet(InFlight) /\ Cardinality(InFlight) \in Nat /\ Cardinality(InFlight) < 1
  BY FS_CardinalityType DEF InFlightBounded, Admit
<1> QED BY <1>1, FS_EmptySet

(* The others are idle or done, and no row is locked but by r.             *)
LEMMA Alone ==
  ASSUME MaxInFlight = 1, InFlightBounded, Shape, NEW r \in Session,
         Call(r) \/ Step(r) \/ Abort(r)
  PROVE  /\ \A s \in Session : s # r => pc[s] \in {"idle", "done"} /\ SameSession(s)
         /\ \A x \in Row : lock[x] \in {r, NoSession}
         /\ \A x \in Row : lock[x] # r => working[x] = committed[x]
         /\ pc[r] \notin TransactionSteps =>
              \A x \in Row : working[x] = committed[x] /\ Read(r, x) = committed[x]
<1> USE SessionAssumption DEF Shape
<1>1. \A s \in Session : s # r => pc[s] \in {"idle", "done"}
  <2>1. CASE Call(r)
    <3>1. InFlight = {}
      BY <2>1, CallAdmits, NoneWhenCalled
    <3> QED BY <3>1 DEF InFlight
  <2>2. CASE Step(r) \/ Abort(r)
    BY <2>2, StepInFlight, OnlyOne DEF InFlight
  <2> QED BY <2>1, <2>2
<1>2. \A s \in Session : s # r => SameSession(s)
  BY TypeStep DEF StepOK
<1>3. \A x \in Row : lock[x] \in {r, NoSession}
  BY <1>1 DEF NothingLeftBehind, TransactionSteps, TypeOK
<1>4. \A x \in Row : lock[x] # r => working[x] = committed[x]
  BY <1>3 DEF NothingLeftBehind
<1>5. pc[r] \notin TransactionSteps => \A x \in Row : lock[x] # r
  BY DEF NothingLeftBehind
<1> QED BY <1>1, <1>2, <1>3, <1>4, <1>5 DEF Read

(* What a PATCH reads within its transaction is the newest version.        *)
LEMMA ReadsNewest ==
  ASSUME MaxInFlight = 1, InFlightBounded, Shape, NEW r \in Session,
         Call(r) \/ Step(r) \/ Abort(r), NEW x \in Row
  PROVE  Read(r, x) = working[x]
  BY Alone DEF Read

-----------------------------------------------------------------------------
(* A PATCH knows what it changes                                           *)
-----------------------------------------------------------------------------
LEMMA UpdateStatusExact ==
  ASSUME MaxInFlight = 1, InFlightBounded, Shape, NEW r \in Session, EndpointOK(r),
         NEW id \in OrderId, NEW status \in PatchStatus, update_status(r, id, status)
  PROVE  PatchExact(r)'
<1> USE DEF Shape
<1>1. Call(r) /\ pc[r] = "idle" /\ id \in Row
  BY DEF Call, OrderServiceCall, update_status, Admit, Row
<1>2. \A x \in Row : working[x] = committed[x] /\ Read(r, x) = committed[x]
  BY <1>1, Alone DEF TransactionSteps
<1>3. /\ order'[r] = committed[id] /\ target'[r] = id /\ body'[r].status = status
      /\ working' = working /\ committed' = committed
  BY <1>1, <1>2 DEF update_status, Called, tables, TypeOK
<1>4. CASE should_restock(committed[id], status)
  <2>1. todo'[r] = DOMAIN order'[r].line_items /\ pc'[r] = "restock"
    BY <1>1, <1>2, <1>3, <1>4 DEF update_status, Goto, TypeOK
  <2>2. restocks(r)'
    BY <1>3, <1>4 DEF restocks, should_restock
  <2> QED BY <1>2, <1>3, <2>1, <2>2 DEF PatchExact, LoopSteps, Row
<1>5. CASE ~should_restock(committed[id], status)
  <2>1. todo'[r] = {} /\ pc'[r] = "update_status"
    BY <1>1, <1>2, <1>5 DEF update_status, Goto, TypeOK, EndpointOK
  <2>2. ~restocks(r)'
    BY <1>3, <1>5 DEF restocks, should_restock
  <2> QED BY <1>2, <1>3, <2>1, <2>2 DEF PatchExact, LoopSteps, Row
<1> QED BY <1>4, <1>5

LEMMA RestockExactly ==
  ASSUME MaxInFlight = 1, InFlightBounded, Shape, NEW r \in Session, PatchExact(r),
         restock(r)
  PROVE  PatchExact(r)'
<1> USE DEF Shape
<1>1. /\ pc[r] = "restock" /\ pc'[r] = "adjust_quantity" /\ Step(r)
      /\ UNCHANGED <<tables, handler, order, todo, sequence>>
  BY DEF restock, Goto, Step, OrderServiceStep, TypeOK
<1>2. PICK p \in todo[r] : Read(r, p) # NoRow /\ product'[r] = Read(r, p)
  BY DEF restock, next_lines, First, TypeOK
<1>3. p \in ProductId /\ p \in Row
  BY DEF TypeOK, Row
<1>4. working[p] = committed[p] /\ Read(r, p) = working[p]
  BY <1>1, <1>2, <1>3, ReadsNewest DEF PatchExact, PatchSteps
<1>5. product'[r] = committed[p] /\ product'[r].id = p
  BY <1>2, <1>3, <1>4 DEF TypeOK, TablesTypeOK
<1> QED BY <1>1, <1>5
        DEF PatchExact, PatchSteps, LoopSteps, restocks, should_restock, Restocked,
            ordered, tables, handler

LEMMA MissingExact ==
  ASSUME MaxInFlight = 1, InFlightBounded, Shape, NEW r \in Session, PatchExact(r),
         restock_product_missing(r)
  PROVE  PatchExact(r)'
<1> USE DEF Shape
<1>1. /\ pc[r] = "restock" /\ Step(r)
      /\ UNCHANGED <<tables, handler, order, product, sequence>>
  BY DEF restock_product_missing, Step, OrderServiceStep
<1>2. PICK p \in todo[r] : /\ Read(r, p) = NoRow
                           /\ todo' = [todo EXCEPT ![r] = @ \ {p}]
                           /\ Goto(r, AfterLine(r, p))
  BY DEF restock_product_missing, next_lines, First
<1>3. p \in ProductId /\ p \in Row
  BY DEF TypeOK, Row
<1>4. working[p] = NoRow /\ committed[p] = NoRow
  BY <1>1, <1>2, <1>3, ReadsNewest DEF PatchExact, PatchSteps
<1>5. /\ todo'[r] = todo[r] \ {p}
      /\ pc'[r] \in {"restock", "update_status"}
      /\ pc'[r] # "restock" => todo'[r] = {}
  BY <1>2 DEF Goto, AfterLine, TypeOK
<1>6. restocks(r) /\ restocks(r)'
  BY <1>1 DEF PatchExact, PatchSteps, LoopSteps, restocks, should_restock, handler
<1>7. \A q \in ProductId : Restocked(r, q)' = Restocked(r, q)
  BY <1>1 DEF Restocked, ordered, tables
<1>8. Restocked(r, p) = NoRow
  BY <1>4 DEF Restocked
<1>9. \A q \in ProductId :
        working'[q] = IF q \in DOMAIN order'[r].line_items \ todo'[r]
                        THEN Restocked(r, q) ELSE committed'[q]
  BY <1>1, <1>4, <1>5, <1>6, <1>8 DEF PatchExact, PatchSteps, tables
<1>10. /\ order'[r] = committed'[target'[r]] /\ working'[target'[r]] = order'[r]
       /\ \A o \in OrderId \ {target'[r]} : working'[o] = committed'[o]
  BY <1>1 DEF PatchExact, PatchSteps, tables, handler
<1> QED BY <1>5, <1>6, <1>7, <1>9, <1>10 DEF PatchExact, LoopSteps

LEMMA AdjustExact ==
  ASSUME Shape, NEW r \in Session, PatchExact(r), adjust_quantity(r)
  PROVE  PatchExact(r)'
<1> USE DEF Shape
<1> DEFINE p == product[r].id
           new == [working[p] EXCEPT !.quantity = product[r].quantity + ordered(r, p)]
<1>1. /\ pc[r] = "adjust_quantity" /\ working[p] # NoRow /\ Write(r, p, new)
      /\ todo' = [todo EXCEPT ![r] = @ \ {p}] /\ Goto(r, AfterLine(r, p))
      /\ UNCHANGED <<handler, order, product, sequence>>
  BY DEF adjust_quantity
<1>2. p \in todo[r] /\ p \in ProductId /\ p \in Row /\ p \in DOMAIN order[r].line_items
      /\ p \notin OrderId
  BY <1>1, KeyAssumption DEF SessionsOK, SessionOK, LoopSteps, TypeOK, Row
<1>3. working[p] = committed[p] /\ product[r] = committed[p] /\ committed[p] # NoRow
  BY <1>1, <1>2 DEF PatchExact, PatchSteps
<1>4. new = Restocked(r, p)
  BY <1>3 DEF Restocked
<1> HIDE DEF new
<1>5. /\ working'[p] = new /\ committed' = committed
      /\ \A x \in Row : x # p => working'[x] = working[x]
  BY <1>1, <1>2 DEF Write, TypeOK, TablesTypeOK
<1>6. /\ todo'[r] = todo[r] \ {p}
      /\ pc'[r] \in {"restock", "update_status"}
      /\ pc'[r] # "restock" => todo'[r] = {}
  BY <1>1 DEF Goto, AfterLine, TypeOK
<1>7. restocks(r) /\ restocks(r)'
  BY <1>1 DEF PatchExact, PatchSteps, LoopSteps, restocks, should_restock, handler
<1>8. \A q \in ProductId : Restocked(r, q)' = Restocked(r, q)
  BY <1>1, <1>5 DEF Restocked, ordered
<1>9. \A q \in ProductId :
        working'[q] = IF q \in DOMAIN order'[r].line_items \ todo'[r]
                        THEN Restocked(r, q) ELSE committed'[q]
  <2> SUFFICES ASSUME NEW q \in ProductId
               PROVE  working'[q] = IF q \in DOMAIN order'[r].line_items \ todo'[r]
                                      THEN Restocked(r, q) ELSE committed'[q]
    OBVIOUS
  <2>1. order'[r] = order[r] /\ q \in Row
    BY <1>1 DEF Row
  <2>2. CASE q = p
    BY <1>2, <1>4, <1>5, <1>6, <2>1, <2>2
  <2>3. CASE q # p
    BY <1>1, <1>5, <1>6, <1>7, <2>1, <2>3 DEF PatchExact, PatchSteps
  <2> QED BY <2>2, <2>3
<1>10. /\ order'[r] = committed'[target'[r]] /\ working'[target'[r]] = order'[r]
       /\ \A o \in OrderId \ {target'[r]} : working'[o] = committed'[o]
  <2>1. target'[r] = target[r] /\ order'[r] = order[r] /\ target[r] \in OrderId
    BY <1>1 DEF handler, SessionsOK, SessionOK, PatchSteps
  <2>2. \A o \in OrderId : working'[o] = working[o]
    BY <1>2, <1>5 DEF Row
  <2> QED BY <1>1, <1>5, <2>1, <2>2 DEF PatchExact, PatchSteps
<1> QED BY <1>6, <1>7, <1>8, <1>9, <1>10 DEF PatchExact, LoopSteps

LEMMA WriteStatusExact ==
  ASSUME Shape, NEW r \in Session, PatchExact(r), write_status(r)
  PROVE  PatchExact(r)'
<1> USE DEF Shape
<1> DEFINE id == target[r]
<1>1. /\ pc[r] = "update_status" /\ pc'[r] = "commit_status"
      /\ Write(r, id, changed(r, working[id]))
      /\ UNCHANGED <<handler, session, sequence>>
  BY DEF write_status, Goto, TypeOK
<1>2. id \in OrderId /\ id \in Row /\ id \notin ProductId
  BY <1>1, KeyAssumption DEF SessionsOK, SessionOK, PatchSteps, Row
<1>3. working[id] = order[r] /\ order[r] = committed[id] /\ todo[r] = {}
  BY <1>1 DEF PatchExact, PatchSteps, LoopSteps
<1>4. /\ working'[id] = changed(r, order[r]) /\ committed' = committed
      /\ \A x \in Row : x # id => working'[x] = working[x]
  BY <1>1, <1>2, <1>3 DEF Write, TypeOK, TablesTypeOK
<1>5. changed(r, order[r])' = changed(r, order[r])
  BY <1>1 DEF changed, should_restock, handler, session
<1>6. \A q \in ProductId : Restocked(r, q)' = Restocked(r, q) /\ working'[q] = working[q]
  BY <1>1, <1>2, <1>4 DEF Restocked, ordered, session, Row
<1>7. restocks(r)' <=> restocks(r)
  BY <1>1 DEF restocks, should_restock, handler, session
<1>8. /\ order'[r] = order[r] /\ target'[r] = id /\ todo'[r] = todo[r]
  BY <1>1 DEF handler, session
<1>9. \A o \in OrderId \ {id} : working'[o] = committed'[o]
  BY <1>1, <1>4 DEF PatchExact, PatchSteps, Row
<1>10. \A p \in ProductId :
         working'[p] = IF restocks(r) /\ p \in DOMAIN order'[r].line_items \ todo'[r]
                         THEN Restocked(r, p) ELSE committed'[p]
  BY <1>1, <1>4, <1>6, <1>8 DEF PatchExact, PatchSteps
<1> QED BY <1>1, <1>3, <1>4, <1>5, <1>6, <1>7, <1>8, <1>9, <1>10 DEF PatchExact, LoopSteps

LEMMA PatchExactStep ==
  ASSUME MaxInFlight = 1, InFlightBounded, Shape, NEW r \in Session,
         Call(r) \/ Step(r) \/ Abort(r), PatchExact(r), EndpointOK(r), NEW s \in Session
  PROVE  PatchExact(s)'
<1>1. CASE s # r
  BY <1>1, Alone DEF SameSession, PatchExact, PatchSteps
<1>2. CASE s = r /\ commit_status(r)
  <2>1. pc'[r] = "reload"
    BY <1>2 DEF commit_status, Goto, Shape, TypeOK
  <2> QED BY <1>2, <2>1 DEF PatchExact
<1>3. CASE s = r /\ pc'[r] \notin PatchSteps
  BY <1>3 DEF PatchExact
<1> QED BY <1>1, <1>2, <1>3, PatchStepKinds, UpdateStatusExact, RestockExactly,
           MissingExact, AdjustExact, WriteStatusExact

-----------------------------------------------------------------------------
(* Prices                                                                  *)
-----------------------------------------------------------------------------
LEMMA CheckoutStarts ==
  ASSUME Shape, NEW r \in Session, Call(r) \/ Step(r) \/ Abort(r),
         pc'[r] = "create_with_line_items"
  PROVE  \E items \in Cart : checkout(r, items)
<1> USE DEF Shape
<1>1. ~Step(r) /\ ~Abort(r)
  <2>1. ~OrderServiceStep(r)
    BY DEF OrderServiceStep, create_with_line_items, decrement_quantity_if_available,
       decrement_insufficient, commit_checkout, restock, restock_product_missing,
       adjust_quantity, adjust_quantity_stale, write_status, commit_status, reload,
       AfterDecrement, AfterLine, Goto, Respond, TypeOK
  <2>2. ~ProductServiceStep(r) /\ ~Abort(r)
    BY DEF ProductServiceStep, update_commit, update_duplicate, update_stale, refresh,
       delete_commit, Abort, Goto, Respond, TypeOK
  <2> QED BY <2>1, <2>2 DEF Step
<1>2. ~ProductServiceCall(r)
  BY DEF ProductServiceCall, create_product, create_product_duplicate,
     update_product, update_product_not_found, delete_product,
     delete_product_not_found, Goto, Respond, TypeOK
<1>3. ~ \E id \in OrderId, status \in PatchStatus :
          update_status(r, id, status) \/ update_status_not_found(r, id, status)
  BY DEF update_status, update_status_not_found, Goto, Respond, TypeOK
<1>4. ~ \E items \in Cart : checkout_refused(r, items)
  BY DEF checkout_refused, Respond, TypeOK
<1> QED BY <1>1, <1>2, <1>3, <1>4 DEF Call, OrderServiceCall

LEMMA PricesHoldStep ==
  ASSUME MaxInFlight = 1, InFlightBounded, Shape, NEW r \in Session,
         Call(r) \/ Step(r) \/ Abort(r), PricesHold(r), NEW s \in Session
  PROVE  PricesHold(s)'
<1> USE DEF Shape
<1>1. CASE s # r
  BY <1>1, Alone DEF SameSession, PricesHold, CheckoutSteps
<1>2. CASE s = r /\ pc'[r] = "create_with_line_items"
  <2>1. PICK items \in Cart : checkout(r, items)
    BY <1>2, CheckoutStarts
  <2> DEFINE want == merge_line_items(items)
  <2>2. PICK ids \in (SUBSET ProductId) \ {{}} : want \in [ids -> Quantity]
    BY CartAssumption
  <2>3. /\ pc[r] = "idle" /\ Unserved(r, want) = {} /\ committed' = committed
        /\ order'[r] = new_order(r, want)
    BY <2>1 DEF checkout, Admit, tables, TypeOK
  <2>4. \A x \in Row : Read(r, x) = committed[x]
    BY <2>3, Alone DEF TransactionSteps
  <2>5. DOMAIN want \subseteq ProductId /\ DOMAIN want \subseteq Row
    BY <2>2 DEF Row
  <2> HIDE DEF want
  <2>6. \A p \in DOMAIN want : committed[p] # NoRow
    BY <2>3, <2>4, <2>5 DEF Unserved, Covers
  <2>7. /\ DOMAIN order'[r].line_items = DOMAIN want
        /\ \A p \in DOMAIN want : order'[r].line_items[p].unit_price = committed[p].price
    BY <2>3, <2>4, <2>5 DEF new_order
  <2> QED BY <1>2, <2>3, <2>6, <2>7 DEF PricesHold
<1>3. CASE s = r /\ pc'[r] \in CheckoutSteps
  <2>1. Adds(r) \/ \E p \in ProductId : Takes(r, p)
    BY <1>3, StepKinds
    DEF Quiet, Returns, SetsStatus, Commits, RollsBack, Edits, CheckoutSteps,
        TransactionSteps
  <2>2. /\ committed' = committed /\ order'[r] = order[r]
        /\ pc[r] \in {"create_with_line_items"} \cup CheckoutSteps
    BY <2>1 DEF Adds, Takes, Write, CheckoutSteps
  <2> QED BY <1>3, <2>2 DEF PricesHold
<1> QED BY <1>1, <1>2, <1>3 DEF PricesHold

-----------------------------------------------------------------------------
(* Answers                                                                 *)
-----------------------------------------------------------------------------

(* Answers and endpoints of other requests stay.                           *)
LEMMA OthersAnswers ==
  ASSUME Shape, NEW r \in Session, Call(r) \/ Step(r) \/ Abort(r), NEW s \in Session, s # r
  PROVE  op'[s] = op[s] /\ reply'[s] = reply[s]
<1> USE DEF Shape, TypeOK
<1>1. CASE OrderServiceCall(r)
  BY <1>1 DEF OrderServiceCall, checkout, checkout_refused, update_status,
     update_status_not_found, Called, Goto, Respond
<1>2. CASE ProductServiceCall(r)
  <2>1. CASE \E content \in PostBody :
               create_product(r, content) \/ create_product_duplicate(r, content)
    BY <2>1 DEF create_product, create_product_duplicate, Called, Goto, Respond
  <2>2. CASE \E p \in ProductId, content \in PutBody :
               update_product(r, p, content) \/ update_product_not_found(r, p, content)
    BY <2>2 DEF update_product, update_product_not_found, Called, Goto, Respond
  <2>3. CASE \E p \in DeleteId : delete_product(r, p) \/ delete_product_not_found(r, p)
    BY <2>3 DEF delete_product, delete_product_not_found, Called, Goto, Respond
  <2> QED BY <1>2, <2>1, <2>2, <2>3 DEF ProductServiceCall
<1>3. CASE OrderServiceStep(r)
  <2>1. create_with_line_items(r) \/ decrement_quantity_if_available(r)
          \/ restock(r) \/ restock_product_missing(r) \/ adjust_quantity(r)
          \/ write_status(r) \/ commit_status(r)
        => op' = op /\ reply' = reply
    BY DEF create_with_line_items, decrement_quantity_if_available, restock,
       restock_product_missing, adjust_quantity, write_status, commit_status, handler, Goto
  <2>2. decrement_insufficient(r) \/ commit_checkout(r) \/ adjust_quantity_stale(r)
          \/ reload(r)
        => op' = op /\ \E code : Respond(r, code)
    BY DEF decrement_insufficient, commit_checkout, adjust_quantity_stale, reload, handler
  <2> QED BY <1>3, <2>1, <2>2 DEF OrderServiceStep, Respond
<1>4. CASE ProductServiceStep(r) \/ Abort(r)
  BY <1>4 DEF ProductServiceStep, update_commit, update_duplicate, update_stale, refresh,
     delete_commit, Abort, handler, Goto, Respond
<1> QED BY <1>1, <1>2, <1>3, <1>4 DEF Call, Step

(* The row that adjust_quantity writes is there when nobody else runs.     *)
LEMMA NeverStale ==
  ASSUME MaxInFlight = 1, InFlightBounded, Shape, NEW r \in Session, PatchExact(r)
  PROVE  ~adjust_quantity_stale(r)
<1> SUFFICES ASSUME adjust_quantity_stale(r) PROVE FALSE
  OBVIOUS
<1> USE DEF Shape
<1> DEFINE p == product[r].id
<1>1. pc[r] = "adjust_quantity" /\ Read(r, p) = NoRow /\ Step(r)
  BY DEF adjust_quantity_stale, Step, OrderServiceStep
<1>2. p \in todo[r] /\ p \in ProductId /\ p \in Row /\ product[r] # NoRow
  BY <1>1 DEF SessionsOK, SessionOK, TypeOK, Row
<1>3. Read(r, p) = working[p] /\ working[p] = committed[p] /\ committed[p] = product[r]
  BY <1>1, <1>2, ReadsNewest DEF PatchExact, PatchSteps
<1> QED BY <1>1, <1>2, <1>3

LEMMA AnswersStep ==
  ASSUME Shape, NEW r \in Session, Call(r) \/ Step(r) \/ Abort(r), EndpointOK(r),
         ~adjust_quantity_stale(r)
  PROVE  EndpointOK(r)' /\ (op'[r] = "patch" => reply'[r] # 500)
<1> USE NoReplyAssumption DEF Shape, TypeOK, EndpointOK, ProductSteps, Codes, Lost
<1>1. CASE \E items \in Cart : checkout(r, items) \/ checkout_refused(r, items)
  BY <1>1 DEF checkout, checkout_refused, Admit, Called, Goto, Respond
<1>2. CASE \E id \in OrderId, status \in PatchStatus :
             update_status(r, id, status) \/ update_status_not_found(r, id, status)
  BY <1>2 DEF update_status, update_status_not_found, Admit, Called, Goto, Respond
<1>3. CASE ProductServiceCall(r)
  <2>1. CASE \E content \in PostBody :
               create_product(r, content) \/ create_product_duplicate(r, content)
    BY <2>1 DEF create_product, create_product_duplicate, Admit, Called, Goto, Respond,
       session
  <2>2. CASE \E p \in ProductId, content \in PutBody :
               update_product(r, p, content) \/ update_product_not_found(r, p, content)
    BY <2>2 DEF update_product, update_product_not_found, Admit, Called, Goto, Respond
  <2>3. CASE \E p \in DeleteId : delete_product(r, p) \/ delete_product_not_found(r, p)
    BY <2>3 DEF delete_product, delete_product_not_found, Admit, Called, Goto, Respond
  <2> QED BY <1>3, <2>1, <2>2, <2>3 DEF ProductServiceCall
<1>4. CASE create_with_line_items(r) \/ decrement_quantity_if_available(r)
             \/ restock(r) \/ restock_product_missing(r) \/ adjust_quantity(r)
             \/ write_status(r) \/ commit_status(r)
  <2>1. op' = op /\ reply' = reply /\ pc[r] # "done"
    BY <1>4 DEF create_with_line_items, decrement_quantity_if_available, restock,
       restock_product_missing, adjust_quantity, write_status, commit_status, handler, Goto
  <2>2. pc'[r] \in {"decrement", "commit_checkout", "adjust_quantity", "restock",
                    "update_status", "commit_status", "reload"}
    <3>1. create_with_line_items(r) => pc'[r] = "decrement"
      BY DEF create_with_line_items, Goto
    <3>2. decrement_quantity_if_available(r) => pc'[r] \in {"decrement", "commit_checkout"}
      BY DEF decrement_quantity_if_available, Goto, AfterDecrement
    <3>3. restock(r) \/ restock_product_missing(r) \/ adjust_quantity(r)
            => pc'[r] \in {"adjust_quantity", "restock", "update_status"}
      BY DEF restock, restock_product_missing, adjust_quantity, Goto, AfterLine
    <3>4. write_status(r) \/ commit_status(r) => pc'[r] \in {"commit_status", "reload"}
      BY DEF write_status, commit_status, Goto
    <3> QED BY <1>4, <3>1, <3>2, <3>3, <3>4
  <2> QED BY <2>1, <2>2
<1>5. CASE decrement_insufficient(r) \/ commit_checkout(r) \/ reload(r) \/ Abort(r)
  BY <1>5 DEF decrement_insufficient, commit_checkout, reload, Abort, handler, Respond
<1>6. CASE ProductServiceStep(r)
  BY <1>6 DEF ProductServiceStep, update_commit, update_duplicate, update_stale, refresh,
     delete_commit, handler, Goto, Respond
<1> QED BY <1>1, <1>2, <1>3, <1>4, <1>5, <1>6
        DEF Call, Step, OrderServiceCall, OrderServiceStep

-----------------------------------------------------------------------------
(* The invariant and what it implies                                       *)
-----------------------------------------------------------------------------
LEMMA InitSerial == Init => SerialInv
<1> SUFFICES ASSUME Init PROVE SerialInv
  OBVIOUS
<1>1. InFlightBounded
  BY InitLockOrder DEF LockOrder
<1>2. PatchNeverErrs
  BY NoReplyAssumption DEF Init, PatchNeverErrs, Codes
<1>3. \A r \in Session : PatchExact(r) /\ PricesHold(r) /\ EndpointOK(r)
  BY DEF Init, PatchExact, PatchSteps, PricesHold, CheckoutSteps, EndpointOK, ProductSteps
<1> QED BY <1>1, <1>2, <1>3 DEF SerialInv

LEMMA StutterSerial == SerialInv /\ UNCHANGED vars => SerialInv'
<1> SUFFICES ASSUME SerialInv, UNCHANGED vars PROVE SerialInv'
  OBVIOUS
<1> USE DEF vars, tables
<1>1. InFlightBounded' /\ PatchNeverErrs'
  BY DEF SerialInv, InFlightBounded, InFlight, PatchNeverErrs
<1>2. ASSUME NEW r \in Session PROVE PatchExact(r)'
  <2>1. changed(r, order[r])' = changed(r, order[r])
    BY DEF changed, should_restock
  <2>2. restocks(r)' <=> restocks(r)
    BY DEF restocks, should_restock
  <2>3. \A p \in ProductId : Restocked(r, p)' = Restocked(r, p)
    BY DEF Restocked, ordered
  <2>4. PatchExact(r)
    BY DEF SerialInv
  <2> QED BY <2>1, <2>2, <2>3, <2>4 DEF PatchExact
<1>3. \A r \in Session : PricesHold(r)' /\ EndpointOK(r)'
  BY DEF SerialInv, PricesHold, EndpointOK
<1> QED BY <1>1, <1>2, <1>3 DEF SerialInv

LEMMA NextSerial ==
  ASSUME MaxInFlight = 1, IInv, SerialInv, [Next]_vars
  PROVE  SerialInv'
<1> SUFFICES ASSUME NEW r \in Session, Call(r) \/ Step(r) \/ Abort(r) PROVE SerialInv'
  BY StutterSerial DEF Next
<1>1. Shape /\ InFlightBounded /\ \A s \in Session :
        PatchExact(s) /\ PricesHold(s) /\ EndpointOK(s)
        /\ (op[s] = "patch" => reply[s] # 500)
  BY DEF IInv, SerialInv, PatchNeverErrs
<1>2. InFlightBounded'
  BY <1>1, InFlightBoundedStep
<1>3. \A s \in Session : PatchExact(s)' /\ PricesHold(s)'
  BY <1>1, PatchExactStep, PricesHoldStep
<1>4. EndpointOK(r)' /\ (op'[r] = "patch" => reply'[r] # 500)
  BY <1>1, NeverStale, AnswersStep
<1>5. ASSUME NEW s \in Session, s # r
      PROVE  EndpointOK(s)' /\ (op'[s] = "patch" => reply'[s] # 500)
  <2>1. op'[s] = op[s] /\ reply'[s] = reply[s] /\ SameSession(s)
    BY <1>1, <1>5, OthersAnswers, Alone
  <2> QED BY <1>1, <2>1 DEF EndpointOK, SameSession
<1>6. PatchNeverErrs'
  BY <1>4, <1>5 DEF PatchNeverErrs
<1>7. \A s \in Session : EndpointOK(s)'
  BY <1>4, <1>5
<1> QED BY <1>2, <1>3, <1>6, <1>7 DEF SerialInv

(* One request at a time: nothing a handler has read changes before it     *)
(* writes, and its transaction holds exactly the changes of its loop.      *)
THEOREM SerialInvariant == MaxInFlight = 1 /\ Spec => []SerialInv
<1> SUFFICES ASSUME MaxInFlight = 1 PROVE Spec => []SerialInv
  OBVIOUS
<1>1. IInv /\ SerialInv /\ [Next]_vars => SerialInv'
  BY NextSerial
<1> QED BY <1>1, InitSerial, InductiveInvariant, PTL DEF Spec

(* One request at a time: no PATCH fails, whatever products were deleted   *)
(* since the order was placed.                                             *)
THEOREM SerialPatchSucceeds == MaxInFlight = 1 /\ Spec => []PatchNeverErrs
<1>1. SerialInv => PatchNeverErrs
  BY DEF SerialInv
<1> QED BY <1>1, SerialInvariant, PTL

-----------------------------------------------------------------------------
(* The commit of a PATCH                                                   *)
-----------------------------------------------------------------------------
LEMMA CommitShowsAll ==
  ASSUME MaxInFlight = 1, IInv, SerialInv, NEW r \in Session,
         Call(r) \/ Step(r) \/ Abort(r), Commits(r), NEW x \in Row
  PROVE  committed'[x] = working[x]
<1>1. lock[x] # r => working[x] = committed[x]
  BY Alone DEF SerialInv, IInv
<1> QED BY <1>1 DEF Commits, Commit

LEMMA ChangedOrder ==
  ASSUME NEW r \in Session, order[r] \in Order, body[r] \in OrderStatusUpdate
  PROVE  /\ changed(r, order[r]) \in Order
         /\ changed(r, order[r]).status = body[r].status
         /\ changed(r, order[r]).stock_restored = (order[r].stock_restored \/ restocks(r))
         /\ changed(r, order[r]).line_items = order[r].line_items
<1>1. body[r].status \in OrderStatus
  BY DEF OrderStatusUpdate
<1>2. order[r].stock_restored \/ restocks(r) \in BOOLEAN
  BY DEF Order, restocks, should_restock
<1> QED BY <1>1, <1>2 DEF changed, restocks, should_restock, Order

LEMMA PatchCommit ==
  ASSUME MaxInFlight = 1, IInv, SerialInv, NEW r \in Session,
         Call(r) \/ Step(r) \/ Abort(r), Commits(r), pc[r] = "commit_status"
  PROVE  LET o == target[r] IN
         /\ o \in OrderId /\ order[r] \in Order /\ body[r] \in OrderStatusUpdate
         /\ order[r] = committed[o] /\ committed[o] # NoRow
         /\ committed'[o] = changed(r, order[r])
         /\ \A x \in OrderId \ {o} : committed'[x] = committed[x]
         /\ \A p \in ProductId :
              committed'[p] = IF restocks(r) /\ p \in DOMAIN order[r].line_items
                                THEN Restocked(r, p) ELSE committed[p]
<1> USE DEF IInv, Shape
<1> DEFINE o == target[r]
<1>1. /\ o \in OrderId /\ o \in Row /\ order[r] \in Order /\ body[r] \in OrderStatusUpdate
      /\ committed[o] # NoRow
  BY DEF SessionsOK, SessionOK, OrderSteps, PatchSteps, PatchesLoaded, LoadedOK, TypeOK, Row
<1>2. PatchExact(r) /\ pc[r] \in PatchSteps \ {"reload"} /\ pc[r] \notin LoopSteps
  BY DEF SerialInv, PatchSteps, LoopSteps
<1>3. \A x \in Row : committed'[x] = working[x]
  BY CommitShowsAll
<1> QED BY <1>1, <1>2, <1>3 DEF PatchExact, Row

(* Only the commit of a PATCH restores an order.                           *)
LEMMA RestoredByPatch ==
  ASSUME MaxInFlight = 1, IInv, SerialInv, NEW r \in Session,
         Call(r) \/ Step(r) \/ Abort(r), NEW o \in OrderId, Restored(o)
  PROVE  Commits(r) /\ pc[r] = "commit_status" /\ o = target[r] /\ restocks(r)
<1> USE DEF IInv, Shape
<1>1. o \in Row /\ o \notin ProductId /\ committed[o] # NoRow /\ committed'[o] # committed[o]
  BY KeyAssumption DEF Row, Restored
<1>2. Commits(r)
  BY <1>1, StepKinds
  DEF Quiet, tables, Adds, Takes, Returns, SetsStatus, RollsBack, Edits, Write, Rollback,
      WriteAndCommit, TypeOK, TablesTypeOK
<1>3. pc[r] # "commit_checkout"
  <2>1. SUFFICES ASSUME pc[r] = "commit_checkout" PROVE FALSE
    OBVIOUS
  <2>2. CheckoutOpen(r) /\ pc[r] \in CheckoutSteps /\ order[r] \in Order
    BY <2>1 DEF CheckoutsOpen, CheckoutSteps, SessionsOK, SessionOK, OrderSteps, TypeOK
  <2>3. o \notin DOMAIN order[r].line_items
    BY <1>1, <2>2, LinesOfOrder
  <2>4. lock[o] = r => working[o] = committed[o]
    BY <1>1, <2>2, <2>3 DEF CheckoutOpen
  <2> QED BY <1>1, <1>2, <2>4 DEF Commits, Commit
<1>4. pc[r] = "commit_status"
  BY <1>2, <1>3 DEF Commits
<1>5. o = target[r] /\ committed'[o] = changed(r, order[r]) /\ order[r] = committed[o]
      /\ order[r] \in Order /\ body[r] \in OrderStatusUpdate
  BY <1>1, <1>2, <1>4, PatchCommit
<1>6. changed(r, order[r]).stock_restored = (order[r].stock_restored \/ restocks(r))
  BY <1>5, ChangedOrder
<1> QED BY <1>2, <1>4, <1>5, <1>6 DEF Restored

(* One request at a time: the step that cancels an order gives each of its *)
(* products that is still there exactly its line.                          *)
THEOREM SerialRestockExact == MaxInFlight = 1 /\ Spec => RestockExact
<1> SUFFICES ASSUME MaxInFlight = 1 PROVE Spec => RestockExact
  OBVIOUS
<1>1. ASSUME IInv, SerialInv, NEW r \in Session, Call(r) \/ Step(r) \/ Abort(r),
             NEW o \in OrderId, Restored(o), NEW p \in DOMAIN committed[o].line_items,
             StockKnown(p)
      PROVE  committed'[p].quantity
               = committed[p].quantity + committed[o].line_items[p].quantity
  <2>1. Commits(r) /\ pc[r] = "commit_status" /\ o = target[r] /\ restocks(r)
    BY <1>1, RestoredByPatch
  <2>2. order[r] = committed[o] /\ order[r] \in Order
    BY <1>1, <2>1, PatchCommit
  <2>3. p \in ProductId
    BY <1>1, <2>2, LinesOfOrder
  <2>4. committed'[p] = Restocked(r, p)
    BY <1>1, <2>1, <2>2, <2>3, PatchCommit
  <2>5. committed[p] # NoRow /\ committed[p] \in Product
    BY <1>1, <2>3 DEF StockKnown, IInv, Shape, TypeOK, TablesTypeOK
  <2> QED BY <2>2, <2>4, <2>5 DEF Restocked, ordered, Product
<1>2. IInv /\ SerialInv /\ [Next]_vars =>
        [\A o \in OrderId : Restored(o) =>
           \A p \in DOMAIN committed[o].line_items : StockKnown(p) =>
             committed'[p].quantity
               = committed[p].quantity + committed[o].line_items[p].quantity]_vars
  BY <1>1 DEF Next
<1>3. Spec => []SerialInv
  BY SerialInvariant
<1> QED BY <1>2, <1>3, InductiveInvariant, PTL DEF Spec, RestockExact

(* One request at a time: an order's prices are those of the catalogue at  *)
(* the moment it appears.                                                  *)
THEOREM SerialPricesOfTheMoment == MaxInFlight = 1 /\ Spec => PricesOfTheMoment
<1> SUFFICES ASSUME MaxInFlight = 1 PROVE Spec => PricesOfTheMoment
  OBVIOUS
<1>1. ASSUME IInv, SerialInv, NEW r \in Session, Call(r) \/ Step(r) \/ Abort(r),
             NEW o \in OrderId, Appears(o), NEW p \in DOMAIN committed'[o].line_items
      PROVE  committed'[o].line_items[p].unit_price = committed[p].price
  <2>1. committed'[o] = order[r] /\ pc[r] = "commit_checkout"
    BY <1>1, CheckoutCommit
  <2> QED BY <1>1, <2>1 DEF SerialInv, PricesHold, CheckoutSteps
<1>2. IInv /\ SerialInv /\ [Next]_vars =>
        [\A o \in OrderId : Appears(o) =>
           \A p \in DOMAIN committed'[o].line_items : committed[p] # NoRow =>
             committed'[o].line_items[p].unit_price = committed[p].price]_vars
  BY <1>1 DEF Next
<1>3. Spec => []SerialInv
  BY SerialInvariant
<1> QED BY <1>2, <1>3, InductiveInvariant, PTL DEF Spec, PricesOfTheMoment

-----------------------------------------------------------------------------
(* Every step is a step of Inventory or a stutter                          *)
-----------------------------------------------------------------------------
LEMMA CommitCancels ==
  ASSUME MaxInFlight = 1, IInv, SerialInv, NEW r \in Session,
         Call(r) \/ Step(r) \/ Abort(r), Commits(r), pc[r] = "commit_status", restocks(r)
  PROVE  Abstract!Cancel(target[r])
<1> DEFINE o == target[r]
           old == committed[o]
           new == changed(r, order[r])
<1>1. /\ o \in OrderId /\ old = order[r] /\ old \in Order /\ old # NoRow
      /\ \A x \in OrderId : committed'[x] = IF x = o THEN new ELSE committed[x]
      /\ \A p \in ProductId : committed'[p] = IF p \in DOMAIN old.line_items
                                                THEN Restocked(r, p) ELSE committed[p]
  BY PatchCommit
<1>2. body[r] \in OrderStatusUpdate
  BY PatchCommit
<1>3. body[r].status = "cancelled" /\ ~old.stock_restored
  BY <1>1 DEF restocks, should_restock
<1>4. /\ new \in Order /\ new.status = "cancelled" /\ new.stock_restored = TRUE
      /\ new.line_items = old.line_items
  BY <1>1, <1>2, <1>3, ChangedOrder
<1> HIDE DEF new
<1>5. new = [[old EXCEPT !.status = "cancelled"] EXCEPT !.stock_restored = TRUE]
  BY <1>1, <1>4 DEF Order
<1>6. Orders' = [Orders EXCEPT ![o].status = "cancelled", ![o].stock_restored = TRUE]
  BY <1>1, <1>5 DEF Orders
<1>7. ASSUME NEW p \in ProductId
      PROVE  committed'[p] = IF p \in DOMAIN old.line_items /\ committed[p] # NoRow
               THEN [committed[p] EXCEPT !.quantity = @ + 1 * old.line_items[p].quantity]
               ELSE committed[p]
  <2>1. CASE p \in DOMAIN old.line_items /\ committed[p] # NoRow
    <3>1. committed[p] \in Product /\ old.line_items[p].quantity \in Nat
      BY <1>1, <2>1, LinesOfOrder DEF IInv, Shape, TypeOK, TablesTypeOK
    <3>2. 1 * old.line_items[p].quantity = old.line_items[p].quantity
      BY <3>1
    <3>3. committed'[p]
            = [committed[p] EXCEPT !.quantity = @ + old.line_items[p].quantity]
      BY <1>1, <2>1 DEF Restocked, ordered
    <3> QED BY <2>1, <3>2, <3>3
  <2>2. CASE ~(p \in DOMAIN old.line_items /\ committed[p] # NoRow)
    BY <1>1, <2>2 DEF Restocked
  <2> QED BY <2>1, <2>2
<1>8. Catalogue' = Abstract!Moved(old.line_items, 1)
  <2> HIDE DEF old
  <2> QED BY <1>7 DEF Catalogue, Abstract!Moved
<1>9. Orders[o] = old
  BY <1>1 DEF Orders
<1> QED BY <1>1, <1>3, <1>6, <1>8, <1>9 DEF Abstract!Cancel

LEMMA CommitMovesOn ==
  ASSUME MaxInFlight = 1, IInv, SerialInv, NEW r \in Session,
         Call(r) \/ Step(r) \/ Abort(r), Commits(r), pc[r] = "commit_status", ~restocks(r)
  PROVE  Abstract!SetStatus(target[r])
<1> DEFINE o == target[r]
           old == committed[o]
           new == changed(r, order[r])
           status == body[r].status
<1>1. /\ o \in OrderId /\ old = order[r] /\ old \in Order /\ old # NoRow
      /\ \A x \in OrderId : committed'[x] = IF x = o THEN new ELSE committed[x]
      /\ \A p \in ProductId : committed'[p] = committed[p]
  BY PatchCommit
<1>2. body[r] \in OrderStatusUpdate
  BY PatchCommit
<1>3. /\ new \in Order /\ new.status = status
      /\ new.stock_restored = old.stock_restored /\ new.line_items = old.line_items
  <2>1. old.stock_restored \in BOOLEAN
    BY <1>1 DEF Order
  <2> QED BY <1>1, <1>2, <2>1, ChangedOrder
<1>4. status = "cancelled" => old.stock_restored
  BY <1>1 DEF restocks, should_restock, IInv, CancelledRestored, RestoredIfCancelled
<1> HIDE DEF new
<1>5. new = [old EXCEPT !.status = status]
  BY <1>1, <1>3 DEF Order
<1> HIDE DEF status
<1>6. Orders' = [Orders EXCEPT ![o].status = status]
  BY <1>1, <1>5 DEF Orders
<1>7. Catalogue' = Catalogue
  BY <1>1 DEF Catalogue
<1>8. Orders[o] = old /\ Orders'[o].status = status
  BY <1>1, <1>3 DEF Orders
<1> QED BY <1>1, <1>4, <1>6, <1>7, <1>8 DEF Abstract!SetStatus

LEMMA SerialNextImplements ==
  ASSUME MaxInFlight = 1, IInv, IInv', SerialInv, NEW r \in Session,
         Call(r) \/ Step(r) \/ Abort(r)
  PROVE  Abstract!Next \/ UNCHANGED <<Catalogue, Orders>>
<1>1. CASE Commits(r)
  <2>1. pc[r] = "commit_checkout" \/ pc[r] = "commit_status"
    BY <1>1 DEF Commits
  <2>2. target[r] \in OrderId
    BY <2>1 DEF IInv, Shape, SessionsOK, SessionOK, CheckoutSteps, PatchSteps
  <2> QED BY <1>1, <2>1, <2>2, CommitPlaces, CommitCancels, CommitMovesOn
          DEF Abstract!Next
<1>2. CASE \E p \in ProductId : \E version : Edits(r, p, version)
  BY <1>2, EditChanges DEF Abstract!Next
<1>3. CASE committed' = committed
  BY <1>3 DEF Catalogue, Orders
<1> QED
  BY <1>1, <1>2, <1>3, StepKinds
  DEF Quiet, tables, Adds, Takes, Returns, SetsStatus, RollsBack, Write, Rollback,
      IInv, Shape

(* One request at a time, of which any may fail half-way: to whoever reads *)
(* the tables, checkouts, cancellations, changes of status and edits of    *)
(* the catalogue are the single steps of Inventory.                        *)
THEOREM SerialRefinement == MaxInFlight = 1 /\ Spec => ImplementsInventory
<1> SUFFICES ASSUME MaxInFlight = 1 PROVE Spec => ImplementsInventory
  OBVIOUS
<1>1. Init => Abstract!Init
  BY InitImplements
<1>2. IInv /\ IInv' /\ SerialInv /\ [Next]_vars
        => [Abstract!Next]_<<Catalogue, Orders>>
  <2>1. UNCHANGED vars => UNCHANGED <<Catalogue, Orders>>
    BY DEF vars, tables, Catalogue, Orders
  <2> QED BY <2>1, SerialNextImplements DEF Next
<1>3. Spec => []SerialInv
  BY SerialInvariant
<1> QED
  BY <1>1, <1>2, <1>3, InductiveInvariant, PTL DEF Spec, ImplementsInventory, Abstract!Spec
=============================================================================
