-------------------------- MODULE ShopHistoryProofs --------------------------
(***************************************************************************)
(* Ids of products, for any numbers of products, orders and requests: a    *)
(* new product replaces none, so that stock moves for a reason only, and   *)
(* on PostgreSQL the id of a deleted product never names another one, so   *)
(* that a cancellation gives no stock to a product that was not the one    *)
(* sold.                                                                   *)
(***************************************************************************)
EXTENDS ShopSerialProofs, ShopHistory

-----------------------------------------------------------------------------
(* The id of a new product                                                 *)
-----------------------------------------------------------------------------
LEMMA GreatestBounds ==
  ASSUME NEW ids \in SUBSET Nat, IsFiniteSet(ids)
  PROVE  Greatest(ids) \in Nat /\ \A p \in ids : p <= Greatest(ids)
<1> DEFINE greatest == {p \in ids : \A q \in ids : q <= p}
<1>1. CASE ids = {}
  BY <1>1 DEF Greatest
<1>2. CASE ids # {}
  <2> DEFINE f == [p \in ids |-> p]
  <2>1. \A p \in ids : f[p] \in Nat
    OBVIOUS
  <2> HIDE DEF f
  <2>2. PICK p \in ids : \A q \in ids : f[q] <= f[p]
    BY <1>2, <2>1, GreatestValue
  <2>3. p \in greatest
    BY <2>2 DEF f
  <2>4. Greatest(ids) \in greatest
    BY <2>3 DEF Greatest
  <2> QED BY <2>4
<1> QED BY <1>1, <1>2

(* The INSERT of a product finds no row at the id it was given.            *)
LEMMA FreshId ==
  ASSUME TypeOK, CatalogueAgreed, IdsHandedOut
  PROVE  new_id \in ProductId => working[new_id] = NoRow
<1> DEFINE present == {p \in ProductId : working[p] # NoRow}
<1>1. present \in SUBSET Nat /\ IsFiniteSet(present)
  BY KeyAssumption DEF CatalogueAgreed
<1>2. Greatest(present) \in Nat /\ \A p \in present : p <= Greatest(present)
  BY <1>1, GreatestBounds
<1>3. CASE Dialect = "sqlite"
  BY <1>2, <1>3 DEF new_id
<1>4. CASE Dialect = "postgresql"
  <2>1. new_id = 1 + sequence /\ sequence \in Nat
    BY <1>4 DEF new_id, TypeOK
  <2> QED BY <1>1, <1>4, <2>1 DEF IdsHandedOut
<1> QED BY <1>3, <1>4, DialectAssumption

LEMMA SequenceGrows ==
  ASSUME Shape, NEW r \in Session, Call(r) \/ Step(r) \/ Abort(r)
  PROVE  sequence \in Nat /\ sequence' \in Nat /\ sequence <= sequence'
<1>1. sequence \in Nat
  BY DEF Shape, TypeOK
<1>2. CASE OrderServiceCall(r)
  <2>1. sequence' = sequence
    BY <1>2 DEF OrderServiceCall, checkout, checkout_refused, update_status,
       update_status_not_found
  <2> QED BY <1>1, <2>1
<1>3. CASE ProductServiceCall(r)
  <2>1. CASE \E content \in PostBody :
               create_product(r, content) \/ create_product_duplicate(r, content)
    <3>1. take_id
      BY <2>1 DEF create_product, create_product_duplicate
    <3> QED BY <1>1, <3>1 DEF take_id
  <2>2. CASE \E p \in ProductId, content \in PutBody :
               update_product(r, p, content) \/ update_product_not_found(r, p, content)
    BY <1>1, <2>2 DEF update_product, update_product_not_found
  <2>3. CASE \E p \in DeleteId : delete_product(r, p) \/ delete_product_not_found(r, p)
    BY <1>1, <2>3 DEF delete_product, delete_product_not_found
  <2> QED BY <1>3, <2>1, <2>2, <2>3 DEF ProductServiceCall
<1>4. CASE OrderServiceStep(r)
  BY <1>1, <1>4 DEF OrderServiceStep, create_with_line_items,
     decrement_quantity_if_available, decrement_insufficient, commit_checkout, restock,
     restock_product_missing, adjust_quantity, adjust_quantity_stale, write_status,
     commit_status, reload
<1>5. CASE ProductServiceStep(r) \/ Abort(r)
  BY <1>1, <1>5 DEF ProductServiceStep, update_commit, update_duplicate, update_stale,
     refresh, delete_commit, Abort
<1> QED BY <1>2, <1>3, <1>4, <1>5 DEF Call, Step

-----------------------------------------------------------------------------
(* The catalogue                                                           *)
-----------------------------------------------------------------------------

(* A product appears by create_product only.                               *)
LEMMA ProductAppears ==
  ASSUME Shape, CatalogueAgreed, NEW r \in Session, Call(r) \/ Step(r) \/ Abort(r),
         NEW p \in ProductId, working[p] = NoRow, working'[p] # NoRow
  PROVE  pc[r] = "idle" /\ p = new_id /\ take_id
<1> USE DEF Shape
<1>1. p \in Row /\ p \notin OrderId /\ committed[p] = NoRow
  BY KeyAssumption DEF Row, CatalogueAgreed
<1>2. ~Quiet(r) /\ ~Commits(r) /\ ~RollsBack(r)
  BY <1>1 DEF Quiet, tables, Commits, RollsBack, Commit, Rollback
<1>3. ~Adds(r) /\ ~SetsStatus(r)
  <2>1. SetsStatus(r) => target[r] \in OrderId
    BY DEF SetsStatus, SessionsOK, SessionOK, PatchSteps
  <2> QED BY <1>1, <2>1 DEF Adds, SetsStatus, Write, TypeOK, TablesTypeOK
<1>4. ~(\E q \in ProductId : Takes(r, q)) /\ ~(\E q \in ProductId : Returns(r, q))
  BY <1>1 DEF Takes, Returns, Covers, Write, TypeOK, TablesTypeOK
<1>5. PICK q \in ProductId : \E version : Edits(r, q, version)
  BY <1>2, <1>3, <1>4, StepKinds
<1>6. PICK version : Edits(r, q, version)
  BY <1>5
<1>7. q = p /\ version # NoRow
  BY <1>1, <1>6 DEF Edits, WriteAndCommit, TypeOK, TablesTypeOK
<1> QED BY <1>6, <1>7 DEF Edits

LEMMA CatalogueAgreedStep ==
  ASSUME Shape, CatalogueAgreed, NEW r \in Session, Call(r) \/ Step(r) \/ Abort(r)
  PROVE  CatalogueAgreed'
<1> USE DEF Shape
<1>1. IsFiniteSet({p \in ProductId : working'[p] # NoRow})
  <2> DEFINE present == {p \in ProductId : working[p] # NoRow}
  <2>1. {p \in ProductId : working'[p] # NoRow} \in SUBSET (present \cup {new_id})
    BY ProductAppears
  <2>2. IsFiniteSet(present \cup {new_id})
    BY FS_AddElement DEF CatalogueAgreed
  <2> QED BY <2>1, <2>2, FS_Subset
<1>2. ASSUME NEW p \in ProductId PROVE committed'[p] = NoRow <=> working'[p] = NoRow
  <2>1. p \in Row /\ p \notin OrderId /\ (committed[p] = NoRow <=> working[p] = NoRow)
    BY KeyAssumption DEF Row, CatalogueAgreed
  <2>2. CASE \E q \in ProductId : q \in todo[r] /\ (Takes(r, q) \/ Returns(r, q))
    <3>1. PICK q \in todo[r] : q \in ProductId /\ (Takes(r, q) \/ Returns(r, q))
      BY <2>2
    <3>2. ordered(r, q) \in Int
      BY <3>1, LineInLoop DEF Takes, Returns, LoopSteps
    <3>3. working[q] \in Product /\ (Returns(r, q) => product[r] \in Product)
      BY <3>1 DEF Takes, Returns, Covers, SessionsOK, SessionOK, TypeOK, TablesTypeOK
    <3>4. PICK n \in Int : Write(r, q, [working[q] EXCEPT !.quantity = n])
      <4>1. CASE Takes(r, q)
        <5>1. working[q].quantity - ordered(r, q) \in Int
          BY <3>2, <3>3 DEF Product
        <5> QED BY <4>1, <5>1 DEF Takes
      <4>2. CASE Returns(r, q)
        <5>1. product[r].quantity + ordered(r, q) \in Int
          BY <3>2, <3>3, <4>2 DEF Product
        <5> QED BY <4>2, <5>1 DEF Returns
      <4> QED BY <3>1, <4>1, <4>2
    <3>5. [working[q] EXCEPT !.quantity = n] # NoRow
      BY <3>3, NoRowAssumption DEF Product
    <3>6. working[q] # NoRow
      BY <3>3, NoRowAssumption
    <3> QED BY <2>1, <3>4, <3>5, <3>6 DEF Write, TypeOK, TablesTypeOK
  <2>3. CASE Quiet(r) \/ Adds(r) \/ SetsStatus(r) \/ Commits(r) \/ RollsBack(r)
    <3>1. SetsStatus(r) => target[r] \in OrderId
      BY DEF SetsStatus, SessionsOK, SessionOK, PatchSteps
    <3> QED BY <2>1, <2>3, <3>1
            DEF Quiet, tables, Adds, SetsStatus, Commits, RollsBack, Write, Commit,
                Rollback, TypeOK, TablesTypeOK
  <2>4. CASE \E q \in ProductId : \E version : Edits(r, q, version)
    BY <2>1, <2>4 DEF Edits, WriteAndCommit, TypeOK, TablesTypeOK
  <2> QED BY <2>2, <2>3, <2>4, StepKinds
<1> QED BY <1>1, <1>2 DEF CatalogueAgreed

-----------------------------------------------------------------------------
(* The ids orders mention                                                  *)
-----------------------------------------------------------------------------

(* The order a session holds is one it held, one it has just put together, *)
(* one it reads now, or none.                                              *)
LEMMA OrderObject ==
  ASSUME Shape, NEW r \in Session, Call(r) \/ Step(r) \/ Abort(r), NEW s \in Session
  PROVE  \/ order'[s] = order[s]
         \/ order'[s] = NoRow
         \/ s = r /\ \E items \in Cart : checkout(r, items)
         \/ \E o \in OrderId : order'[s] \in {committed[o], working[o]}
<1> USE DEF Shape
<1>1. CASE s # r
  BY <1>1, TypeStep DEF StepOK, SameSession
<1>2. CASE s = r /\ OrderServiceCall(r)
  <2>1. CASE \E items \in Cart : checkout_refused(r, items)
    BY <1>2, <2>1 DEF checkout_refused, Respond, TypeOK
  <2>2. CASE \E id \in OrderId, status \in PatchStatus :
               update_status(r, id, status) \/ update_status_not_found(r, id, status)
    BY <1>2, <2>2 DEF update_status, update_status_not_found, Read, Respond, TypeOK
  <2> QED BY <1>2, <2>1, <2>2 DEF OrderServiceCall
<1>3. CASE s = r /\ OrderServiceStep(r)
  <2>1. create_with_line_items(r) \/ decrement_quantity_if_available(r) \/ restock(r)
          \/ restock_product_missing(r) \/ adjust_quantity(r) \/ write_status(r)
          \/ commit_status(r)
        => order' = order
    BY DEF create_with_line_items, decrement_quantity_if_available, restock,
       restock_product_missing, adjust_quantity, write_status, commit_status, session
  <2>2. decrement_insufficient(r) \/ commit_checkout(r) \/ adjust_quantity_stale(r)
          \/ reload(r)
        => order'[r] = NoRow
    BY DEF decrement_insufficient, commit_checkout, adjust_quantity_stale, reload,
       Respond, TypeOK
  <2> QED BY <1>3, <2>1, <2>2 DEF OrderServiceStep
<1>4. CASE s = r /\ ProductServiceCall(r)
  <2>1. CASE \E content \in PostBody :
               create_product(r, content) \/ create_product_duplicate(r, content)
    BY <1>4, <2>1 DEF create_product, create_product_duplicate, session, Respond, TypeOK
  <2>2. CASE \E p \in ProductId, content \in PutBody :
               update_product(r, p, content) \/ update_product_not_found(r, p, content)
    BY <1>4, <2>2 DEF update_product, update_product_not_found, Respond, TypeOK
  <2>3. CASE \E p \in DeleteId : delete_product(r, p) \/ delete_product_not_found(r, p)
    BY <1>4, <2>3 DEF delete_product, delete_product_not_found, Respond, TypeOK
  <2> QED BY <1>4, <2>1, <2>2, <2>3 DEF ProductServiceCall
<1>5. CASE s = r /\ (ProductServiceStep(r) \/ Abort(r))
  BY <1>5 DEF ProductServiceStep, update_commit, update_duplicate, update_stale,
     refresh, delete_commit, Abort, Respond, session, TypeOK
<1> QED BY <1>1, <1>2, <1>3, <1>4, <1>5 DEF Call, Step

(* The lines a step leaves in an order are those of a version of it, or    *)
(* those of the order being added.                                         *)
LEMMA OrderLines ==
  ASSUME Shape, NEW r \in Session, Call(r) \/ Step(r) \/ Abort(r), NEW o \in OrderId,
         working'[o] # NoRow
  PROVE  \/ working[o] # NoRow /\ working'[o].line_items = working[o].line_items
         \/ order[r] # NoRow /\ working'[o] = order[r]
<1> USE DEF Shape
<1>1. o \in Row /\ o \notin ProductId /\ OrderKept(o)
  BY KeyAssumption DEF Row, OrdersKept
<1>2. CASE Adds(r)
  <2>1. order[r] # NoRow
    BY <1>2 DEF Adds, SessionsOK, SessionOK, OrderSteps
  <2> QED BY <1>1, <1>2, <2>1 DEF Adds, Write, TypeOK, TablesTypeOK
<1>3. CASE SetsStatus(r)
  <2>1. CASE o = target[r]
    BY <1>1, <1>3, <2>1, ChangedKeepsOrder DEF SetsStatus, Write, TypeOK, TablesTypeOK
  <2>2. CASE o # target[r]
    BY <1>1, <1>3, <2>2 DEF SetsStatus, Write, TypeOK, TablesTypeOK
  <2> QED BY <2>1, <2>2
<1>4. CASE ~Adds(r) /\ ~SetsStatus(r)
  <2>1. working'[o] \in {working[o], committed[o]}
    BY <1>1, <1>4, StepKinds
    DEF Quiet, tables, Takes, Returns, Commits, RollsBack, Edits, Write,
        Commit, Rollback, WriteAndCommit, TypeOK, TablesTypeOK
  <2> QED BY <1>1, <2>1 DEF OrderKept
<1> QED BY <1>2, <1>3, <1>4

LEMMA IdsHandedOutStep ==
  ASSUME Shape, CatalogueAgreed, IdsHandedOut, NEW r \in Session,
         Call(r) \/ Step(r) \/ Abort(r)
  PROVE  IdsHandedOut'
<1> SUFFICES ASSUME Dialect = "postgresql" PROVE IdsHandedOut'
  BY DEF IdsHandedOut
<1> USE DEF Shape
<1>1. sequence \in Nat /\ sequence' \in Nat /\ sequence <= sequence'
  BY SequenceGrows
<1>2. \A p \in Row : p \in ProductId => p \in Nat
  BY KeyAssumption
<1>3. ASSUME NEW p \in ProductId, working'[p] # NoRow PROVE p <= sequence'
  <2>1. CASE working[p] # NoRow
    BY <1>1, <1>3, <2>1, KeyAssumption DEF IdsHandedOut
  <2>2. CASE working[p] = NoRow
    <3>1. p = 1 + sequence /\ sequence' = sequence + 1
      BY <1>3, <2>2, ProductAppears DEF new_id, take_id
    <3> QED BY <1>1, <3>1
  <2> QED BY <2>1, <2>2
<1>4. ASSUME NEW x \in Order, \A p \in DOMAIN x.line_items : p <= sequence
      PROVE  \A p \in DOMAIN x.line_items : p <= sequence'
  <2>1. DOMAIN x.line_items \subseteq Nat
    BY <1>4, LinesOfOrder, KeyAssumption
  <2> QED BY <1>1, <1>4, <2>1
<1>5. ASSUME NEW o \in OrderId, working'[o] # NoRow
      PROVE  \A p \in DOMAIN working'[o].line_items : p <= sequence'
  <2>1. PICK x \in Order : /\ \A p \in DOMAIN x.line_items : p <= sequence
                           /\ working'[o].line_items = x.line_items
    BY <1>5, OrderLines DEF IdsHandedOut, TypeOK, TablesTypeOK
  <2> QED BY <1>4, <2>1
<1>6. ASSUME NEW s \in Session, order'[s] # NoRow
      PROVE  \A p \in DOMAIN order'[s].line_items : p <= sequence'
  <2>1. CASE order'[s] = order[s]
    <3>1. order[s] \in Order /\ \A p \in DOMAIN order[s].line_items : p <= sequence
      BY <1>6, <2>1 DEF IdsHandedOut, TypeOK
    <3> QED BY <1>4, <2>1, <3>1
  <2>2. CASE \E o \in OrderId : order'[s] \in {committed[o], working[o]}
    <3>1. PICK o \in OrderId : order'[s] \in {committed[o], working[o]}
      BY <2>2
    <3>2. order'[s] \in Order /\ working[o] # NoRow
          /\ order'[s].line_items = working[o].line_items
      BY <1>6, <3>1 DEF OrdersKept, OrderKept, TypeOK, TablesTypeOK
    <3>3. \A p \in DOMAIN order'[s].line_items : p <= sequence
      BY <3>2 DEF IdsHandedOut
    <3> QED BY <1>4, <3>2, <3>3
  <2>3. CASE s = r /\ \E items \in Cart : checkout(r, items)
    <3>1. PICK items \in Cart : checkout(r, items)
      BY <2>3
    <3> DEFINE want == merge_line_items(items)
    <3>2. PICK ids \in (SUBSET ProductId) \ {{}} : want \in [ids -> Quantity]
      BY CartAssumption
    <3>3. Unserved(r, want) = {} /\ order'[r] = new_order(r, want) /\ order'[r] \in Order
      BY <3>1, NewOrderIsOrder DEF checkout, TypeOK
    <3> HIDE DEF want
    <3>4. DOMAIN order'[r].line_items = DOMAIN want /\ DOMAIN want \subseteq ProductId
      BY <3>2, <3>3 DEF new_order
    <3>5. \A p \in DOMAIN want : Read(r, p) # NoRow
      BY <3>3 DEF Unserved, Covers
    <3>6. \A p \in DOMAIN want : working[p] # NoRow
      BY <3>4, <3>5 DEF Read, CatalogueAgreed
    <3>7. \A p \in DOMAIN order'[r].line_items : p <= sequence
      BY <3>4, <3>6 DEF IdsHandedOut
    <3> QED BY <1>4, <2>3, <3>3, <3>7
  <2> QED BY <1>6, <2>1, <2>2, <2>3, OrderObject
<1> QED BY <1>3, <1>5, <1>6 DEF IdsHandedOut

-----------------------------------------------------------------------------
(* Ids are new                                                             *)
-----------------------------------------------------------------------------

(* The server starts with a sequence beyond every id that is mentioned.    *)
LEMMA InitIds ==
  ASSUME Init
  PROVE  /\ CatalogueAgreed /\ IdsHandedOut
         /\ MentionedIds(committed) \subseteq ProductId
         /\ \A p \in MentionedIds(committed) : p <= sequence
<1> DEFINE ids == MentionedIds(committed)
<1>1. TypeOK
  BY InitIInv DEF IInv, Shape
<1>2. ids \subseteq ProductId
  <2>1. \A o \in OrderId : committed[o] # NoRow => committed[o] \in Order
    BY <1>1 DEF TypeOK, TablesTypeOK
  <2> QED BY <2>1, LinesOfOrder DEF MentionedIds
<1>3. ids \in SUBSET Nat /\ IsFiniteSet(ids)
  BY <1>2, KeyAssumption, FiniteTablesAssumption DEF Init
<1>4. \A p \in ids : p <= sequence
  BY <1>3, GreatestBounds DEF Init
<1>5. working = committed /\ \A r \in Session : order[r] = NoRow
  BY DEF Init
<1>6. CatalogueAgreed
  <2>1. {p \in ProductId : working[p] # NoRow} \in SUBSET ids
    BY <1>5 DEF MentionedIds
  <2>2. IsFiniteSet({p \in ProductId : working[p] # NoRow})
    BY <1>3, <2>1, FS_Subset
  <2> QED BY <1>5, <2>2 DEF CatalogueAgreed
<1>7. IdsHandedOut
  BY <1>4, <1>5 DEF IdsHandedOut, MentionedIds
<1> QED BY <1>2, <1>4, <1>6, <1>7

LEMMA NextIds ==
  IInv /\ CatalogueAgreed /\ IdsHandedOut /\ [Next]_vars => (CatalogueAgreed /\ IdsHandedOut)'
<1> SUFFICES ASSUME IInv, CatalogueAgreed, IdsHandedOut, [Next]_vars
             PROVE  (CatalogueAgreed /\ IdsHandedOut)'
  OBVIOUS
<1>1. CASE UNCHANGED vars
  BY <1>1 DEF CatalogueAgreed, IdsHandedOut, vars, tables
<1>2. CASE \E r \in Session : Call(r) \/ Step(r) \/ Abort(r)
  BY <1>2, CatalogueAgreedStep, IdsHandedOutStep DEF IInv
<1> QED BY <1>1, <1>2 DEF Next

(* The INSERT of create_product never meets a row: in the catalogue its id *)
(* is new, on PostgreSQL by the sequence and on SQLite by the greatest id. *)
THEOREM NewIdsAreFree == Spec => [](new_id \in ProductId => working[new_id] = NoRow)
<1>1. Spec => [](CatalogueAgreed /\ IdsHandedOut)
  BY InitIds, NextIds, InductiveInvariant, PTL DEF Spec
<1>2. IInv /\ CatalogueAgreed /\ IdsHandedOut
        => (new_id \in ProductId => working[new_id] = NoRow)
  BY FreshId DEF IInv, Shape
<1> QED BY <1>1, <1>2, InductiveInvariant, PTL

-----------------------------------------------------------------------------
(* Without deletions no PATCH fails, however many requests overlap         *)
-----------------------------------------------------------------------------
LEMMA ProductRemains ==
  ASSUME Shape, CatalogueAgreed, NEW r \in Session, Call(r) \/ Step(r) \/ Abort(r),
         pc[r] # "delete", NEW p \in ProductId, working[p] # NoRow
  PROVE  working'[p] # NoRow
<1> USE DEF Shape
<1>1. p \in Row /\ p \notin OrderId /\ committed[p] # NoRow
  BY KeyAssumption DEF Row, CatalogueAgreed
<1>2. CatalogueAgreed'
  BY CatalogueAgreedStep
<1>3. CASE committed'[p] = committed[p]
  BY <1>1, <1>2, <1>3 DEF CatalogueAgreed
<1>4. CASE Commits(r)
  BY <1>4 DEF Commits, Commit
<1>5. CASE \E q \in ProductId : \E version : Edits(r, q, version)
  <2>1. PICK q \in ProductId : \E version : Edits(r, q, version)
    BY <1>5
  <2> PICK version : Edits(r, q, version)
    BY <2>1
  <2>2. working' = [working EXCEPT ![q] = version]
    BY DEF Edits, WriteAndCommit
  <2>3. version # NoRow
    BY NoRowAssumption DEF Edits
  <2> QED BY <1>1, <2>2, <2>3 DEF TypeOK, TablesTypeOK
<1> QED
  BY <1>3, <1>4, <1>5, StepKinds
  DEF Quiet, tables, Adds, Takes, Returns, SetsStatus, RollsBack, Write, Rollback

(* A handler comes to the write of adjust_quantity by the read before it.  *)
LEMMA NextSteps ==
  ASSUME DeleteId = {}, TypeOK, NEW r \in Session, Call(r) \/ Step(r) \/ Abort(r)
  PROVE  \/ restock(r)
         \/ pc'[r] \notin {"delete", "adjust_quantity"}
<1> USE DEF TypeOK
<1>1. CASE Call(r)
  <2>1. CASE OrderServiceCall(r)
    <3>1. CASE \E items \in Cart : checkout(r, items) \/ checkout_refused(r, items)
      BY <3>1 DEF checkout, checkout_refused, Goto, Respond
    <3>2. CASE \E id \in OrderId, status \in PatchStatus :
                 update_status(r, id, status) \/ update_status_not_found(r, id, status)
      BY <3>2 DEF update_status, update_status_not_found, Goto, Respond
    <3> QED BY <2>1, <3>1, <3>2 DEF OrderServiceCall
  <2>2. CASE ProductServiceCall(r)
    <3>1. CASE \E content \in PostBody :
                 create_product(r, content) \/ create_product_duplicate(r, content)
      BY <3>1 DEF create_product, create_product_duplicate, Goto, Respond
    <3>2. CASE \E p \in ProductId, content \in PutBody :
                 update_product(r, p, content) \/ update_product_not_found(r, p, content)
      BY <3>2 DEF update_product, update_product_not_found, Goto, Respond
    <3> QED BY <2>2, <3>1, <3>2 DEF ProductServiceCall
  <2> QED BY <1>1, <2>1, <2>2 DEF Call
<1>2. CASE OrderServiceStep(r)
  <2>1. create_with_line_items(r) \/ decrement_quantity_if_available(r)
          => pc'[r] \in {"decrement", "commit_checkout"}
    BY DEF create_with_line_items, decrement_quantity_if_available, AfterDecrement, Goto
  <2>2. restock_product_missing(r) \/ adjust_quantity(r)
          => pc'[r] \in {"restock", "update_status"}
    BY DEF restock_product_missing, adjust_quantity, AfterLine, Goto
  <2>3. write_status(r) \/ commit_status(r) => pc'[r] \in {"commit_status", "reload"}
    BY DEF write_status, commit_status, Goto
  <2>4. decrement_insufficient(r) \/ commit_checkout(r) \/ adjust_quantity_stale(r)
          \/ reload(r) => pc'[r] = "done"
    BY DEF decrement_insufficient, commit_checkout, adjust_quantity_stale, reload, Respond
  <2> QED BY <1>2, <2>1, <2>2, <2>3, <2>4 DEF OrderServiceStep
<1>3. CASE ProductServiceStep(r) \/ Abort(r)
  BY <1>3 DEF ProductServiceStep, update_commit, update_duplicate, update_stale, refresh,
     delete_commit, Abort, Goto, Respond
<1> QED BY <1>1, <1>2, <1>3 DEF Step

LEMMA ProductsStayStep ==
  ASSUME DeleteId = {}, Shape, ProductsStay, NEW r \in Session, Call(r) \/ Step(r) \/ Abort(r)
  PROVE  ProductsStay'
<1> USE DEF Shape
<1>1. CatalogueAgreed /\ CatalogueAgreed'
  BY CatalogueAgreedStep DEF ProductsStay
<1>2. \A p \in ProductId : working[p] # NoRow => working'[p] # NoRow
  BY <1>1, ProductRemains DEF ProductsStay
<1>3. \A s \in Session : pc[s] = "adjust_quantity" => product[s].id \in ProductId
  BY DEF SessionsOK, SessionOK, TypeOK
<1>4. ~adjust_quantity_stale(r)
  BY <1>1, <1>3 DEF ProductsStay, CatalogueAgreed, adjust_quantity_stale, Read
<1>5. EndpointOK(r)' /\ (op'[r] = "patch" => reply'[r] # 500)
  BY <1>4, AnswersStep DEF ProductsStay
<1>6. restock(r) \/ pc'[r] \notin {"delete", "adjust_quantity"}
  BY NextSteps
<1>7. restock(r) => pc'[r] = "adjust_quantity" /\ working'[product'[r].id] # NoRow
  <2> SUFFICES ASSUME restock(r)
               PROVE  pc'[r] = "adjust_quantity" /\ working'[product'[r].id] # NoRow
    OBVIOUS
  <2>1. PICK p \in next_lines(r) : Read(r, p) # NoRow /\ product'[r] = Read(r, p)
    BY DEF restock, TypeOK
  <2>2. p \in ProductId /\ p \in Row /\ pc'[r] = "adjust_quantity"
    BY DEF restock, Goto, next_lines, First, TypeOK, Row
  <2>3. working[p] # NoRow /\ product'[r].id = p
    BY <1>1, <2>1, <2>2 DEF Read, CatalogueAgreed, TypeOK, TablesTypeOK
  <2> QED BY <1>2, <2>2, <2>3
<1>8. ASSUME NEW s \in Session, s # r
      PROVE  /\ EndpointOK(s)' /\ (op'[s] = "patch" => reply'[s] # 500)
             /\ pc'[s] # "delete"
             /\ pc'[s] = "adjust_quantity" => working'[product'[s].id] # NoRow
  <2>1. op'[s] = op[s] /\ reply'[s] = reply[s] /\ SameSession(s)
    BY <1>8, OthersAnswers, TypeStep DEF StepOK
  <2> QED BY <1>2, <1>3, <2>1 DEF ProductsStay, PatchNeverErrs, EndpointOK, SameSession
<1>9. PatchNeverErrs'
  BY <1>5, <1>8 DEF PatchNeverErrs
<1>10. \A s \in Session :
         /\ EndpointOK(s)' /\ pc'[s] # "delete"
         /\ pc'[s] = "adjust_quantity" => working'[product'[s].id] # NoRow
  BY <1>5, <1>6, <1>7, <1>8
<1> QED BY <1>1, <1>9, <1>10 DEF ProductsStay

(* As long as nobody deletes products, no PATCH fails, however many        *)
(* requests overlap: only a product that vanishes between the read of the  *)
(* restock and its write can make it fail.                                 *)
THEOREM PatchesSucceed == (DeleteId = {} \/ MaxInFlight = 1) /\ Spec => []PatchNeverErrs
<1>1. CASE MaxInFlight = 1
  BY <1>1, SerialPatchSucceeds, PTL
<1>2. CASE DeleteId = {}
  <2>1. Init => ProductsStay
    <3> SUFFICES ASSUME Init PROVE ProductsStay
      OBVIOUS
    <3>1. CatalogueAgreed
      BY InitIds
    <3> QED BY <3>1, NoReplyAssumption
            DEF Init, ProductsStay, PatchNeverErrs, Codes, EndpointOK, ProductSteps
  <2>2. IInv /\ ProductsStay /\ [Next]_vars => ProductsStay'
    <3>1. ProductsStay /\ UNCHANGED vars => ProductsStay'
      BY DEF ProductsStay, CatalogueAgreed, PatchNeverErrs, EndpointOK, vars, tables
    <3> QED BY <1>2, <3>1, ProductsStayStep DEF Next, IInv
  <2>3. ProductsStay => PatchNeverErrs
    BY DEF ProductsStay
  <2> QED BY <2>1, <2>2, <2>3, InductiveInvariant, PTL DEF Spec
<1> QED BY <1>1, <1>2

-----------------------------------------------------------------------------
(* Stock moves for a reason                                                *)
-----------------------------------------------------------------------------

(* The reasons for which the stock of p moves.                             *)
HasReason(p) ==
  \/ \E o \in OrderId : Appears(o) /\ p \in DOMAIN committed'[o].line_items
  \/ \E o \in OrderId : Restored(o) /\ p \in DOMAIN committed[o].line_items
  \/ \E r \in Session : SetsStock(r, p)

Justified(p) ==
  StockKnown(p) /\ committed'[p].quantity # committed[p].quantity => HasReason(p)

(* A step of Inventory that places, cancels or moves on an order.          *)
LEMMA AbstractJustified ==
  ASSUME TypeOK, NEW o \in OrderId, NEW p \in ProductId,
         Abstract!Place(o) \/ Abstract!Cancel(o) \/ Abstract!SetStatus(o)
  PROVE  Justified(p)
<1>1. Catalogue[p] = committed[p] /\ Catalogue'[p] = committed'[p]
  BY DEF Catalogue
<1>2. Orders[o] = committed[o] /\ Orders'[o] = committed'[o]
  BY DEF Orders
<1>3. CASE Abstract!Place(o)
  <2>1. Appears(o)
    BY <1>2, <1>3 DEF Abstract!Place, Appears
  <2>2. p \notin DOMAIN committed'[o].line_items => committed'[p] = committed[p]
    BY <1>1, <1>2, <1>3 DEF Abstract!Place, Abstract!Moved
  <2> QED BY <2>1, <2>2 DEF Justified, HasReason
<1>4. CASE Abstract!Cancel(o)
  <2>1. committed[o] \in Order /\ committed[o] # NoRow /\ ~committed[o].stock_restored
    BY <1>2, <1>4 DEF Abstract!Cancel, TypeOK, TablesTypeOK
  <2>2. committed'[o] = [[committed[o] EXCEPT !.status = "cancelled"] EXCEPT !.stock_restored = TRUE]
    BY <1>2, <1>4 DEF Abstract!Cancel, Orders
  <2>3. Restored(o)
    BY <2>1, <2>2 DEF Restored, Order
  <2>4. p \notin DOMAIN committed[o].line_items => committed'[p] = committed[p]
    BY <1>1, <1>2, <1>4 DEF Abstract!Cancel, Abstract!Moved
  <2> QED BY <2>3, <2>4 DEF Justified, HasReason
<1>5. CASE Abstract!SetStatus(o)
  BY <1>1, <1>5 DEF Abstract!SetStatus, Justified
<1> QED BY <1>3, <1>4, <1>5

(* An edit: a new product has no stock before, and a PUT that moves stock  *)
(* is its own reason.                                                      *)
LEMMA EditJustified ==
  ASSUME IInv, CatalogueAgreed, IdsHandedOut, NEW r \in Session, NEW q \in ProductId,
         NEW version, Edits(r, q, version), NEW p \in ProductId
  PROVE  Justified(p)
<1> USE DEF IInv, Shape
<1>1. committed'[p] = IF p = q THEN version ELSE committed[p]
  BY DEF Edits, WriteAndCommit, TypeOK, TablesTypeOK, Row
<1>2. CASE p # q \/ version = NoRow
  BY <1>1, <1>2 DEF Justified, StockKnown
<1>3. CASE p = q /\ pc[r] = "idle" /\ p = new_id
  BY <1>3, FreshId DEF CatalogueAgreed, Justified, StockKnown
<1>4. CASE p = q /\ (version.quantity = working[p].quantity \/ SetsStock(r, p))
  <2>1. lock[p] \in {r, NoSession} /\ pc[r] \notin TransactionSteps /\ p \in Row
    BY <1>4 DEF Edits, WriteAndCommit, CanWrite, LockSet, Row
  <2>2. working[p] = committed[p]
    BY <2>1, SessionAssumption DEF NothingLeftBehind
  <2> QED BY <1>1, <1>4, <2>2 DEF Justified, HasReason
<1>5. p = q => \/ version = NoRow
               \/ pc[r] = "idle" /\ p = new_id
               \/ version.quantity = working[p].quantity \/ SetsStock(r, p)
  BY DEF Edits
<1> QED BY <1>2, <1>3, <1>4, <1>5

(* A step that commits, where each commit is one of Inventory's.           *)
LEMMA StepJustified ==
  ASSUME IInv, CatalogueAgreed, IdsHandedOut, NEW r \in Session,
         Call(r) \/ Step(r) \/ Abort(r), NEW p \in ProductId,
         Commits(r) => \E o \in OrderId :
           Abstract!Place(o) \/ Abstract!Cancel(o) \/ Abstract!SetStatus(o)
  PROVE  Justified(p)
<1>1. CASE Commits(r)
  BY <1>1, AbstractJustified DEF IInv, Shape
<1>2. CASE \E q \in ProductId : \E version : Edits(r, q, version)
  BY <1>2, EditJustified
<1>3. CASE committed' = committed
  BY <1>3 DEF Justified
<1> QED
  BY <1>1, <1>2, <1>3, StepKinds
  DEF Quiet, tables, Adds, Takes, Returns, SetsStatus, RollsBack, Write, Rollback,
      IInv, Shape

(* Without cancellations, or one request at a time, every step that moves  *)
(* the stock others read is the commit of a new order's line or of a first *)
(* cancellation's line, or the UPDATE of a PUT that sets another quantity  *)
(* than it loaded.  No retry, failure or rollback moves it, and no PUT of  *)
(* the product that is still waiting covers for another request.           *)
THEOREM StockMovesAreExplained ==
  (NoCancellation \/ MaxInFlight = 1) /\ Spec => StockMovesForAReason
<1> SUFFICES ASSUME NoCancellation \/ MaxInFlight = 1
             PROVE  Spec => StockMovesForAReason
  OBVIOUS
<1> DEFINE Explained == \A p \in ProductId : Justified(p)
<1>1. Spec => [](CatalogueAgreed /\ IdsHandedOut)
  BY InitIds, NextIds, InductiveInvariant, PTL DEF Spec
<1>2. \A r \in Session : Commits(r) /\ IInv =>
        (pc[r] = "commit_checkout" \/ pc[r] = "commit_status") /\ target[r] \in OrderId
  BY DEF Commits, IInv, Shape, SessionsOK, SessionOK, CheckoutSteps, PatchSteps
<1>3. CASE NoCancellation
  <2>1. Init => PlainPatches
    BY InitImplements
  <2>2. IInv /\ PlainPatches /\ [Next]_vars => PlainPatches'
    BY NextPlain, <1>3
  <2>3. IInv /\ PlainPatches /\ CatalogueAgreed /\ IdsHandedOut /\ [Next]_vars
          => [Explained]_vars
    BY <1>2, StepJustified, CommitPlaces, CommitSetsStatus DEF Next
  <2> QED BY <1>1, <2>1, <2>2, <2>3, InductiveInvariant, PTL
          DEF Spec, StockMovesForAReason, Justified, HasReason
<1>4. CASE MaxInFlight = 1
  <2>1. IInv /\ SerialInv /\ CatalogueAgreed /\ IdsHandedOut /\ [Next]_vars
          => [Explained]_vars
    BY <1>2, <1>4, StepJustified, CommitPlaces, CommitCancels, CommitMovesOn DEF Next
  <2>2. Spec => []SerialInv
    BY <1>4, SerialInvariant
  <2> QED BY <1>1, <2>1, <2>2, InductiveInvariant, PTL
          DEF Spec, StockMovesForAReason, Justified, HasReason
<1> QED BY <1>3, <1>4

-----------------------------------------------------------------------------
(* The history                                                             *)
-----------------------------------------------------------------------------
LEMMA GoneForGoodStep ==
  ASSUME Dialect = "postgresql", Shape, HistoryInv, NEW r \in Session,
         Call(r) \/ Step(r) \/ Abort(r), Shape', CatalogueAgreed', IdsHandedOut',
         gone' = [o \in OrderId |-> gone[o] \cup Missing(committed, o)']
  PROVE  GoneForGood'
<1> SUFFICES ASSUME NEW o \in OrderId, NEW p \in gone'[o]
             PROVE  p \in ProductId /\ p <= sequence' /\ working'[p] = NoRow
  BY DEF GoneForGood
<1>1. CASE p \in gone[o]
  <2>1. p \in ProductId /\ p \in Nat /\ p <= sequence /\ working[p] = NoRow
    BY <1>1, KeyAssumption DEF HistoryInv, GoneForGood
  <2>2. sequence \in Nat /\ sequence' \in Nat /\ sequence <= sequence'
    BY SequenceGrows
  <2>3. p # new_id
    BY <2>1, <2>2 DEF new_id
  <2>4. working'[p] = NoRow
    BY <2>1, <2>3, ProductAppears DEF HistoryInv
  <2> QED BY <2>1, <2>2, <2>4
<1>2. CASE p \notin gone[o]
  <2>1. /\ committed'[o] # NoRow /\ p \in DOMAIN committed'[o].line_items
        /\ committed'[p] = NoRow
    BY <1>2 DEF Missing
  <2>2. working'[o] # NoRow /\ working'[o].line_items = committed'[o].line_items
    BY <2>1 DEF Shape, OrdersKept, OrderKept
  <2>3. p \in ProductId
    <3>1. committed'[o] \in Order
      BY <2>1 DEF Shape, TypeOK, TablesTypeOK
    <3> QED BY <2>1, <3>1, LinesOfOrder
  <2>4. p <= sequence'
    BY <2>1, <2>2 DEF IdsHandedOut
  <2> QED BY <2>1, <2>3, <2>4 DEF CatalogueAgreed
<1> QED BY <1>1, <1>2

LEMMA InitHistory == HistoryInit => HistoryInv
<1> SUFFICES ASSUME HistoryInit PROVE HistoryInv
  OBVIOUS
<1>1. /\ CatalogueAgreed /\ IdsHandedOut /\ working = committed
      /\ MentionedIds(committed) \subseteq ProductId
      /\ \A p \in MentionedIds(committed) : p <= sequence
  BY InitIds DEF HistoryInit, Init
<1>2. GoneForGood
  <2> SUFFICES ASSUME NEW o \in OrderId, NEW p \in gone[o]
               PROVE  p \in ProductId /\ p <= sequence /\ working[p] = NoRow
    BY DEF GoneForGood
  <2>1. /\ committed[o] # NoRow /\ p \in DOMAIN committed[o].line_items
        /\ committed[p] = NoRow
    BY DEF HistoryInit, Missing
  <2>2. p \in MentionedIds(committed)
    BY <2>1 DEF MentionedIds
  <2> QED BY <1>1, <2>1, <2>2
<1> QED BY <1>1, <1>2 DEF HistoryInv

LEMMA NextHistory ==
  Dialect = "postgresql" /\ IInv /\ IInv' /\ HistoryInv /\ [HistoryNext]_<<vars, gone>>
    => HistoryInv'
<1> SUFFICES ASSUME Dialect = "postgresql", IInv, IInv', HistoryInv,
                    [HistoryNext]_<<vars, gone>>
             PROVE  HistoryInv'
  OBVIOUS
<1>1. CASE UNCHANGED <<vars, gone>>
  BY <1>1 DEF HistoryInv, CatalogueAgreed, IdsHandedOut, GoneForGood, vars, tables
<1>2. CASE HistoryNext
  <2>1. PICK r \in Session : Call(r) \/ Step(r) \/ Abort(r)
    BY <1>2 DEF HistoryNext, Next
  <2>2. CatalogueAgreed' /\ IdsHandedOut'
    BY <2>1, CatalogueAgreedStep, IdsHandedOutStep DEF IInv, HistoryInv
  <2>3. GoneForGood'
    BY <1>2, <2>1, <2>2, GoneForGoodStep DEF IInv, HistoryNext
  <2> QED BY <2>2, <2>3 DEF HistoryInv
<1> QED BY <1>1, <1>2

(* A history only looks on.                                                *)
LEMMA HistoryIInv == HistorySpec => []IInv
<1>1. HistoryInit => IInv
  BY InitIInv DEF HistoryInit
<1>2. IInv /\ [HistoryNext]_<<vars, gone>> => IInv'
  <2>1. [HistoryNext]_<<vars, gone>> => [Next]_vars
    BY DEF HistoryNext
  <2> QED BY <2>1, NextIInv
<1> QED BY <1>1, <1>2, PTL DEF HistorySpec

(* PostgreSQL: every id an order mentions has been handed out, and the id  *)
(* of a deleted product of an order is never in the catalogue again,       *)
(* because the sequence that new_id draws from never goes back.            *)
THEOREM HistoryInvariant == Dialect = "postgresql" /\ HistorySpec => []HistoryInv
<1> SUFFICES ASSUME Dialect = "postgresql" PROVE HistorySpec => []HistoryInv
  OBVIOUS
<1>1. HistoryInit => HistoryInv
  BY InitHistory
<1>2. IInv /\ IInv' /\ HistoryInv /\ [HistoryNext]_<<vars, gone>> => HistoryInv'
  BY NextHistory
<1> QED BY <1>1, <1>2, HistoryIInv, PTL DEF HistorySpec

(* PostgreSQL: the commit of a cancellation changes no product that was    *)
(* deleted since the order was placed.                                     *)
THEOREM RestockSkipsDeletedProducts ==
  Dialect = "postgresql" /\ HistorySpec => RestockSkipsDeleted
<1> SUFFICES ASSUME Dialect = "postgresql" PROVE HistorySpec => RestockSkipsDeleted
  OBVIOUS
<1> DEFINE Skips ==
      \A o \in OrderId : Restored(o) => \A p \in gone[o] : committed'[p] = committed[p]
<1>1. IInv /\ HistoryInv /\ [HistoryNext]_<<vars, gone>> => [Skips]_<<vars, gone>>
  <2> SUFFICES ASSUME IInv, HistoryInv, HistoryNext, NEW o \in OrderId, Restored(o),
                      NEW p \in gone[o]
               PROVE  committed'[p] = committed[p]
    OBVIOUS
  <2> USE DEF IInv, Shape
  <2>1. PICK r \in Session : Call(r) \/ Step(r) \/ Abort(r)
    BY DEF HistoryNext, Next
  <2>2. /\ o \in Row /\ o \notin ProductId /\ committed'[o] # committed[o]
        /\ p \in Row /\ working[p] = NoRow /\ committed[p] = NoRow
    BY KeyAssumption DEF Restored, Row, HistoryInv, GoneForGood, CatalogueAgreed
  <2>3. Commits(r)
    BY <2>1, <2>2, StepKinds
    DEF Quiet, tables, Adds, Takes, Returns, SetsStatus, RollsBack, Edits, Write,
        Rollback, WriteAndCommit, TypeOK, TablesTypeOK
  <2> QED BY <2>2, <2>3 DEF Commits, Commit, TypeOK, TablesTypeOK
<1> QED BY <1>1, HistoryIInv, HistoryInvariant, PTL DEF HistorySpec, RestockSkipsDeleted
=============================================================================
