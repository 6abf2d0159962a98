------------------------- MODULE ShopInventoryProofs -------------------------
(***************************************************************************)
(* Without cancellations, Shop implements Inventory, however its requests  *)
(* overlap.                                                                *)
(***************************************************************************)
EXTENDS ShopProofs, ShopInventory

(* A PATCH that cancels nothing restocks nothing; it writes nothing before *)
(* its UPDATE of the order, and that changes the status only.              *)
PlainPatch(r) ==
  /\ pc[r] \in PatchSteps =>
       pc[r] \notin {"restock", "adjust_quantity"} /\ body[r].status # "cancelled"
  /\ pc[r] = "update_status" => \A x \in Row : lock[x] # r
  /\ pc[r] = "commit_status" =>
       /\ lock[target[r]] = r
       /\ working[target[r]]
            = [committed[target[r]] EXCEPT !.status = working[target[r]].status]
       /\ \A x \in Row : lock[x] = r /\ x # target[r] => working[x] = committed[x]

PlainPatches == \A r \in Session : PlainPatch(r)

LEMMA PlainPatchesStep ==
  ASSUME NoCancellation, Shape, PlainPatches,
         NEW r \in Session, Call(r) \/ Step(r) \/ Abort(r)
  PROVE  PlainPatches'
<1> SUFFICES ASSUME NEW s \in Session PROVE PlainPatch(s)'
  BY DEF PlainPatches
<1> USE DEF Shape
<1>1. CASE s # r
  <2>1. /\ pc'[s] = pc[s] /\ target'[s] = target[s] /\ body'[s] = body[s]
    BY <1>1, TypeStep DEF StepOK, SameSession
  <2>2. PlainPatch(s)
    BY DEF PlainPatches
  <2>3. ASSUME pc[s] = "commit_status"
        PROVE  /\ lock'[target[s]] = s
               /\ working'[target[s]] = working[target[s]]
               /\ committed'[target[s]] = committed[target[s]]
    <3>1. target[s] \in Row /\ lock[target[s]] = s
      BY <2>2, <2>3 DEF PlainPatch, SessionsOK, SessionOK, PatchSteps, Row
    <3> QED BY <1>1, <3>1, Undisturbed
  <2>4. \A x \in Row : lock'[x] = s => lock[x] = s
    BY <1>1, Undisturbed
  <2>5. ASSUME NEW x \in Row, lock[x] = s
        PROVE  working'[x] = working[x] /\ committed'[x] = committed[x]
    BY <1>1, <2>5, Undisturbed
  <2> QED BY <2>1, <2>2, <2>3, <2>4, <2>5 DEF PlainPatch
<1>2. CASE s = r /\ pc'[r] \notin PatchSteps
  BY <1>2 DEF PlainPatch, PatchSteps
<1>3. CASE s = r /\ \E id \in OrderId, status \in PatchStatus : update_status(r, id, status)
  <2>1. PICK id \in OrderId, status \in PatchStatus : update_status(r, id, status)
    BY <1>3
  <2>2. status # "cancelled"
    BY DEF NoCancellation
  <2>3. pc'[r] = "update_status" /\ body'[r].status = status /\ lock' = lock
    BY <2>1, <2>2 DEF update_status, should_restock, Goto, Called, tables, TypeOK
  <2>4. \A x \in Row : lock[x] # r
    BY <2>1, SessionAssumption
    DEF update_status, Admit, NothingLeftBehind, TransactionSteps
  <2> QED BY <1>3, <2>2, <2>3, <2>4 DEF PlainPatch
<1>4. CASE s = r /\ write_status(r)
  <2> DEFINE id == target[r]
             new == changed(r, working[id])
  <2>1. /\ pc[r] = "update_status" /\ pc'[r] = "commit_status" /\ Write(r, id, new)
        /\ target' = target /\ body' = body /\ id \in OrderId /\ id \in Row
    BY <1>4 DEF write_status, Goto, handler, SessionsOK, SessionOK, PatchSteps, TypeOK, Row
  <2>2. (\A x \in Row : lock[x] # r) /\ body[r].status # "cancelled"
    BY <2>1 DEF PlainPatches, PlainPatch, PatchSteps
  <2>3. id \in LockSet(id) /\ CanWrite(r, id)
    BY <2>1 DEF LockSet, Write
  <2>4. \A x \in LockSet(id) : x \in Row /\ working[x] = committed[x]
    BY <2>1, <2>2, <2>3, FreeIsCommitted DEF LockSet
  <2>5. new = [committed[id] EXCEPT !.status = new.status]
    <3>1. working[id] \in Order /\ new \in Order
      BY <2>1, ChangedKeepsOrder
    <3>2. new.line_items = working[id].line_items
          /\ new.stock_restored = working[id].stock_restored
      BY <2>1, <2>2, <3>1, ChangedKeepsOrder DEF should_restock, Order
    <3>3. working[id] = committed[id]
      BY <2>3, <2>4
    <3> HIDE DEF new
    <3> QED BY <3>1, <3>2, <3>3 DEF Order
  <2>6. working'[id] = new /\ committed' = committed /\ lock'[id] = r
    BY <2>1, <2>3 DEF Write, TypeOK, TablesTypeOK
  <2>7. ASSUME NEW x \in Row, lock'[x] = r, x # id PROVE working'[x] = committed'[x]
    BY <2>1, <2>2, <2>4, <2>7 DEF Write, TypeOK, TablesTypeOK
  <2> HIDE DEF new
  <2> QED BY <1>4, <2>1, <2>2, <2>5, <2>6, <2>7 DEF PlainPatch
<1>5. CASE s = r /\ commit_status(r)
  <2>1. pc[r] = "commit_status" /\ pc'[r] = "reload" /\ body' = body
    BY <1>5 DEF commit_status, Goto, handler, TypeOK
  <2> QED BY <1>5, <2>1 DEF PlainPatches, PlainPatch, PatchSteps
<1>6. ~(restock(r) \/ restock_product_missing(r) \/ adjust_quantity(r))
  BY DEF restock, restock_product_missing, adjust_quantity, PlainPatches, PlainPatch,
         PatchSteps
<1> QED BY <1>1, <1>2, <1>3, <1>4, <1>5, <1>6, PatchStepKinds

-----------------------------------------------------------------------------
(* Each step is a step of Inventory or a stutter                           *)
-----------------------------------------------------------------------------
LEMMA CommitPlaces ==
  ASSUME IInv, NEW r \in Session, Call(r) \/ Step(r) \/ Abort(r),
         Commits(r), pc[r] = "commit_checkout"
  PROVE  Abstract!Place(target[r])
<1> USE DEF IInv, Shape
<1> DEFINE o == target[r]
           lines == order[r].line_items
<1>1. /\ o \in OrderId /\ o \in Row /\ o \notin ProductId /\ todo[r] = {}
      /\ order[r] \in Order /\ order[r] # NoRow
      /\ order[r].status = "pending" /\ ~order[r].stock_restored
  BY KeyAssumption
  DEF SessionsOK, SessionOK, CheckoutSteps, OrderSteps, Row, TypeOK
<1>2. DOMAIN lines \subseteq ProductId
  BY <1>1, LinesOfOrder
<1>3. CheckoutOpen(r) /\ pc[r] \in CheckoutSteps
  BY DEF CheckoutsOpen, CheckoutSteps
<1>4. \A x \in Row : committed'[x] = IF lock[x] = r THEN working[x] ELSE committed[x]
  BY DEF Commits, Commit
<1>5. committed[o] = NoRow /\ committed'[o] = order[r]
  BY <1>1, <1>3, <1>4 DEF CheckoutOpen
<1>6. ASSUME NEW x \in Row, x # o, x \notin DOMAIN lines PROVE committed'[x] = committed[x]
  BY <1>1, <1>3, <1>4, <1>6 DEF CheckoutOpen
<1>7. order[r] = [status |-> "pending", stock_restored |-> FALSE, line_items |-> lines]
  BY <1>1 DEF Order
<1>8. Orders' = [Orders EXCEPT ![o] = order[r]]
  <2>1. ASSUME NEW x \in OrderId PROVE committed'[x] = IF x = o THEN order[r] ELSE committed[x]
    BY <1>2, <1>5, <1>6, KeyAssumption DEF Row
  <2> QED BY <1>1, <2>1 DEF Orders
<1>9. ASSUME NEW p \in DOMAIN lines
      PROVE  /\ committed[p] # NoRow /\ committed[p].quantity >= lines[p].quantity
             /\ committed'[p] = [committed[p] EXCEPT !.quantity = @ - lines[p].quantity]
  <2>1. Decremented(r, p) /\ p \in Row /\ p \in ProductId
    BY <1>1, <1>2, <1>3 DEF CheckoutOpen, Row
  <2> QED BY <1>4, <2>1 DEF Decremented, Covers, ordered
<1>10. Catalogue' = Abstract!Moved(lines, -1)
  <2>1. ASSUME NEW p \in ProductId
        PROVE  committed'[p] = IF p \in DOMAIN lines /\ committed[p] # NoRow
                 THEN [committed[p] EXCEPT !.quantity = @ + (-1) * lines[p].quantity]
                 ELSE committed[p]
    <3>1. CASE p \in DOMAIN lines
      <4>1. committed[p] \in Product /\ lines[p].quantity \in Nat
        BY <1>1, <1>9, <3>1, LinesOfOrder DEF TypeOK, TablesTypeOK
      <4>2. committed[p].quantity - lines[p].quantity
              = committed[p].quantity + (-1) * lines[p].quantity
        BY <4>1 DEF Product
      <4> QED BY <1>9, <3>1, <4>2
    <3>2. CASE p \notin DOMAIN lines
      BY <1>1, <1>6, <3>2 DEF Row
    <3> QED BY <3>1, <3>2
  <2> HIDE DEF lines
  <2> QED BY <2>1 DEF Catalogue, Abstract!Moved
<1>11. /\ Orders[o] = NoRow /\ Orders'[o] # NoRow /\ Orders'[o].line_items = lines
       /\ \A p \in DOMAIN lines : Catalogue[p] = committed[p]
  BY <1>1, <1>2, <1>5 DEF Orders, Catalogue
<1> QED BY <1>7, <1>8, <1>9, <1>10, <1>11 DEF Abstract!Place

LEMMA CommitSetsStatus ==
  ASSUME IInv, PlainPatches, NEW r \in Session, Commits(r), pc[r] = "commit_status"
  PROVE  Abstract!SetStatus(target[r])
<1> USE DEF IInv, Shape
<1> DEFINE o == target[r]
           status == working[o].status
<1>1. o \in OrderId /\ o \in Row /\ o \notin ProductId /\ committed[o] # NoRow
  BY KeyAssumption DEF PatchesLoaded, LoadedOK, SessionsOK, SessionOK, PatchSteps, Row
<1>2. /\ lock[o] = r
      /\ working[o] = [committed[o] EXCEPT !.status = status]
      /\ \A x \in Row : lock[x] = r /\ x # o => working[x] = committed[x]
  BY DEF PlainPatches, PlainPatch
<1>3. \A x \in Row : committed'[x] = IF x = o THEN working[o] ELSE committed[x]
  BY <1>1, <1>2 DEF Commits, Commit
<1>4. committed[o] \in Order /\ working[o] \in Order /\ working[o] # NoRow
  BY <1>1 DEF OrdersKept, OrderKept, TypeOK, TablesTypeOK
<1>5. status = "cancelled" => committed[o].stock_restored
  <2>1. status = "cancelled" => working[o].stock_restored
    BY <1>1, <1>4 DEF CancelledRestored, RestoredIfCancelled
  <2>2. working[o].stock_restored = committed[o].stock_restored
    BY <1>2, <1>4 DEF Order
  <2> QED BY <2>1, <2>2
<1>6. Orders' = [Orders EXCEPT ![o].status = status]
  <2>1. ASSUME NEW x \in OrderId
        PROVE  committed'[x] = IF x = o THEN [committed[o] EXCEPT !.status = status]
                                        ELSE committed[x]
    BY <1>2, <1>3 DEF Row
  <2> HIDE DEF status
  <2> QED BY <1>1, <2>1 DEF Orders
<1>7. Catalogue' = Catalogue
  BY <1>1, <1>3, KeyAssumption DEF Catalogue, Row
<1>8. Orders[o] = committed[o] /\ Orders'[o].status = status
  BY <1>1, <1>3 DEF Orders
<1> QED BY <1>1, <1>5, <1>6, <1>7, <1>8 DEF Abstract!SetStatus

LEMMA EditChanges ==
  ASSUME IInv, IInv', NEW r \in Session, NEW p \in ProductId, NEW version,
         Edits(r, p, version)
  PROVE  Abstract!Change(p)
<1> USE DEF IInv, Shape
<1>1. \A x \in Row : committed'[x] = IF x = p THEN version ELSE committed[x]
  BY DEF Edits, WriteAndCommit, TypeOK, TablesTypeOK
<1>2. Orders' = Orders
  BY <1>1, KeyAssumption DEF Orders, Row
<1>3. Catalogue' = [Catalogue EXCEPT ![p] = Catalogue'[p]]
  BY <1>1 DEF Catalogue, Row
<1>4. Catalogue'[p] # NoRow => Catalogue'[p].quantity >= 0
  BY DEF StockNotNegative, NoDebt, Catalogue
<1> QED BY <1>2, <1>3, <1>4 DEF Abstract!Change

LEMMA NextImplements ==
  ASSUME IInv, IInv', PlainPatches, NEW r \in Session, Call(r) \/ Step(r) \/ Abort(r)
  PROVE  Abstract!Next \/ UNCHANGED <<Catalogue, Orders>>
<1>1. CASE Commits(r)
  <2>1. pc[r] = "commit_checkout" \/ pc[r] = "commit_status"
    BY <1>1 DEF Commits
  <2>2. target[r] \in OrderId
    BY <2>1 DEF IInv, Shape, SessionsOK, SessionOK, CheckoutSteps, PatchSteps
  <2> QED BY <1>1, <2>1, <2>2, CommitPlaces, CommitSetsStatus DEF Abstract!Next
<1>2. CASE \E p \in ProductId : \E version : Edits(r, p, version)
  BY <1>2, EditChanges DEF Abstract!Next
<1>3. CASE committed' = committed
  BY <1>3 DEF Catalogue, Orders
<1> QED
  BY <1>1, <1>2, <1>3, StepKinds
  DEF Quiet, tables, Adds, Takes, Returns, SetsStatus, RollsBack, Write, Rollback,
      IInv, Shape

LEMMA NextPlain == NoCancellation /\ IInv /\ PlainPatches /\ [Next]_vars => PlainPatches'
<1>1. PlainPatches /\ UNCHANGED vars => PlainPatches'
  BY DEF PlainPatches, PlainPatch, vars, tables
<1> QED BY <1>1, PlainPatchesStep DEF Next, IInv

LEMMA InitImplements == Init => Abstract!Init /\ PlainPatches
<1> SUFFICES ASSUME Init PROVE Abstract!Init /\ PlainPatches
  OBVIOUS
<1>1. Legal(committed)
  BY InitialTablesAssumption DEF Init
<1>2. Abstract!Init
  BY <1>1 DEF Legal, Abstract!Init, Catalogue, Orders
<1>3. PlainPatches
  BY DEF Init, PlainPatches, PlainPatch, PatchSteps
<1> QED BY <1>2, <1>3

(* When no PATCH asks for a cancellation, the tables other sessions read   *)
(* change as the Inventory's do: an order and its decrements in one step,  *)
(* a status alone, or one product alone, however requests overlap or fail. *)
THEOREM Refinement == NoCancellation /\ Spec => ImplementsInventory
<1> SUFFICES ASSUME NoCancellation PROVE Spec => ImplementsInventory
  OBVIOUS
<1>1. Init => Abstract!Init /\ PlainPatches
  BY InitImplements
<1>2. IInv /\ PlainPatches /\ [Next]_vars => PlainPatches'
  BY NextPlain
<1>3. IInv /\ IInv' /\ PlainPatches /\ [Next]_vars
        => [Abstract!Next]_<<Catalogue, Orders>>
  <2>1. UNCHANGED vars => UNCHANGED <<Catalogue, Orders>>
    BY DEF vars, tables, Catalogue, Orders
  <2> QED BY <2>1, NextImplements DEF Next
<1> QED
  BY <1>1, <1>2, <1>3, InductiveInvariant, PTL DEF Spec, ImplementsInventory, Abstract!Spec
=============================================================================
