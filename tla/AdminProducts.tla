---------------------------- MODULE AdminProducts ----------------------------
(***************************************************************************)
(* AdminProducts.jsx and productPayload.js: a list of products, one form   *)
(* for whichever product is edited, and requests whose answers reload the  *)
(* list.  A row abstracts a product to its sku and its quantity.  history: *)
(* `of` and `listed` are the product and the row a form was opened from,   *)
(* `typed` the fields the admin has changed since.                         *)
(***************************************************************************)
EXTENDS BrowserState

ProductsSettled == saving = None /\ removing = None /\ Quiet(loads)
AdminMayAct == patient => ProductsSettled

EMPTY_FORM == [sku |-> "", quantity |-> 0, of |-> "new", listed |-> None, typed |-> {}]

productToForm(p) ==
  [sku |-> list[p].sku, quantity |-> list[p].quantity,
   of |-> p, listed |-> list[p], typed |-> {}]

(* A body without the quantity.                                            *)
body_without_quantity == [sku |-> form.sku]

toProductWrite == [sku |-> form.sku, quantity |-> form.quantity]

load == loads' \in Launched(loads, [rows |-> None]) /\ loading' = TRUE

ServeLoad(c) ==
  /\ loads[c] # None /\ loads[c].rows = None
  /\ loads' = [loads EXCEPT ![c].rows = catalogue]
  /\ UNCHANGED <<list, loading, editing, form, saving, removing, shop>>

(* The answer, or the error after which the old list stays.                *)
LoadArrives(c) ==
  /\ loads[c] # None
  /\ \/ loads[c].rows # None /\ list' = loads[c].rows
     \/ UNCHANGED list
  /\ loads' = [loads EXCEPT ![c] = None] /\ loading' = FALSE
  /\ UNCHANGED <<editing, form, saving, removing, shop>>

(* An edit that leaves the form of the product before.                     *)
start_edit_keeping_form(p) ==
  /\ AdminMayAct /\ ~loading /\ list[p] # None
  /\ editing' = p
  /\ UNCHANGED <<list, loads, loading, form, saving, removing, shop>>

(* The list is shown, and its buttons with it, unless it is loading.       *)
startEdit(p) ==
  /\ AdminMayAct /\ ~loading /\ list[p] # None
  /\ editing' = p /\ form' = productToForm(p)
  /\ UNCHANGED <<list, loads, loading, saving, removing, shop>>

startCreate ==
  /\ AdminMayAct
  /\ editing' = "new" /\ form' = EMPTY_FORM
  /\ UNCHANGED <<list, loads, loading, saving, removing, shop>>

cancel == editing' = None /\ form' = EMPTY_FORM

Cancel ==
  /\ AdminMayAct /\ editing # None /\ cancel
  /\ UNCHANGED <<list, loads, loading, saving, removing, shop>>

(* The form stays open to typing while a save is under way.                *)
Type ==
  /\ AdminMayAct /\ editing # None
  /\ \/ \E s \in Sku : form' = [form EXCEPT !.sku = s, !.typed = @ \cup {"sku"}]
     \/ \E n \in Quantity :
          form' = [form EXCEPT !.quantity = n, !.typed = @ \cup {"quantity"}]
  /\ UNCHANGED <<list, loads, loading, editing, saving, removing, shop>>

(* save, up to its request: a POST for "new", else a PUT of the whole row. *)
save ==
  /\ AdminMayAct /\ editing # None /\ saving = None /\ form.sku # ""
  /\ saving' = [key |-> editing, body |-> toProductWrite, stage |-> "sent",
                of |-> form.of, listed |-> form.listed, typed |-> form.typed]
  /\ UNCHANGED <<list, loads, loading, editing, form, removing, shop>>

(* The shop stores the row, unless another product has its sku.            *)
Stored(p) ==
  /\ IF saving.key = "new" THEN catalogue[p] = None
                           ELSE p = saving.key /\ catalogue[p] # None
  /\ \A q \in Product \ {p} : catalogue[q] # None => catalogue[q].sku # saving.body.sku
  /\ catalogue' = [catalogue EXCEPT ![p] = saving.body]
  /\ Shop!Change(p)

ServeSave ==
  /\ saving # None /\ saving.stage = "sent"
  /\ \/ (\E p \in Product : Stored(p)) /\ saving' = [saving EXCEPT !.stage = "ok"]
     \/ saving' = [saving EXCEPT !.stage = "refused"] /\ UNCHANGED shop
  /\ UNCHANGED <<list, loads, loading, editing, form, removing>>

(* After a success the form is closed, whichever it is by now, and the     *)
(* list reloaded; after a failure or a lost answer it stays as it is.      *)
SaveAnswered ==
  /\ saving # None
  /\ \/ saving.stage = "ok" /\ cancel /\ load
     \/ UNCHANGED <<editing, form, loads, loading>>
  /\ saving' = None
  /\ UNCHANGED <<list, removing, shop>>

remove(p) ==
  /\ AdminMayAct /\ ~loading /\ list[p] # None /\ removing = None
  /\ removing' = [key |-> p, stage |-> "sent"]
  /\ UNCHANGED <<list, loads, loading, editing, form, saving, shop>>

ServeRemove ==
  /\ removing # None /\ removing.stage = "sent"
  /\ \/ /\ catalogue' = [catalogue EXCEPT ![removing.key] = None]
        /\ Shop!Change(removing.key)
        /\ removing' = [removing EXCEPT !.stage = "ok"]
     \/ removing' = [removing EXCEPT !.stage = "refused"] /\ UNCHANGED shop
  /\ UNCHANGED <<list, loads, loading, editing, form, saving>>

RemoveAnswered ==
  /\ removing # None
  /\ \/ removing.stage = "ok" /\ load
     \/ UNCHANGED <<loads, loading>>
  /\ removing' = None
  /\ UNCHANGED <<list, editing, form, saving, shop>>

ManageProducts ==
  \/ \E c \in Request : ServeLoad(c) \/ LoadArrives(c)
  \/ \E p \in Product : startEdit(p) \/ ("removals" \in acting /\ remove(p))
  \/ startCreate \/ Cancel \/ Type
  \/ save \/ ServeSave \/ SaveAnswered \/ ServeRemove \/ RemoveAnswered
=============================================================================
