--------------------------- MODULE ProductService ---------------------------
(***************************************************************************)
(* ProductService's create_product, update_product and delete_product with *)
(* the repository methods of the same names: POST /products, PUT and       *)
(* DELETE /products/{id}.  Their single write and its commit are one       *)
(* action: no other statement can tell them apart.                         *)
(***************************************************************************)
EXTENDS ShopState

CONSTANTS
  PostBody,      \* the products admins add
  PutBody,       \* the contents admins give to a product
  DeleteId       \* the products admins delete

ASSUME BodyAssumption == PostBody \subseteq ProductWrite /\ PutBody \subseteq ProductWrite
ASSUME DeleteIdAssumption == DeleteId \subseteq ProductId

(* Another product than p has this sku: the unique index refuses it.       *)
DuplicateSku(p, sku) ==
  \E q \in ProductId \ {p} : working[q] # NoRow /\ working[q].sku = sku

(***************************************************************************)
(* POST /products                                                          *)
(***************************************************************************)

(* The id after the greatest one in the table, on any database.            *)
new_id_after_greatest == 1 + Greatest({p \in ProductId : working[p] # NoRow})

(* The key the INSERT gets.  PostgreSQL's sequence never goes back; SQLite *)
(* takes the id after the greatest one in the table, so that the id of a   *)
(* product deleted at the end of the table is given out again.             *)
new_id ==
  1 + (IF Dialect = "sqlite" THEN Greatest({p \in ProductId : working[p] # NoRow})
                             ELSE sequence)

(* Every INSERT takes a value of PostgreSQL's sequence, a refused one too. *)
take_id == sequence' = IF Dialect = "sqlite" THEN sequence ELSE sequence + 1

create_product(r, content) ==
  /\ Admit(r)
  /\ new_id \in ProductId
  /\ ~DuplicateSku(new_id, content.sku)
  /\ WriteAndCommit(r, new_id,
       [id |-> new_id, sku |-> content.sku, price |-> content.price,
        quantity |-> content.quantity])
  /\ take_id
  /\ Called(r, "post", new_id, NoRow)
  /\ Goto(r, "refresh")
  /\ UNCHANGED session

(* IntegrityError on the sku's unique index.                               *)
create_product_duplicate(r, content) ==
  /\ Admit(r)
  /\ new_id \in ProductId
  /\ DuplicateSku(new_id, content.sku)
  /\ CanWrite(r, new_id)
  /\ take_id
  /\ Called(r, "post", NoRow, NoRow)
  /\ Respond(r, 409)
  /\ UNCHANGED tables

(***************************************************************************)
(* PUT /products/{id}                                                      *)
(***************************************************************************)
update_product(r, p, content) ==
  /\ Admit(r)
  /\ Read(r, p) # NoRow
  /\ product' = [product EXCEPT ![r] = Read(r, p)]
  /\ Called(r, "put", p, content)
  /\ Goto(r, "update")
  /\ UNCHANGED <<tables, order, todo, sequence>>

update_product_not_found(r, p, content) ==
  /\ Admit(r)
  /\ Read(r, p) = NoRow
  /\ Called(r, "put", p, content)
  /\ Respond(r, 404)
  /\ UNCHANGED <<tables, sequence>>

(* An UPDATE of every column of the form, changed or not.                  *)
assigned_all(r, row) ==
  [id |-> row.id, sku |-> body[r].sku, price |-> body[r].price,
   quantity |-> body[r].quantity]

(* The columns whose new value differs from the one loaded are set.        *)
assigned(r, row) ==
  [id |-> row.id,
   sku |-> IF body[r].sku # product[r].sku THEN body[r].sku ELSE row.sku,
   price |-> IF body[r].price # product[r].price THEN body[r].price ELSE row.price,
   quantity |-> IF body[r].quantity # product[r].quantity
                  THEN body[r].quantity ELSE row.quantity]

update_commit(r) ==
  LET p == target[r] IN
  /\ pc[r] = "update"
  /\ working[p] # NoRow
  /\ body[r].sku # product[r].sku => ~DuplicateSku(p, body[r].sku)
  /\ WriteAndCommit(r, p, assigned(r, working[p]))
  /\ Goto(r, "refresh")
  /\ UNCHANGED <<handler, session, sequence>>

update_duplicate(r) ==
  LET p == target[r] IN
  /\ pc[r] = "update"
  /\ working[p] # NoRow
  /\ CanWrite(r, p)
  /\ body[r].sku # product[r].sku /\ DuplicateSku(p, body[r].sku)
  /\ Respond(r, 409)
  /\ UNCHANGED <<tables, handler, sequence>>

(* The product was deleted since it was loaded: StaleDataError is not an   *)
(* IntegrityError and goes through as an unhandled error.                  *)
update_stale(r) ==
  /\ pc[r] = "update"
  /\ Read(r, target[r]) = NoRow
  /\ Respond(r, 500)
  /\ UNCHANGED <<tables, handler, sequence>>

(* db.refresh after the commit of a create or an update: it raises when    *)
(* the row is gone again.                                                  *)
refresh(r) ==
  /\ pc[r] = "refresh"
  /\ Respond(r, IF Read(r, target[r]) = NoRow THEN 500
                ELSE IF op[r] = "post" THEN 201 ELSE 200)
  /\ UNCHANGED <<tables, handler, sequence>>

(***************************************************************************)
(* DELETE /products/{id}                                                   *)
(***************************************************************************)
delete_product(r, p) ==
  /\ Admit(r)
  /\ Read(r, p) # NoRow
  /\ product' = [product EXCEPT ![r] = Read(r, p)]
  /\ Called(r, "delete", p, NoRow)
  /\ Goto(r, "delete")
  /\ UNCHANGED <<tables, order, todo, sequence>>

delete_product_not_found(r, p) ==
  /\ Admit(r)
  /\ Read(r, p) = NoRow
  /\ Called(r, "delete", p, NoRow)
  /\ Respond(r, 404)
  /\ UNCHANGED <<tables, sequence>>

(* A DELETE that does not wait for the transactions that wrote the row.    *)
delete_without_waiting(r) ==
  LET p == target[r] IN
  /\ pc[r] = "delete"
  /\ working' = [working EXCEPT ![p] = NoRow]
  /\ committed' = [committed EXCEPT ![p] = NoRow]
  /\ Respond(r, 204)
  /\ UNCHANGED <<lock, handler, sequence>>

(* Deleting a row that another admin has deleted by then is only a warning.*)
delete_commit(r) ==
  /\ pc[r] = "delete"
  /\ WriteAndCommit(r, target[r], NoRow)
  /\ Respond(r, 204)
  /\ UNCHANGED <<handler, sequence>>

ProductServiceStep(r) ==
  \/ update_commit(r)
  \/ update_duplicate(r)
  \/ update_stale(r)
  \/ refresh(r)
  \/ delete_commit(r)

ProductServiceCall(r) ==
  \/ \E content \in PostBody :
       create_product(r, content) \/ create_product_duplicate(r, content)
  \/ \E p \in ProductId, content \in PutBody :
       update_product(r, p, content) \/ update_product_not_found(r, p, content)
  \/ \E p \in DeleteId : delete_product(r, p) \/ delete_product_not_found(r, p)
=============================================================================
