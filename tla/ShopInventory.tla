---------------------------- MODULE ShopInventory ----------------------------
(***************************************************************************)
(* The committed tables of Shop seen as an Inventory.                      *)
(***************************************************************************)
EXTENDS ShopInvariant

Catalogue == [p \in ProductId |-> committed[p]]
Orders == [o \in OrderId |-> committed[o]]

Abstract == INSTANCE Inventory WITH catalogue <- Catalogue, orders <- Orders

(* To whoever reads the tables, the handlers' steps, waits and failures    *)
(* are the Inventory's single steps.  So it is as long as cancellations do *)
(* not overlap other requests.                                             *)
ImplementsInventory == Abstract!Spec

(* No admin asks for a cancellation.                                       *)
NoCancellation == "cancelled" \notin PatchStatus
=============================================================================
