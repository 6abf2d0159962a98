---------------------------- MODULE ShopHistory ----------------------------
(***************************************************************************)
(* Shop with a history variable: for every order, the products of its      *)
(* lines that have been deleted since it was placed.                       *)
(***************************************************************************)
EXTENDS ShopInvariant

VARIABLE gone    \* gone[o]: products of order o missing now or at some time

Missing(t, o) ==
  IF t[o] = NoRow THEN {} ELSE {p \in DOMAIN t[o].line_items : t[p] = NoRow}

HistoryInit == Init /\ gone = [o \in OrderId |-> Missing(committed, o)]

HistoryNext == Next /\ gone' = [o \in OrderId |-> gone[o] \cup Missing(committed, o)']

HistorySpec == HistoryInit /\ [][HistoryNext]_<<vars, gone>>

(* The restock of a cancelled order skips the products deleted since: it   *)
(* gives no stock to a product that was not the one sold.                  *)
RestockSkipsDeleted ==
  [][\A o \in OrderId : Restored(o) =>
       \A p \in gone[o] : committed'[p] = committed[p]]_<<vars, gone>>

(* A product of an order, once deleted, is never in the catalogue again:   *)
(* its id has been handed out.                                             *)
GoneForGood ==
  \A o \in OrderId : \A p \in gone[o] :
    p \in ProductId /\ p <= sequence /\ working[p] = NoRow

HistoryInv == CatalogueAgreed /\ IdsHandedOut /\ GoneForGood
=============================================================================
