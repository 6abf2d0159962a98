------------------------------- MODULE Listings -------------------------------
(***************************************************************************)
(* Two lists that follow what the user picks: AdminOrders.jsx, which takes *)
(* answers as they come, and the search of Products.jsx, which ignores     *)
(* those of an earlier search.                                             *)
(***************************************************************************)
EXTENDS BrowserState

OrdersSettled == patch = None /\ Quiet(lists)
AdminMayAct == patient => OrdersSettled

Filter == Status \cup {"all"}

(* GET /orders?status: the status of each order that matches.              *)
Matching(f) ==
  [o \in Order |-> IF orders[o] # None /\ f \in {"all", orders[o].status}
                     THEN orders[o].status ELSE None]

load(f) ==
  /\ \E c \in Request :
       /\ lists[c] = None
       /\ lists' = [lists EXCEPT ![c] = [filter |-> f, rows |-> None]]
       /\ newest' = [filter |-> f, at |-> c, overtaken |-> FALSE]
  /\ listing' = TRUE

setFilter(f) ==
  /\ AdminMayAct /\ f # filter
  /\ filter' = f /\ load(f)
  /\ UNCHANGED <<table, patch, failed, shop>>

ServeList(c) ==
  /\ lists[c] # None /\ lists[c].rows = None
  /\ lists' = [lists EXCEPT ![c].rows = Matching(lists[c].filter)]
  /\ UNCHANGED <<filter, table, listing, patch, failed, newest, shop>>

(* An answer that comes after that of the newest request overtakes it.     *)
ListArrives(c) ==
  /\ lists[c] # None
  /\ \/ lists[c].rows # None /\ table' = lists[c].rows /\ UNCHANGED failed
     \/ failed' = TRUE /\ UNCHANGED table
  /\ lists' = [lists EXCEPT ![c] = None] /\ listing' = FALSE
  /\ newest' = IF newest.at = c THEN [newest EXCEPT !.at = None]
               ELSE [newest EXCEPT !.overtaken = @ \/ newest.at = None]
  /\ UNCHANGED <<filter, patch, shop>>

(* changeStatus keeps the filter of the render it belongs to.              *)
changeStatus(o) ==
  /\ AdminMayAct /\ ~listing /\ table[o] # None /\ patch = None
  /\ \E s \in Status \ {table[o]} :
       patch' = [order |-> o, status |-> s, filter |-> filter, stage |-> "sent"]
  /\ UNCHANGED <<filter, table, lists, listing, failed, newest, shop>>

ServePatch ==
  /\ patch # None /\ patch.stage = "sent"
  /\ \/ /\ IF patch.status = "cancelled" /\ ~orders[patch.order].stock_restored
             THEN Shop!Cancel(patch.order)
             ELSE /\ orders' = [orders EXCEPT ![patch.order].status = patch.status]
                  /\ Shop!SetStatus(patch.order)
        /\ patch' = [patch EXCEPT !.stage = "ok"]
     \/ patch' = [patch EXCEPT !.stage = "refused"] /\ UNCHANGED shop
  /\ UNCHANGED <<filter, table, lists, listing, failed, newest>>

(* A change of status after which the table is left as it is.              *)
patch_answered_without_load ==
  /\ patch # None
  /\ \/ patch.stage = "ok" /\ UNCHANGED failed
     \/ failed' = TRUE
  /\ patch' = None
  /\ UNCHANGED <<filter, table, lists, listing, newest, shop>>

PatchAnswered ==
  /\ patch # None
  /\ \/ patch.stage = "ok" /\ load(patch.filter) /\ UNCHANGED failed
     \/ failed' = TRUE /\ UNCHANGED <<lists, listing, newest>>
  /\ patch' = None
  /\ UNCHANGED <<filter, table, shop>>

ManageOrders ==
  \/ \E f \in Filter : setFilter(f)
  \/ \E c \in Request : ServeList(c) \/ ListArrives(c)
  \/ \E o \in Order : changeStatus(o)
  \/ ServePatch \/ PatchAnswered

(* The effect of Products.jsx on `search`: its cleanup marks the request   *)
(* before as cancelled.                                                    *)
setSearch(text) ==
  /\ text # search
  /\ search' = text
  /\ queries' \in Launched([c \in Request |-> IF queries[c] = None THEN None
                             ELSE [queries[c] EXCEPT !.cancelled = TRUE]],
                           [text |-> text, cancelled |-> FALSE])
  /\ UNCHANGED <<results, searchFailed>>

(* Every answer shown as it comes.                                         *)
query_arrives_unchecked(c) ==
  /\ queries[c] # None
  /\ \/ results' = queries[c].text /\ UNCHANGED searchFailed
     \/ searchFailed' = TRUE /\ UNCHANGED results
  /\ queries' = [queries EXCEPT ![c] = None]
  /\ UNCHANGED search

QueryArrives(c) ==
  /\ queries[c] # None
  /\ IF queries[c].cancelled
       THEN UNCHANGED <<results, searchFailed>>
       ELSE \/ results' = queries[c].text /\ UNCHANGED searchFailed
            \/ searchFailed' = TRUE /\ UNCHANGED results
  /\ queries' = [queries EXCEPT ![c] = None]
  /\ UNCHANGED search

Browse == (\E text \in Text : setSearch(text)) \/ \E c \in Request : QueryArrives(c)
=============================================================================
