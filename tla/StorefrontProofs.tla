--------------------------- MODULE StorefrontProofs ---------------------------
(***************************************************************************)
(* Theorems about the storefront: the invariant IInv is inductive, one     *)
(* lemma per part of it and per group of actions.                          *)
(***************************************************************************)
EXTENDS StorefrontInvariant, TLAPS

(***************************************************************************)
(* Carts                                                                   *)
(***************************************************************************)

(* A cart is a function from some products to lines.                       *)
LEMMA CartFacts ==
  /\ Empty \in Cart
  /\ \A c \in Cart : DOMAIN c \subseteq Product /\ \A p \in DOMAIN c : c[p] \in Line
<1>1. Empty \in [{} -> Line]
  BY DEF Empty
<1> QED
  BY <1>1 DEF Cart

(* addItem and updateQuantity make carts of carts.                         *)
LEMMA WithCart ==
  ASSUME Typed, NEW p \in Product, NEW n \in 1..MaxQuantity
  PROVE  With(p, n) \in Cart
<1> DEFINE ids == DOMAIN items \cup {p}
<1>1. items \in Cart
  BY DEF Typed
<1>2. ids \in SUBSET Product
  BY <1>1, CartFacts
<1>3. \A q \in ids : (IF q = p THEN [quantity |-> n] ELSE items[q]) \in Line
  BY <1>1, CartFacts DEF Line
<1>4. With(p, n) \in [ids -> Line]
  BY <1>3 DEF With
<1> QED
  BY <1>2, <1>4 DEF Cart

(* removeItem makes a cart of a cart.                                      *)
LEMMA WithoutCart ==
  ASSUME Typed, NEW p \in Product
  PROVE  [q \in DOMAIN items \ {p} |-> items[q]] \in Cart
<1> DEFINE ids == DOMAIN items \ {p}
<1>1. items \in Cart
  BY DEF Typed
<1>2. ids \in SUBSET Product
  BY <1>1, CartFacts
<1>3. [q \in ids |-> items[q]] \in [ids -> Line]
  BY <1>1, CartFacts
<1> QED
  BY <1>2, <1>3 DEF Cart

(***************************************************************************)
(* Steps of the other parts                                                *)
(***************************************************************************)

(* Orders stay and keep their lines; an attempt without one gets none.     *)
OrdersGrow ==
  /\ orders' \in [Order -> OrderRow \cup {None}]
  /\ \A o \in Order : orders[o] # None =>
       orders'[o] # None /\ orders'[o].line_items = orders[o].line_items
  /\ \A a \in Attempt : attempt[a] # None /\ orders[a] = None => orders'[a] = None

(* A change of status keeps the lines of its order.                        *)
LEMMA PatchGrows ==
  ASSUME Typed, Lists!ServePatch
  PROVE  OrdersGrow
<1>1. patch \in Patch /\ patch.order \in Order /\ patch.status \in Status
  BY DEF Typed, Patch, Lists!ServePatch
<1>2. CASE UNCHANGED Lists!shop
  BY <1>2 DEF Lists!shop, OrdersGrow, Typed
<1>3. CASE /\ orders[patch.order] # None
           /\ \E s \in Status, b \in BOOLEAN :
                orders' = [orders EXCEPT ![patch.order] =
                             [orders[patch.order] EXCEPT !.status = s, !.stock_restored = b]]
  <2>1. PICK s \in Status, b \in BOOLEAN :
          orders' = [orders EXCEPT ![patch.order] =
                       [orders[patch.order] EXCEPT !.status = s, !.stock_restored = b]]
    BY <1>3
  <2>2. orders[patch.order] \in OrderRow
    BY <1>1, <1>3 DEF Typed
  <2>3. /\ [orders[patch.order] EXCEPT !.status = s, !.stock_restored = b] \in OrderRow
        /\ [orders[patch.order] EXCEPT !.status = s, !.stock_restored = b].line_items
             = orders[patch.order].line_items
    BY <2>2 DEF OrderRow
  <2> QED
    BY <1>1, <1>3, <2>1, <2>3, RecordAssumption DEF Typed, OrdersGrow
<1>4. CASE Lists!Shop!Cancel(patch.order)
  <2>1. orders[patch.order] # None
    BY <1>4 DEF Lists!Shop!Cancel
  <2>2. orders' = [orders EXCEPT ![patch.order] =
                     [orders[patch.order] EXCEPT !.status = "cancelled", !.stock_restored = TRUE]]
    BY <1>4 DEF Lists!Shop!Cancel
  <2> QED
    BY <1>3, <2>1, <2>2, StatusAssumption
<1>5. CASE /\ orders' = [orders EXCEPT ![patch.order].status = patch.status]
           /\ Lists!Shop!SetStatus(patch.order)
  <2>1. orders[patch.order] # None
    BY <1>5 DEF Lists!Shop!SetStatus
  <2>2. orders[patch.order] \in OrderRow
    BY <1>1, <2>1 DEF Typed
  <2>3. [orders[patch.order] EXCEPT !.status = patch.status]
          = [orders[patch.order] EXCEPT !.status = patch.status,
                                        !.stock_restored = orders[patch.order].stock_restored]
    BY <2>2 DEF OrderRow
  <2>4. orders[patch.order].stock_restored \in BOOLEAN
    BY <2>2 DEF OrderRow
  <2> QED
    BY <1>1, <1>3, <1>5, <2>1, <2>3, <2>4
<1> QED
  BY <1>2, <1>4, <1>5 DEF Lists!ServePatch

(* A sale takes an attempt that this tab does not use.                     *)
LEMMA SaleGrows ==
  ASSUME Typed, Sale
  PROVE  OrdersGrow
<1>1. PICK a \in Attempt, p \in Product :
        /\ attempt[a] = None
        /\ orders' = [orders EXCEPT ![a] = [status |-> "pending", stock_restored |-> FALSE,
                                            line_items |-> [q \in {p} |-> [quantity |-> 1]]]]
        /\ Shop!Place(a)
  BY DEF Sale
<1>2. orders[a] = None /\ a \in Order
  BY <1>1, OrderAssumption DEF Shop!Place
<1>3. [q \in {p} |-> [quantity |-> 1]] \in Cart
  <2>1. [quantity |-> 1] \in Line
    BY QuantityAssumption DEF Line
  <2>2. [q \in {p} |-> [quantity |-> 1]] \in [{p} -> Line]
    BY <2>1
  <2> QED
    BY <2>2 DEF Cart
<1>4. [status |-> "pending", stock_restored |-> FALSE,
       line_items |-> [q \in {p} |-> [quantity |-> 1]]] \in OrderRow
  BY <1>3, StatusAssumption DEF OrderRow
<1> QED
  BY <1>1, <1>2, <1>4 DEF OrdersGrow, Typed

(* What a step does that neither the cart nor the session takes part in.   *)
Elsewhere ==
  /\ OrdersGrow
  /\ UNCHANGED <<world, cart, session>>

LEMMA OtherStepsElsewhere ==
  ASSUME Typed, [Next]_vars,
         ~("shopper" \in acting /\ Shopper), ~("session" \in acting /\ Session)
  PROVE  Elsewhere
<1>1. UNCHANGED orders => OrdersGrow
  BY DEF OrdersGrow, Typed
<1>2. CASE UNCHANGED vars
  BY <1>1, <1>2 DEF vars, shop, Elsewhere
<1>3. CASE Products!ManageProducts /\ UNCHANGED <<world, cart, session, orderAdmin, catalog>>
  <2>1. UNCHANGED orders
    BY <1>3 DEF Products!ManageProducts, Products!ServeLoad, Products!LoadArrives,
       Products!startEdit, Products!remove, Products!startCreate, Products!Cancel, Products!Type,
       Products!save, Products!ServeSave, Products!Stored, Products!SaveAnswered,
       Products!ServeRemove, Products!RemoveAnswered, Products!shop, Products!Shop!Change
  <2> QED
    BY <1>1, <1>3, <2>1 DEF Elsewhere
<1>4. CASE Lists!ManageOrders /\ UNCHANGED <<world, cart, session, productAdmin, catalog>>
  <2>1. Lists!ServePatch \/ UNCHANGED orders
    BY <1>4 DEF Lists!ManageOrders, Lists!setFilter, Lists!ServeList, Lists!ListArrives,
       Lists!changeStatus, Lists!PatchAnswered, Lists!shop
  <2> QED
    BY <1>1, <1>4, <2>1, PatchGrows DEF Elsewhere
<1>5. CASE UNCHANGED <<world, shop, cart, session, productAdmin, orderAdmin>>
  BY <1>1, <1>5 DEF shop, Elsewhere
<1>6. CASE Sale
  BY <1>6, SaleGrows DEF Sale, Elsewhere
<1> QED
  BY <1>2, <1>3, <1>4, <1>5, <1>6 DEF Next

(***************************************************************************)
(* Types                                                                   *)
(***************************************************************************)

(* The attempts after one of them went on, or all lost their page.         *)
LEMMA AttemptTypes ==
  ASSUME Typed
  PROVE  /\ \A a \in Attempt : attempt[a] # None => attempt[a] \in AttemptState
         /\ Unmounted \in [Attempt -> AttemptState \cup {None}]
<1>1. \A a \in Attempt : attempt[a] # None => attempt[a] \in AttemptState
  BY DEF Typed
<1>2. \A a \in Attempt : attempt[a] # None =>
        [attempt[a] EXCEPT !.view = "left"] \in AttemptState
  BY <1>1 DEF AttemptState
<1> QED
  BY <1>1, <1>2 DEF Unmounted, Typed

(* What the shopper's steps keep the types of.                             *)
CartTyped ==
  /\ items \in Cart /\ page \in {"cart", "other"} /\ submitting \in BOOLEAN
  /\ attempt \in [Attempt -> AttemptState \cup {None}]
  /\ orders \in [Order -> OrderRow \cup {None}]

LEMMA TypedShopper ==
  ASSUME Typed, Shopper
  PROVE  CartTyped'
<1> USE AttemptTypes
<1>1. /\ items \in Cart /\ page \in {"cart", "other"} /\ submitting \in BOOLEAN
      /\ attempt \in [Attempt -> AttemptState \cup {None}]
      /\ orders \in [Order -> OrderRow \cup {None}]
  BY DEF Typed
<1>2. ASSUME NEW c \in Cart, Edit(c)
      PROVE  CartTyped'
  <2>1. \A a \in Attempt : attempt[a] # None =>
          [attempt[a] EXCEPT !.kept = FALSE] \in AttemptState
    BY DEF AttemptState
  <2> QED
    BY <1>1, <1>2, <2>1 DEF Edit, SetItems, CartTyped, shop
<1>3. ASSUME NEW p \in Product, addItem(p)
      PROVE  CartTyped'
  <2> DEFINE n == 1 + (IF p \in DOMAIN items THEN items[p].quantity ELSE 0)
  <2>1. n \in 1..MaxQuantity
    BY <1>1, <1>3, CartFacts, QuantityAssumption DEF addItem, Line
  <2>2. Edit(With(p, n))
    BY <1>3 DEF addItem
  <2> HIDE DEF n
  <2> QED
    BY <2>1, <2>2, <1>2, WithCart
<1>4. ASSUME NEW p \in Product, updateQuantity(p)
      PROVE  CartTyped'
  BY <1>4, <1>2, WithCart DEF updateQuantity
<1>5. ASSUME NEW p \in Product, removeItem(p)
      PROVE  CartTyped'
  BY <1>5, <1>2, WithoutCart DEF removeItem
<1>6. CASE OpenCart
  BY <1>1, <1>6 DEF OpenCart, CartTyped, shop
<1>7. CASE LeaveCart
  BY <1>1, <1>7 DEF LeaveCart, CartTyped, shop
<1>8. ASSUME NEW a \in Attempt, Submit(a)
      PROVE  CartTyped'
  <2>1. [lines |-> items, stage |-> "fetch", view |-> "mounted", shown |-> user,
         as |-> None, kept |-> TRUE,
         again |-> {b \in Attempt : attempt[b] # None /\ attempt[b].kept
                                    /\ attempt[b].stage # "ok"}] \in AttemptState
    BY <1>1, <1>8 DEF Submit, AttemptState, UnderWay, Typed
  <2> QED
    BY <1>1, <1>8, <2>1 DEF Submit, CartTyped, shop
<1>10. ASSUME NEW a \in Attempt, attempt[a] # None
       PROVE  /\ \A st \in UnderWay \cup {"ok", "failed"} :
                   [attempt[a] EXCEPT !.stage = st] \in AttemptState
              /\ [attempt[a] EXCEPT !.view = "deaf"] \in AttemptState
              /\ [attempt[a] EXCEPT !.stage = "post", !.as = token] \in AttemptState
              /\ attempt[a].lines \in Cart
  BY <1>10 DEF AttemptState, UnderWay, Typed
<1>11. \A a \in Attempt : Release(a) => submitting' \in BOOLEAN
  BY <1>1 DEF Release
<1>12. ASSUME NEW a \in Attempt, StockArrives(a)
       PROVE  CartTyped'
  <2>1. attempt[a] # None
    BY <1>12 DEF StockArrives, Pending
  <2>2. CASE Fail(a)
    BY <1>1, <1>10, <1>11, <1>12, <2>1, <2>2 DEF StockArrives, Fail, CartTyped, shop
  <2>3. CASE attempt' = [attempt EXCEPT ![a].stage = "post", ![a].as = token]
             /\ UNCHANGED submitting
    <3>1. attempt' = [attempt EXCEPT ![a] =
                       [attempt[a] EXCEPT !.stage = "post", !.as = token]]
      BY <2>3
    <3> QED
      BY <1>1, <1>10, <1>12, <2>1, <2>3, <3>1 DEF StockArrives, CartTyped, shop
  <2> QED
    BY <1>12, <2>2, <2>3 DEF StockArrives
<1>13. ASSUME NEW a \in Attempt, ServePost(a)
       PROVE  CartTyped'
  <2>1. attempt[a] # None
    BY <1>13 DEF ServePost
  <2>5. \E st \in UnderWay : attempt' = [attempt EXCEPT ![a] = [attempt[a] EXCEPT !.stage = st]]
    <3>1. \/ attempt' = [attempt EXCEPT ![a] = [attempt[a] EXCEPT !.stage = "placed"]]
          \/ attempt' = [attempt EXCEPT ![a] = [attempt[a] EXCEPT !.stage = "rejected"]]
      BY <1>13 DEF ServePost
    <3> QED
      BY <3>1 DEF UnderWay
  <2>2. /\ attempt' \in [Attempt -> AttemptState \cup {None}]
        /\ UNCHANGED <<items, page, submitting>>
    <3>1. attempt' \in [Attempt -> AttemptState \cup {None}]
      <4>1. PICK st \in UnderWay :
              attempt' = [attempt EXCEPT ![a] = [attempt[a] EXCEPT !.stage = st]]
        BY <2>5
      <4>2. [attempt[a] EXCEPT !.stage = st] \in AttemptState
        BY <1>10, <2>1
      <4> QED
        BY <1>1, <4>1, <4>2
    <3> QED
      BY <1>13, <3>1 DEF ServePost
  <2>3. [status |-> "pending", stock_restored |-> FALSE,
         line_items |-> attempt[a].lines] \in OrderRow
    BY <1>10, <2>1, StatusAssumption DEF OrderRow
  <2>4. orders' \in [Order -> OrderRow \cup {None}]
    BY <1>1, <1>13, <2>3 DEF ServePost, shop
  <2> QED
    BY <1>1, <2>2, <2>4 DEF CartTyped
<1>14. ASSUME NEW a \in Attempt, OrderConfirmed(a)
       PROVE  CartTyped'
  <2>1. attempt[a] # None
    BY <1>14 DEF OrderConfirmed, Pending
  <2> QED
    BY <1>1, <1>10, <1>11, <1>14, <2>1, CartFacts DEF OrderConfirmed, SetItems, CartTyped, shop
<1>15. ASSUME NEW a \in Attempt, OrderRefused(a)
       PROVE  CartTyped'
  <2>1. attempt[a] # None
    BY <1>15 DEF OrderRefused, Pending
  <2> QED
    BY <1>1, <1>10, <1>11, <1>15, <2>1 DEF OrderRefused, Fail, CartTyped, shop
<1>16. ASSUME NEW a \in Attempt, CheckoutLost(a)
       PROVE  CartTyped'
  <2>1. attempt[a] # None
    BY <1>16 DEF CheckoutLost, Pending
  <2> QED
    BY <1>1, <1>10, <1>11, <1>16, <2>1 DEF CheckoutLost, CartTyped, shop
<1> QED
  BY <1>3, <1>4, <1>5, <1>6, <1>7, <1>8, <1>12, <1>13, <1>14, <1>15, <1>16 DEF Shopper, Answers

(* What the session's steps keep the types of.                             *)
SessionTyped ==
  /\ user \in Account \cup {None} /\ storedUser \in Account \cup {None}
  /\ token \in Account \cup {None} /\ me \in Account \cup {None}
  /\ signin \in Account \cup {None}

LEMMA TypedSession ==
  ASSUME Typed, stored = items, Session
  PROVE  CartTyped' /\ SessionTyped'
<1> USE AttemptTypes
<1>1. CartTyped /\ SessionTyped
  BY DEF Typed, CartTyped, SessionTyped
<1>2. \A u : setUser(u) /\ UNCHANGED shop => CartTyped'
  BY <1>1 DEF setUser, CartTyped, shop
<1>3. UNCHANGED cart /\ UNCHANGED shop => CartTyped'
  BY <1>1 DEF CartTyped, shop, cart
<1>4. CASE Reload
  <2>1. \A a \in Attempt : attempt[a] # None =>
          [attempt[a] EXCEPT !.view = "deaf"] \in AttemptState
    BY DEF AttemptState
  <2>2. CartTyped'
    BY <1>1, <1>4, <2>1 DEF Reload, CartTyped, shop
  <2> QED
    BY <1>1, <1>4, <2>2 DEF Reload, SessionTyped
<1>5. CASE MeArrives
  BY <1>1, <1>2, <1>5 DEF MeArrives, setUser, SessionTyped
<1>6. CASE MeFails
  BY <1>1, <1>2, <1>6 DEF MeFails, Store, setUser, SessionTyped
<1>7. CASE SignIn
  BY <1>1, <1>3, <1>7, OwnerAssumption DEF SignIn, Customers, SessionTyped
<1>8. CASE SignedIn
  BY <1>1, <1>2, <1>8 DEF SignedIn, Store, setUser, SessionTyped
<1>9. CASE SignInFails
  BY <1>1, <1>3, <1>9 DEF SignInFails, Store, SessionTyped
<1>10. CASE logout
  BY <1>1, <1>2, <1>10 DEF logout, Store, setUser, SessionTyped
<1> QED
  BY <1>4, <1>5, <1>6, <1>7, <1>8, <1>9, <1>10 DEF Session

(* The requests of the two lists.                                          *)
ListTyped ==
  /\ filter \in Lists!Filter /\ patch \in Patch \cup {None}
  /\ queries \in [Request -> Query \cup {None}]

LEMMA TypedOrders ==
  ASSUME Typed, Lists!ManageOrders, UNCHANGED catalog
  PROVE  ListTyped'
<1>1. ListTyped /\ UNCHANGED queries
  BY DEF Typed, ListTyped, catalog
<1>2. ASSUME NEW f \in Lists!Filter, Lists!setFilter(f)
      PROVE  ListTyped'
  BY <1>1, <1>2 DEF Lists!setFilter, ListTyped
<1>3. ASSUME NEW c \in Request, Lists!ServeList(c) \/ Lists!ListArrives(c)
      PROVE  ListTyped'
  BY <1>1, <1>3 DEF Lists!ServeList, Lists!ListArrives, ListTyped
<1>4. ASSUME NEW o \in Order, Lists!changeStatus(o)
      PROVE  ListTyped'
  BY <1>1, <1>4 DEF Lists!changeStatus, ListTyped, Patch
<1>5. CASE Lists!ServePatch
  <2>1. \A s \in {"ok", "refused"} : [patch EXCEPT !.stage = s] \in Patch
    BY <1>1, <1>5 DEF Lists!ServePatch, ListTyped, Patch
  <2> QED
    BY <1>1, <1>5, <2>1 DEF Lists!ServePatch, ListTyped
<1>6. CASE Lists!PatchAnswered
  BY <1>1, <1>6 DEF Lists!PatchAnswered, ListTyped
<1> QED
  BY <1>2, <1>3, <1>4, <1>5, <1>6 DEF Lists!ManageOrders

LEMMA TypedSearch ==
  ASSUME Typed, Lists!Browse, UNCHANGED orderAdmin
  PROVE  ListTyped'
<1>1. ListTyped /\ UNCHANGED <<filter, patch>>
  BY DEF Typed, ListTyped, orderAdmin
<1>2. ASSUME NEW text \in Text, Lists!setSearch(text)
      PROVE  ListTyped'
  <2> DEFINE past == [c \in Request |-> IF queries[c] = None THEN None
                                        ELSE [queries[c] EXCEPT !.cancelled = TRUE]]
  <2>1. past \in [Request -> Query \cup {None}]
    <3>1. \A c \in Request : queries[c] # None => [queries[c] EXCEPT !.cancelled = TRUE] \in Query
      BY <1>1 DEF ListTyped, Query
    <3> QED
      BY <3>1
  <2>2. PICK c \in Request :
          queries' = [past EXCEPT ![c] = [text |-> text, cancelled |-> FALSE]]
    BY <1>2 DEF Lists!setSearch, Lists!Launched
  <2>3. [text |-> text, cancelled |-> FALSE] \in Query
    BY DEF Query
  <2> HIDE DEF past
  <2> QED
    BY <1>1, <2>1, <2>2, <2>3 DEF ListTyped
<1>3. ASSUME NEW c \in Request, Lists!QueryArrives(c)
      PROVE  ListTyped'
  BY <1>1, <1>3 DEF Lists!QueryArrives, ListTyped
<1> QED
  BY <1>2, <1>3 DEF Lists!Browse

(* The shopper does not touch the session, nor the session the shop.       *)
LEMMA Untouched ==
  /\ Shopper => UNCHANGED <<world, session>>
  /\ Session => UNCHANGED <<world, shop>>
<1>1. Shopper => UNCHANGED <<world, session>>
  BY DEF Shopper, addItem, updateQuantity, removeItem, Edit, OpenCart, LeaveCart, Submit,
     ServePost, Answers, StockArrives, OrderConfirmed, OrderRefused, CheckoutLost
<1>2. Session => UNCHANGED <<world, shop>>
  BY DEF Session, Reload, MeArrives, MeFails, SignIn, SignedIn, SignInFails, logout
<1> QED
  BY <1>1, <1>2

(* A step is one of the shopper, one of the session, or one elsewhere.     *)
LEMMA StepKinds ==
  ASSUME Typed, [Next]_vars
  PROVE  \/ Shopper /\ UNCHANGED <<world, session>>
         \/ Session /\ UNCHANGED <<world, shop>>
         \/ Elsewhere
  BY OtherStepsElsewhere, Untouched

LEMMA TypedNext ==
  ASSUME Typed, stored = items, [Next]_vars
  PROVE  Typed'
<1>1. CartTyped /\ SessionTyped /\ ListTyped
  BY DEF Typed, CartTyped, SessionTyped, ListTyped
<1>2. CartTyped' /\ SessionTyped'
  <2>1. CASE Shopper /\ UNCHANGED <<world, session>>
    BY <1>1, <2>1, TypedShopper DEF session, SessionTyped
  <2>2. CASE Session
    BY <2>2, TypedSession
  <2>3. CASE Elsewhere
    BY <1>1, <2>3 DEF Elsewhere, OrdersGrow, cart, session, CartTyped, SessionTyped
  <2> QED
    BY <2>1, <2>2, <2>3, StepKinds
<1>3. ListTyped'
  <2>1. CASE UNCHANGED <<orderAdmin, catalog>>
    BY <1>1, <2>1 DEF ListTyped, orderAdmin, catalog
  <2>2. CASE Lists!ManageOrders /\ UNCHANGED catalog
    BY <2>2, TypedOrders
  <2>3. CASE Lists!Browse /\ UNCHANGED orderAdmin
    BY <2>3, TypedSearch
  <2> QED
    BY <2>1, <2>2, <2>3 DEF Next, Sale, vars
<1> QED
  BY <1>2, <1>3 DEF Typed, CartTyped, SessionTyped, ListTyped

(***************************************************************************)
(* The cart                                                                *)
(***************************************************************************)

(* Attempt b stays the run of the same cart.                               *)
SameRun(b) ==
  /\ attempt'[b] # None
  /\ attempt'[b].lines = attempt[b].lines /\ attempt'[b].kept = attempt[b].kept
  /\ attempt'[b].again = attempt[b].again /\ attempt'[b].shown = attempt[b].shown

(* Attempt a goes to a stage and a view, and no other attempt moves.       *)
Goes(a, stage, view) ==
  /\ SameRun(a) /\ attempt'[a].stage = stage /\ attempt'[a].view = view
  /\ \A b \in Attempt : b # a => attempt'[b] = attempt[b]

(* The page is left: no attempt is mounted any more.                       *)
PageLeft ==
  \A b \in Attempt :
    IF attempt[b] = None THEN attempt'[b] = None
    ELSE /\ SameRun(b) /\ attempt'[b].stage = attempt[b].stage
         /\ attempt'[b].view # "mounted" /\ attempt'[b].as = attempt[b].as
         /\ attempt[b].view = "deaf" => attempt'[b].view = "deaf"

(* A record of an attempt under an update of its fields.                   *)
LEMMA AttemptFields ==
  ASSUME NEW r \in AttemptState, NEW v
  PROVE  LET s == [r EXCEPT !.stage = v]
             w == [r EXCEPT !.view = v]
             k == [r EXCEPT !.kept = v]
         IN /\ s.stage = v /\ s.view = r.view /\ s.as = r.as
            /\ s.lines = r.lines /\ s.kept = r.kept /\ s.again = r.again /\ s.shown = r.shown
            /\ w.view = v /\ w.stage = r.stage /\ w.as = r.as
            /\ w.lines = r.lines /\ w.kept = r.kept /\ w.again = r.again /\ w.shown = r.shown
            /\ k.kept = v /\ k.stage = r.stage /\ k.as = r.as /\ k.view = r.view
            /\ k.lines = r.lines /\ k.again = r.again /\ k.shown = r.shown
  BY DEF AttemptState

(* Unmounting leaves the page.                                             *)
LEMMA UnmountedLeaves ==
  ASSUME Typed, attempt' = Unmounted
  PROVE  PageLeft
<1> SUFFICES ASSUME NEW b \in Attempt, attempt[b] # None
             PROVE  /\ SameRun(b) /\ attempt'[b].stage = attempt[b].stage
                    /\ attempt'[b].view # "mounted" /\ attempt'[b].as = attempt[b].as
                    /\ attempt[b].view = "deaf" => attempt'[b].view = "deaf"
  BY DEF Unmounted, PageLeft
<1>1. attempt[b] \in AttemptState
  BY DEF Typed
<1>2. CASE attempt[b].view = "mounted"
  <2>1. attempt'[b] = [attempt[b] EXCEPT !.view = "left"]
    BY <1>2 DEF Unmounted
  <2>2. attempt'[b] # None
    BY <1>1, <2>1, RecordAssumption DEF AttemptState
  <2> QED
    BY <1>1, <1>2, <2>1, <2>2, AttemptFields DEF SameRun
<1>3. CASE attempt[b].view # "mounted"
  BY <1>3 DEF Unmounted, SameRun
<1> QED
  BY <1>2, <1>3

(* The steps of one checkout move that checkout only.                      *)
LEMMA StageGoes ==
  ASSUME Typed, NEW a \in Attempt, attempt[a] # None,
         NEW st \in UnderWay \cup {"ok", "failed"},
         attempt' = [attempt EXCEPT ![a] = [attempt[a] EXCEPT !.stage = st]]
  PROVE  Goes(a, st, attempt[a].view) /\ attempt'[a].as = attempt[a].as
<1>1. attempt[a] \in AttemptState /\ attempt \in [Attempt -> AttemptState \cup {None}]
  BY DEF Typed
<1>2. [attempt[a] EXCEPT !.stage = st] \in AttemptState
  BY <1>1 DEF AttemptState
<1>3. attempt'[a] = [attempt[a] EXCEPT !.stage = st]
  BY <1>1
<1> QED
  BY <1>1, <1>2, <1>3, AttemptFields, RecordAssumption DEF Goes, SameRun

LEMMA ViewGoes ==
  ASSUME Typed, NEW a \in Attempt, attempt[a] # None,
         attempt' = [attempt EXCEPT ![a].view = "deaf"]
  PROVE  Goes(a, attempt[a].stage, "deaf") /\ attempt'[a].as = attempt[a].as
<1>1. attempt[a] \in AttemptState /\ attempt \in [Attempt -> AttemptState \cup {None}]
  BY DEF Typed
<1>2. [attempt[a] EXCEPT !.view = "deaf"] \in AttemptState
  BY <1>1 DEF AttemptState
<1>3. attempt'[a] = [attempt[a] EXCEPT !.view = "deaf"]
  BY <1>1
<1> QED
  BY <1>1, <1>2, <1>3, AttemptFields, RecordAssumption DEF Goes, SameRun

(* A checkout under way goes one step on, or is lost: the button is        *)
(* released as soon as the page no longer waits.                           *)
LEMMA CartGoes ==
  ASSUME Typed, CartInv, NEW a \in Attempt, attempt[a] # None, attempt[a].stage \in UnderWay,
         NEW st \in UnderWay \cup {"failed"}, NEW vw, vw = "mounted" => attempt[a].view = "mounted",
         attempt[a].stage = "placed" => st = "placed",
         Goes(a, st, vw), UNCHANGED <<items, stored, page>>,
         \A b \in Attempt : b # a => orders'[b] = orders[b],
         IF st = "placed" THEN orders'[a] # None /\ orders'[a].line_items = attempt[a].lines
                          ELSE orders'[a] = None,
         \/ UNCHANGED submitting
         \/ Release(a) /\ ~(vw = "mounted" /\ st \in UnderWay)
  PROVE  CartInv'
<1>1. \A b \in Attempt : attempt[b] # None => SameRun(b)
  BY DEF Goes, SameRun
<1>2. \A b \in Attempt : attempt'[b] # None => attempt[b] # None
  BY DEF Goes
<1>3. attempt[a].stage # "ok" /\ st # "ok"
  BY DEF UnderWay
<1>4. OrdersOfAttempts'
  BY <1>1, <1>2, <1>3 DEF CartInv, OrdersOfAttempts, Goes, SameRun
<1>5. KeptOrCleared'
  BY <1>1, <1>2, <1>3 DEF CartInv, KeptOrCleared, Goes, SameRun
<1>6. CartKeptUntilOrdered'
  <2> SUFFICES ASSUME NEW c \in Attempt, attempt'[c] # None, attempt'[c].kept
               PROVE  \/ items' = attempt'[c].lines /\ stored' = items'
                      \/ \E b \in Attempt : orders'[b] # None
                                            /\ orders'[b].line_items = attempt'[c].lines
                      \/ \E b \in Attempt : attempt'[b] # None /\ attempt'[b].stage = "ok"
                                            /\ ~attempt'[b].kept
    BY DEF CartKeptUntilOrdered
  <2>1. /\ attempt[c] # None /\ attempt[c].kept
        /\ attempt'[c].lines = attempt[c].lines
    BY <1>1, <1>2 DEF SameRun
  <2>2. CASE items = attempt[c].lines /\ stored = items
    BY <2>1, <2>2
  <2>3. CASE \E b \in Attempt : orders[b] # None /\ orders[b].line_items = attempt[c].lines
    <3>1. PICK b \in Attempt : orders[b] # None /\ orders[b].line_items = attempt[c].lines
      BY <2>3
    <3>2. b = a => attempt[a].stage = "placed" /\ orders[a].line_items = attempt[a].lines
      BY <3>1, <1>3 DEF CartInv, OrdersOfAttempts
    <3>3. orders'[b] # None /\ orders'[b].line_items = attempt[c].lines
      BY <3>1, <1>4, <3>2, <1>1 DEF OrdersOfAttempts
    <3> QED
      BY <2>1, <3>3
  <2>4. CASE \E b \in Attempt : attempt[b] # None /\ attempt[b].stage = "ok" /\ ~attempt[b].kept
    BY <1>3, <2>4 DEF Goes
  <2> QED
    BY <2>1, <2>2, <2>3, <2>4 DEF CartInv, CartKeptUntilOrdered
<1>7. OneWaiting'
  <2>1. \A b \in Attempt : Waiting(b)' => Waiting(b)
    BY <1>2 DEF Waiting, Goes
  <2>2. Release(a) /\ ~(vw = "mounted" /\ st \in UnderWay) => ~Waiting(a)'
    BY DEF Waiting, Goes
  <2>3. Release(a) /\ attempt[a].view = "mounted" => Waiting(a)
    BY DEF Waiting
  <2>4. \A b \in Attempt : Waiting(b)' => submitting'
    <3> SUFFICES ASSUME NEW b \in Attempt, Waiting(b)'
                 PROVE  submitting'
      OBVIOUS
    <3>1. Waiting(b) /\ submitting
      BY <2>1 DEF CartInv, OneWaiting
    <3>2. CASE Release(a) /\ ~(vw = "mounted" /\ st \in UnderWay)
      <4>1. ~Waiting(a)
        BY <2>2, <3>1, <3>2 DEF CartInv, OneWaiting
      <4> QED
        BY <2>3, <3>1, <3>2, <4>1 DEF Release
    <3> QED
      BY <3>1, <3>2
  <2> QED
    BY <2>1, <2>4 DEF CartInv, OneWaiting
<1>8. EarlierFailed'
  <2> SUFFICES ASSUME NEW c \in Attempt, NEW b \in Attempt,
                      attempt'[b] # None, c \in attempt'[b].again
               PROVE  attempt'[c] # None
                      /\ (attempt'[c].view = "mounted" => attempt'[c].stage = "failed")
    BY DEF EarlierFailed
  <2>1. attempt[b] # None /\ c \in attempt[b].again
    BY <1>1, <1>2 DEF SameRun
  <2>2. attempt[c] # None /\ (attempt[c].view = "mounted" => attempt[c].stage = "failed")
    BY <2>1 DEF CartInv, EarlierFailed
  <2>3. c # a => attempt'[c] = attempt[c]
    BY DEF Goes
  <2>4. c = a => attempt[c].view # "mounted"
    BY <2>2 DEF UnderWay
  <2> QED
    BY <2>2, <2>3, <2>4, <1>1 DEF Goes, SameRun
<1> QED
  BY <1>4, <1>5, <1>6, <1>7, <1>8 DEF CartInv

(* StockArrives, ServePost, OrderRefused, CheckoutLost: one checkout.      *)
LEMMA CartOneStep ==
  ASSUME Typed, CartInv, NEW a \in Attempt,
         StockArrives(a) \/ ServePost(a) \/ OrderRefused(a) \/ CheckoutLost(a)
  PROVE  CartInv'
<1>1. attempt[a] # None /\ attempt[a].stage \in UnderWay
  BY DEF StockArrives, ServePost, OrderRefused, CheckoutLost, Pending, UnderWay
<1>2. attempt[a] \in AttemptState /\ attempt \in [Attempt -> AttemptState \cup {None}]
  BY <1>1 DEF Typed
<1>3. attempt[a].stage # "placed" => orders[a] = None
  BY <1>1 DEF CartInv, OrdersOfAttempts, UnderWay
<1>4. ASSUME Fail(a), attempt[a].stage # "placed", UNCHANGED <<items, stored, page, orders>>
      PROVE  CartInv'
  <2>1. attempt' = [attempt EXCEPT ![a] = [attempt[a] EXCEPT !.stage = "failed"]]
    BY <1>4 DEF Fail
  <2>2. Goes(a, "failed", attempt[a].view)
    BY <1>1, <2>1, StageGoes
  <2> QED
    BY <1>1, <1>3, <1>4, <2>2, CartGoes DEF Fail, UnderWay
<1>5. CASE StockArrives(a)
  <2>1. attempt[a].stage = "fetch" /\ UNCHANGED <<items, stored, page, orders>>
    BY <1>5 DEF StockArrives, shop
  <2>2. CASE attempt' = [attempt EXCEPT ![a].stage = "post", ![a].as = token]
             /\ UNCHANGED submitting
    <3>1. attempt'[a] = [attempt[a] EXCEPT !.stage = "post", !.as = token]
      BY <1>2, <2>2
    <3>2. [attempt[a] EXCEPT !.stage = "post", !.as = token] \in AttemptState
      BY <1>2 DEF AttemptState, Typed, UnderWay
    <3>3. SameRun(a) /\ attempt'[a].stage = "post" /\ attempt'[a].view = attempt[a].view
      BY <1>2, <3>1, <3>2, RecordAssumption DEF SameRun, AttemptState
    <3>4. \A b \in Attempt : b # a => attempt'[b] = attempt[b]
      BY <1>2, <2>2
    <3>5. Goes(a, "post", attempt[a].view)
      BY <3>3, <3>4 DEF Goes
    <3> QED
      BY <1>1, <1>3, <2>1, <2>2, <3>5, CartGoes DEF UnderWay
  <2> QED
    BY <1>4, <1>5, <2>1, <2>2 DEF StockArrives
<1>6. CASE ServePost(a)
  <2>1. attempt[a].stage = "post" /\ UNCHANGED <<items, stored, page, submitting>>
    BY <1>6 DEF ServePost
  <2>2. CASE attempt' = [attempt EXCEPT ![a].stage = "rejected"] /\ UNCHANGED shop
    <3>1. attempt' = [attempt EXCEPT ![a] = [attempt[a] EXCEPT !.stage = "rejected"]]
      BY <2>2
    <3>2. Goes(a, "rejected", attempt[a].view)
      BY <1>1, <3>1, StageGoes DEF UnderWay
    <3> QED
      BY <1>1, <1>3, <2>1, <2>2, <3>2, CartGoes DEF UnderWay, shop
  <2>3. CASE /\ orders' = [orders EXCEPT ![a] = [status |-> "pending", stock_restored |-> FALSE,
                                                line_items |-> attempt[a].lines]]
             /\ attempt' = [attempt EXCEPT ![a].stage = "placed"]
    <3>1. attempt' = [attempt EXCEPT ![a] = [attempt[a] EXCEPT !.stage = "placed"]]
      BY <2>3
    <3>2. Goes(a, "placed", attempt[a].view)
      BY <1>1, <3>1, StageGoes DEF UnderWay
    <3>3. [status |-> "pending", stock_restored |-> FALSE, line_items |-> attempt[a].lines]
            \in OrderRow
      BY <1>2, StatusAssumption DEF OrderRow, AttemptState
    <3>4. /\ orders'[a] # None /\ orders'[a].line_items = attempt[a].lines
          /\ \A b \in Attempt : b # a => orders'[b] = orders[b]
      BY <2>3, <3>3, RecordAssumption, OrderAssumption DEF Typed
    <3> QED
      BY <1>1, <2>1, <3>2, <3>4, CartGoes DEF UnderWay
  <2> QED
    BY <1>6, <2>2, <2>3 DEF ServePost
<1>7. CASE OrderRefused(a)
  BY <1>4, <1>7 DEF OrderRefused, shop
<1>8. CASE CheckoutLost(a)
  <2>1. Goes(a, attempt[a].stage, "deaf")
    BY <1>1, <1>8, ViewGoes DEF CheckoutLost
  <2>2. UNCHANGED <<items, stored, page, orders>> /\ Release(a)
    BY <1>8 DEF CheckoutLost, shop
  <2>3. IF attempt[a].stage = "placed"
          THEN orders'[a] # None /\ orders'[a].line_items = attempt[a].lines
          ELSE orders'[a] = None
    BY <1>1, <2>2 DEF CartInv, OrdersOfAttempts, UnderWay
  <2> QED
    BY <1>1, <2>1, <2>2, <2>3, CartGoes DEF UnderWay
<1> QED
  BY <1>5, <1>6, <1>7, <1>8

(* The page unmounts, by a link, a reload or a session that ends.          *)
LEMMA CartLeft ==
  ASSUME CartInv, PageLeft, UNCHANGED <<items, stored, orders>>
  PROVE  CartInv'
<1>1. \A b \in Attempt : attempt'[b] # None =>
        attempt[b] # None /\ SameRun(b) /\ attempt'[b].stage = attempt[b].stage
                         /\ attempt'[b].view # "mounted"
  BY DEF PageLeft
<1>2. \A b \in Attempt : attempt[b] # None => SameRun(b) /\ attempt'[b].stage = attempt[b].stage
  BY DEF PageLeft
<1>3. OrdersOfAttempts'
  BY <1>1 DEF CartInv, OrdersOfAttempts, SameRun
<1>4. KeptOrCleared'
  BY <1>1 DEF CartInv, KeptOrCleared, SameRun
<1>5. CartKeptUntilOrdered'
  BY <1>1, <1>2 DEF CartInv, CartKeptUntilOrdered, SameRun
<1>6. OneWaiting'
  BY <1>1 DEF OneWaiting, Waiting
<1>7. EarlierFailed'
  <2> SUFFICES ASSUME NEW c \in Attempt, NEW b \in Attempt,
                      attempt'[b] # None, c \in attempt'[b].again
               PROVE  attempt'[c] # None /\ attempt'[c].view # "mounted"
    BY DEF EarlierFailed
  <2>1. attempt[c] # None
    BY <1>1 DEF CartInv, EarlierFailed, SameRun
  <2> QED
    BY <1>1, <1>2, <2>1 DEF SameRun
<1> QED
  BY <1>3, <1>4, <1>5, <1>6, <1>7 DEF CartInv

(* An edit by the user: no attempt that may still clear the cart is kept.  *)
LEMMA CartEdited ==
  ASSUME Typed, CartInv, NEW c, Edit(c)
  PROVE  CartInv'
<1>1. \A b \in Attempt : attempt'[b] # None =>
        /\ attempt[b] # None
        /\ attempt'[b].lines = attempt[b].lines /\ attempt'[b].again = attempt[b].again
        /\ attempt'[b].stage = attempt[b].stage /\ attempt'[b].view = attempt[b].view
        /\ attempt'[b].kept => attempt[b].stage = "ok"
  <2> SUFFICES ASSUME NEW b \in Attempt, attempt'[b] # None
               PROVE  /\ attempt[b] # None
                      /\ attempt'[b].lines = attempt[b].lines
                      /\ attempt'[b].again = attempt[b].again
                      /\ attempt'[b].stage = attempt[b].stage
                      /\ attempt'[b].view = attempt[b].view
                      /\ attempt'[b].kept => attempt[b].stage = "ok"
    OBVIOUS
  <2>1. attempt[b] # None
    BY DEF Edit
  <2>2. attempt[b] \in AttemptState
    BY <2>1 DEF Typed
  <2>3. CASE attempt[b].stage = "ok"
    BY <2>1, <2>3 DEF Edit
  <2>4. CASE attempt[b].stage # "ok"
    <3>1. attempt'[b] = [attempt[b] EXCEPT !.kept = FALSE]
      BY <2>1, <2>4 DEF Edit
    <3> QED
      BY <2>1, <2>2, <3>1, AttemptFields
  <2> QED
    BY <2>3, <2>4
<1>2. \A b \in Attempt : attempt[b] # None => attempt'[b] # None
  <2>1. \A b \in Attempt : attempt[b] # None => [attempt[b] EXCEPT !.kept = FALSE] # None
    BY RecordAssumption DEF Typed, AttemptState
  <2> QED
    BY <2>1 DEF Edit
<1>3. stored' = items' /\ UNCHANGED <<page, submitting, orders>>
  BY DEF Edit, SetItems, shop
<1>4. OrdersOfAttempts'
  BY <1>1, <1>3 DEF CartInv, OrdersOfAttempts
<1>5. KeptOrCleared'
  BY <1>1 DEF KeptOrCleared
<1>6. CartKeptUntilOrdered'
  BY <1>1, <1>4 DEF OrdersOfAttempts, CartKeptUntilOrdered
<1>7. OneWaiting'
  BY <1>1, <1>3 DEF CartInv, OneWaiting, Waiting
<1>8. EarlierFailed'
  BY <1>1, <1>2 DEF CartInv, EarlierFailed
<1> QED
  BY <1>3, <1>4, <1>5, <1>6, <1>7, <1>8 DEF CartInv

(* The button is pressed: it is not disabled, so no attempt is waited for, *)
(* and the earlier ones at this cart that were answered have failed.       *)
LEMMA CartSubmitted ==
  ASSUME Typed, CartInv, NEW a \in Attempt, Submit(a)
  PROVE  CartInv'
<1> DEFINE earlier == {b \in Attempt : attempt[b] # None /\ attempt[b].kept
                                      /\ attempt[b].stage # "ok"}
           new == [lines |-> items, stage |-> "fetch", view |-> "mounted", shown |-> user,
                   as |-> None, kept |-> TRUE, again |-> earlier]
<1>1. attempt[a] = None /\ orders[a] = None /\ ~submitting /\ submitting' /\ page = "cart"
  BY DEF Submit
<1>2. UNCHANGED <<items, stored, page, orders>>
  BY DEF Submit, shop
<1>3. attempt'[a] = new /\ \A b \in Attempt : b # a => attempt'[b] = attempt[b]
  BY DEF Submit, Typed
<1>4. /\ new.lines = items /\ new.stage = "fetch" /\ new.kept /\ new.again = earlier
      /\ new.view = "mounted"
  OBVIOUS
<1>5. \A b \in Attempt : ~Waiting(b)
  BY <1>1 DEF CartInv, OneWaiting
<1>6. OrdersOfAttempts'
  BY <1>1, <1>2, <1>3, <1>4 DEF CartInv, OrdersOfAttempts
<1>7. KeptOrCleared'
  BY <1>2, <1>3, <1>4 DEF CartInv, KeptOrCleared
<1>8. CartKeptUntilOrdered'
  BY <1>1, <1>2, <1>3, <1>4 DEF CartInv, CartKeptUntilOrdered
<1>9. OneWaiting'
  BY <1>1, <1>2, <1>3, <1>5 DEF OneWaiting, Waiting
<1>10. EarlierFailed'
  <2> SUFFICES ASSUME NEW c \in Attempt, NEW b \in Attempt,
                      attempt'[b] # None, c \in attempt'[b].again
               PROVE  attempt'[c] # None
                      /\ (attempt'[c].view = "mounted" => attempt'[c].stage = "failed")
    BY DEF EarlierFailed
  <2>1. CASE b = a
    <3>1. c \in earlier /\ c # a
      BY <1>1, <1>3, <1>4, <2>1
    <3>2. attempt[c] \in AttemptState /\ attempt[c] # None /\ attempt[c].stage # "ok"
      BY <3>1 DEF Typed
    <3>3. attempt[c].view = "mounted" => attempt[c].stage \notin UnderWay
      BY <1>5, <3>2 DEF Waiting
    <3>4. attempt[c].view = "mounted" => attempt[c].stage = "failed"
      BY <3>2, <3>3 DEF AttemptState
    <3> QED
      BY <1>3, <3>1, <3>2, <3>4
  <2>2. CASE b # a
    <3>1. attempt[b] # None /\ c \in attempt[b].again
      BY <1>3, <2>2
    <3>2. attempt[c] # None /\ (attempt[c].view = "mounted" => attempt[c].stage = "failed")
      BY <3>1 DEF CartInv, EarlierFailed
    <3> QED
      BY <1>1, <1>3, <3>2
  <2> QED
    BY <2>1, <2>2
<1> QED
  BY <1>2, <1>6, <1>7, <1>8, <1>9, <1>10 DEF CartInv

(* A confirmed checkout clears the cart: an attempt that was kept had the  *)
(* same lines, which are ordered now, or lines that were cleared before.   *)
LEMMA CartConfirmed ==
  ASSUME Typed, CartInv, NEW a \in Attempt, OrderConfirmed(a)
  PROVE  CartInv'
<1>1. attempt[a] # None /\ attempt[a].stage = "placed" /\ attempt[a] \in AttemptState
  BY DEF OrderConfirmed, Pending, Typed
<1>2. items' = Empty /\ stored' = Empty /\ UNCHANGED orders
  BY DEF OrderConfirmed, SetItems, shop
<1>3. /\ attempt'[a] # None /\ SameRun(a)
      /\ attempt'[a].stage = "ok" /\ attempt'[a].view = attempt[a].view
  <2>1. attempt'[a] = [attempt[a] EXCEPT !.stage = "ok"]
    BY AttemptTypes DEF OrderConfirmed
  <2>2. [attempt[a] EXCEPT !.stage = "ok"] # None
    BY <1>1, RecordAssumption DEF AttemptState
  <2> QED
    BY <1>1, <2>1, <2>2, AttemptFields DEF SameRun
<1>4. ASSUME NEW b \in Attempt, b # a
      PROVE  IF attempt[b] = None THEN attempt'[b] = None
             ELSE /\ SameRun(b) /\ attempt'[b].stage = attempt[b].stage
                  /\ attempt'[b].view # "mounted"
  <2>1. attempt'[b] = Unmounted[b]
    BY <1>4, AttemptTypes DEF OrderConfirmed
  <2>2. CASE attempt[b] = None
    BY <2>1, <2>2 DEF Unmounted
  <2>3. CASE attempt[b] # None /\ attempt[b].view = "mounted"
    <3>1. attempt'[b] = [attempt[b] EXCEPT !.view = "left"] /\ attempt[b] \in AttemptState
      BY <2>1, <2>3 DEF Unmounted, Typed
    <3>2. attempt'[b] # None
      BY <3>1, RecordAssumption DEF AttemptState
    <3> QED
      BY <2>3, <3>1, <3>2, AttemptFields DEF SameRun
  <2>4. CASE attempt[b] # None /\ attempt[b].view # "mounted"
    BY <2>1, <2>4 DEF Unmounted, SameRun
  <2> QED
    BY <2>2, <2>3, <2>4
<1>5. \A b \in Attempt : attempt'[b] # None => attempt[b] # None /\ SameRun(b)
  BY <1>1, <1>3, <1>4
<1>6. \A b \in Attempt : attempt[b] # None => SameRun(b)
  BY <1>3, <1>4
<1>7. OrdersOfAttempts'
  BY <1>1, <1>2, <1>3, <1>4 DEF CartInv, OrdersOfAttempts, SameRun
<1>8. KeptOrCleared'
  BY <1>2 DEF KeptOrCleared
<1>9. CartKeptUntilOrdered'
  <2> SUFFICES ASSUME NEW c \in Attempt, attempt'[c] # None, attempt'[c].kept
               PROVE  \/ \E b \in Attempt : orders'[b] # None
                                            /\ orders'[b].line_items = attempt'[c].lines
                      \/ \E b \in Attempt : attempt'[b] # None /\ attempt'[b].stage = "ok"
                                            /\ ~attempt'[b].kept
    BY DEF CartKeptUntilOrdered
  <2>1. attempt[c] # None /\ attempt[c].kept /\ attempt'[c].lines = attempt[c].lines
    BY <1>5 DEF SameRun
  <2>2. CASE attempt'[c].stage = "ok"
    BY <1>7, <2>2 DEF OrdersOfAttempts
  <2>3. CASE ~attempt[a].kept
    BY <1>3, <2>3 DEF SameRun
  <2>4. CASE attempt[a].kept /\ attempt'[c].stage # "ok"
    <3>1. c # a /\ attempt[c].stage # "ok" /\ attempt[c].lines # Empty
      BY <1>3, <1>4, <2>1, <2>4 DEF Typed, AttemptState
    <3>2. items \in {attempt[a].lines, Empty} /\ items \in {attempt[c].lines, Empty}
      BY <1>1, <2>1, <2>4, <3>1 DEF CartInv, KeptOrCleared
    <3>3. CASE items = attempt[c].lines
      <4>1. attempt[a].lines = attempt[c].lines
        BY <3>1, <3>2, <3>3
      <4>2. orders[a] # None /\ orders[a].line_items = attempt[c].lines
        BY <1>1, <4>1 DEF CartInv, OrdersOfAttempts
      <4> QED
        BY <1>2, <2>1, <4>2
    <3>4. CASE \E b \in Attempt : orders[b] # None /\ orders[b].line_items = attempt[c].lines
      BY <1>2, <2>1, <3>4
    <3>5. CASE \E b \in Attempt : attempt[b] # None /\ attempt[b].stage = "ok" /\ ~attempt[b].kept
      BY <1>1, <1>4, <3>5 DEF SameRun
    <3> QED
      BY <2>1, <3>3, <3>4, <3>5 DEF CartInv, CartKeptUntilOrdered
  <2> QED
    BY <2>2, <2>3, <2>4
<1>10. OneWaiting'
  <2>1. \A b \in Attempt : ~Waiting(b)'
    BY <1>3, <1>4, <1>5 DEF Waiting, UnderWay
  <2> QED
    BY <2>1 DEF OneWaiting
<1>11. EarlierFailed'
  <2> SUFFICES ASSUME NEW c \in Attempt, NEW b \in Attempt,
                      attempt'[b] # None, c \in attempt'[b].again
               PROVE  attempt'[c] # None /\ attempt'[c].view # "mounted"
    BY DEF EarlierFailed
  <2>1. attempt[c] # None /\ (attempt[c].view = "mounted" => attempt[c].stage = "failed")
    BY <1>5 DEF CartInv, EarlierFailed, SameRun
  <2> QED
    BY <1>1, <1>3, <1>4, <2>1 DEF SameRun
<1> QED
  BY <1>2, <1>7, <1>8, <1>9, <1>10, <1>11 DEF CartInv

(* Every step of the shopper.                                              *)
LEMMA CartShopper ==
  ASSUME Typed, CartInv, Shopper
  PROVE  CartInv'
<1>1. ASSUME NEW p \in Product, addItem(p) \/ updateQuantity(p) \/ removeItem(p)
      PROVE  CartInv'
  BY <1>1, CartEdited DEF addItem, updateQuantity, removeItem
<1>2. CASE OpenCart
  <2>1. \A b \in Attempt : ~Waiting(b)
    BY <1>2 DEF OpenCart, CartInv, OneWaiting
  <2>2. UNCHANGED <<items, stored, attempt, orders>>
    BY <1>2 DEF OpenCart, shop
  <2> QED
    BY <2>1, <2>2 DEF CartInv, OrdersOfAttempts, KeptOrCleared, CartKeptUntilOrdered,
       OneWaiting, EarlierFailed, Waiting
<1>3. CASE LeaveCart
  BY <1>3, UnmountedLeaves, CartLeft DEF LeaveCart, shop
<1>4. ASSUME NEW a \in Attempt, Submit(a) \/ ServePost(a) \/ Answers(a)
      PROVE  CartInv'
  BY <1>4, CartSubmitted, CartOneStep, CartConfirmed DEF Answers
<1> QED
  BY <1>1, <1>2, <1>3, <1>4 DEF Shopper

(* Every step of the session.                                              *)
LEMMA CartSession ==
  ASSUME Typed, CartInv, Session
  PROVE  CartInv'
<1>1. UNCHANGED orders
  BY Untouched DEF shop
<1>2. UNCHANGED cart => CartInv'
  BY <1>1 DEF cart, CartInv, OrdersOfAttempts, KeptOrCleared, CartKeptUntilOrdered,
     OneWaiting, EarlierFailed, Waiting
<1>3. ASSUME NEW u, setUser(u)
      PROVE  CartInv'
  <2>1. CASE UNCHANGED <<page, attempt>>
    BY <1>2, <1>3, <2>1 DEF setUser, cart
  <2>2. CASE attempt' = Unmounted
    BY <1>1, <1>3, <2>2, UnmountedLeaves, CartLeft DEF setUser
  <2> QED
    BY <1>3, <2>1, <2>2 DEF setUser
<1>4. CASE Reload
  <2>1. ASSUME NEW b \in Attempt, attempt[b] # None
        PROVE  SameRun(b) /\ attempt'[b].stage = attempt[b].stage
               /\ attempt'[b].view = "deaf" /\ attempt'[b].as = attempt[b].as
    <3>1. attempt'[b] = [attempt[b] EXCEPT !.view = "deaf"] /\ attempt[b] \in AttemptState
      BY <1>4, <2>1 DEF Reload, Typed
    <3>2. attempt'[b] # None
      BY <3>1, RecordAssumption DEF AttemptState
    <3> QED
      BY <3>1, <3>2, AttemptFields DEF SameRun
  <2>2. PageLeft
    BY <1>4, <2>1 DEF PageLeft, Reload
  <2>3. UNCHANGED <<items, stored>>
    BY <1>4 DEF Reload, CartInv
  <2> QED
    BY <1>1, <2>2, <2>3, CartLeft
<1>5. CASE MeArrives \/ MeFails \/ SignedIn \/ logout
  BY <1>3, <1>5 DEF MeArrives, MeFails, SignedIn, logout
<1>6. CASE SignIn \/ SignInFails
  BY <1>2, <1>6 DEF SignIn, SignInFails
<1> QED
  BY <1>4, <1>5, <1>6 DEF Session

(* Steps elsewhere leave the cart alone and no order disappears.           *)
LEMMA CartElsewhere ==
  ASSUME CartInv, Elsewhere
  PROVE  CartInv'
<1>1. UNCHANGED <<items, stored, page, submitting, attempt>> /\ OrdersGrow
  BY DEF Elsewhere, cart
<1>2. \A b \in Attempt : orders[b] # None =>
        orders'[b] # None /\ orders'[b].line_items = orders[b].line_items
  BY <1>1, OrderAssumption DEF OrdersGrow
<1>3. OrdersOfAttempts'
  BY <1>1, <1>2 DEF CartInv, OrdersOfAttempts, OrdersGrow
<1>4. CartKeptUntilOrdered'
  BY <1>1, <1>2 DEF CartInv, CartKeptUntilOrdered
<1> QED
  BY <1>1, <1>3, <1>4 DEF CartInv, KeptOrCleared, OneWaiting, EarlierFailed, Waiting

LEMMA CartNext ==
  ASSUME Typed, CartInv, [Next]_vars
  PROVE  CartInv'
  BY StepKinds, CartShopper, CartSession, CartElsewhere

(***************************************************************************)
(* The session                                                             *)
(***************************************************************************)

(* Stages in which an order has been sent, with a token.                   *)
Sent == {"post", "placed", "rejected", "ok"}

(* How a step of the shopper moves attempt b, as far as the session is     *)
(* concerned.                                                              *)
Moves(b) ==
  IF attempt[b] = None
    THEN \/ attempt'[b] = None
         \/ CustomerMayAct /\ attempt'[b].stage = "fetch" /\ attempt'[b].shown = user
    ELSE /\ attempt'[b].shown = attempt[b].shown
         /\ attempt'[b].view # "deaf" => attempt[b].view # "deaf"
         /\ attempt'[b].stage \in UnderWay => attempt[b].stage \in UnderWay
         /\ attempt'[b].stage = "fetch" => attempt[b].stage = "fetch"
         /\ attempt'[b].stage \in Sent =>
              \/ attempt[b].stage \in Sent /\ attempt'[b].as = attempt[b].as
              \/ b \in Pending /\ attempt[b].stage = "fetch" /\ attempt'[b].as = token

(* A page that is left moves no attempt.                                   *)
LEMMA LeftMoves ==
  ASSUME PageLeft
  PROVE  \A b \in Attempt : Moves(b)
  BY DEF PageLeft, Moves, SameRun

(* Every step of the shopper moves attempts this way.                      *)
LEMMA ShopperMoves ==
  ASSUME Typed, Shopper
  PROVE  \A b \in Attempt : Moves(b)
<1>1. \A b \in Attempt : UNCHANGED attempt => Moves(b)
  BY DEF Moves
<1>2. ASSUME NEW c, Edit(c)
      PROVE  \A b \in Attempt : Moves(b)
  <2> SUFFICES ASSUME NEW b \in Attempt
               PROVE  Moves(b)
    OBVIOUS
  <2>1. CASE attempt'[b] = attempt[b]
    BY <2>1 DEF Moves
  <2>2. CASE attempt[b] # None /\ attempt'[b] = [attempt[b] EXCEPT !.kept = FALSE]
    <3>1. attempt[b] \in AttemptState
      BY <2>2 DEF Typed
    <3> QED
      BY <2>2, <3>1, AttemptFields DEF Moves
  <2> QED
    BY <1>2, <2>1, <2>2 DEF Edit
<1>3. ASSUME NEW a \in Attempt, NEW st \in UnderWay \cup {"ok", "failed"}, attempt[a] # None,
             attempt[a].stage \in UnderWay, st # "fetch",
             st \in Sent => attempt[a].stage \in Sent,
             attempt' = [attempt EXCEPT ![a] = [attempt[a] EXCEPT !.stage = st]]
      PROVE  \A b \in Attempt : Moves(b)
  <2>1. Goes(a, st, attempt[a].view) /\ attempt'[a].as = attempt[a].as
    BY <1>3, StageGoes
  <2> QED
    BY <1>3, <2>1 DEF Goes, SameRun, Moves
<1>4. ASSUME NEW a \in Attempt, Submit(a)
      PROVE  \A b \in Attempt : Moves(b)
  <2> SUFFICES ASSUME NEW b \in Attempt
               PROVE  Moves(b)
    OBVIOUS
  <2>1. CASE b = a
    BY <1>4, <2>1 DEF Submit, Moves, Typed
  <2>2. CASE b # a
    <3>1. attempt'[b] = attempt[b]
      BY <1>4, <2>2 DEF Submit, Typed
    <3> QED
      BY <3>1 DEF Moves
  <2> QED
    BY <2>1, <2>2
<1>5. ASSUME NEW a \in Attempt, StockArrives(a)
      PROVE  \A b \in Attempt : Moves(b)
  <2>1. a \in Pending /\ attempt[a] # None /\ attempt[a].stage = "fetch"
        /\ attempt[a] \in AttemptState /\ attempt \in [Attempt -> AttemptState \cup {None}]
    BY <1>5 DEF StockArrives, Pending, Typed
  <2>2. CASE attempt' = [attempt EXCEPT ![a].stage = "failed"]
    <3>1. attempt' = [attempt EXCEPT ![a] = [attempt[a] EXCEPT !.stage = "failed"]]
      BY <2>2
    <3> QED
      BY <1>3, <2>1, <3>1 DEF UnderWay, Sent
  <2>3. CASE attempt' = [attempt EXCEPT ![a].stage = "post", ![a].as = token]
    <3>1. attempt'[a] = [attempt[a] EXCEPT !.stage = "post", !.as = token]
      BY <2>1, <2>3
    <3>2. /\ attempt'[a].stage = "post" /\ attempt'[a].as = token
          /\ attempt'[a].view = attempt[a].view /\ attempt'[a].shown = attempt[a].shown
      BY <2>1, <3>1 DEF AttemptState
    <3>3. \A b \in Attempt : b # a => attempt'[b] = attempt[b]
      BY <2>1, <2>3
    <3> QED
      BY <1>1, <2>1, <3>2, <3>3 DEF Moves, UnderWay, Sent
  <2> QED
    BY <1>5, <2>2, <2>3 DEF StockArrives, Fail
<1>6. ASSUME NEW a \in Attempt, ServePost(a)
      PROVE  \A b \in Attempt : Moves(b)
  <2>1. attempt[a] # None /\ attempt[a].stage = "post"
    BY <1>6 DEF ServePost
  <2>2. \/ attempt' = [attempt EXCEPT ![a] = [attempt[a] EXCEPT !.stage = "placed"]]
        \/ attempt' = [attempt EXCEPT ![a] = [attempt[a] EXCEPT !.stage = "rejected"]]
    BY <1>6 DEF ServePost
  <2> QED
    BY <1>3, <2>1, <2>2 DEF UnderWay, Sent
<1>7. ASSUME NEW a \in Attempt, OrderRefused(a)
      PROVE  \A b \in Attempt : Moves(b)
  <2>1. attempt[a] # None /\ attempt[a].stage = "rejected"
        /\ attempt' = [attempt EXCEPT ![a] = [attempt[a] EXCEPT !.stage = "failed"]]
    BY <1>7 DEF OrderRefused, Pending, Fail
  <2> QED
    BY <1>3, <2>1 DEF UnderWay, Sent
<1>8. ASSUME NEW a \in Attempt, CheckoutLost(a)
      PROVE  \A b \in Attempt : Moves(b)
  <2>1. attempt[a] # None /\ attempt' = [attempt EXCEPT ![a].view = "deaf"]
    BY <1>8 DEF CheckoutLost, Pending
  <2>2. Goes(a, attempt[a].stage, "deaf") /\ attempt'[a].as = attempt[a].as
    BY <2>1, ViewGoes
  <2> QED
    BY <2>1, <2>2 DEF Goes, SameRun, Moves
<1>9. ASSUME NEW a \in Attempt, OrderConfirmed(a)
      PROVE  \A b \in Attempt : Moves(b)
  <2> SUFFICES ASSUME NEW b \in Attempt
               PROVE  Moves(b)
    OBVIOUS
  <2>1. attempt[a] # None /\ attempt[a].stage = "placed" /\ attempt[a] \in AttemptState
    BY <1>9 DEF OrderConfirmed, Pending, Typed
  <2>2. CASE b = a
    <3>1. attempt'[a] = [attempt[a] EXCEPT !.stage = "ok"]
      BY <1>9, AttemptTypes DEF OrderConfirmed
    <3> QED
      BY <2>1, <2>2, <3>1, AttemptFields DEF Moves, UnderWay, Sent
  <2>3. CASE b # a /\ attempt'[b] = attempt[b]
    BY <2>3 DEF Moves
  <2>4. CASE b # a /\ attempt[b] # None /\ attempt'[b] = [attempt[b] EXCEPT !.view = "left"]
             /\ attempt[b].view = "mounted"
    <3>1. attempt[b] \in AttemptState
      BY <2>4 DEF Typed
    <3> QED
      BY <2>4, <3>1, AttemptFields DEF Moves
  <2>5. b # a => attempt'[b] = Unmounted[b]
    BY <1>9, AttemptTypes DEF OrderConfirmed
  <2> QED
    BY <2>2, <2>3, <2>4, <2>5 DEF Unmounted
<1>10. CASE LeaveCart
  BY <1>10, UnmountedLeaves, LeftMoves DEF LeaveCart
<1>11. CASE OpenCart
  BY <1>1, <1>11 DEF OpenCart
<1> QED
  BY <1>2, <1>4, <1>5, <1>6, <1>7, <1>8, <1>9, <1>10, <1>11
     DEF Shopper, Answers, addItem, updateQuantity, removeItem

(* The order is sent with the token the page showed, as long as attempts   *)
(* move that way and the token a pending checkout reads is the shown one.  *)
LEMMA OrderedMoves ==
  ASSUME SessionInv, OrderedByTheShownUser, UNCHANGED acting,
         \A b \in Attempt : attempt[b] = None /\ attempt'[b] # None => attempt'[b].stage = "fetch",
         \A b \in Attempt : Moves(b)
  PROVE  OrderedByTheShownUser'
<1> SUFFICES ASSUME patient, NEW b \in Attempt, attempt'[b] # None, attempt'[b].stage \in Sent
             PROVE  attempt'[b].as = attempt'[b].shown
  BY DEF OrderedByTheShownUser, Sent, patient
<1>1. attempt[b] # None /\ attempt'[b].shown = attempt[b].shown
  BY DEF Moves, Sent
<1>2. CASE attempt[b].stage \in Sent /\ attempt'[b].as = attempt[b].as
  BY <1>1, <1>2 DEF OrderedByTheShownUser, Sent
<1>3. CASE b \in Pending /\ attempt[b].stage = "fetch" /\ attempt'[b].as = token
  BY <1>1, <1>3 DEF SessionInv
<1> QED
  BY <1>1, <1>2, <1>3 DEF Moves

(* A step of the shopper: a checkout that is new is one of the user shown, *)
(* between acts.                                                           *)
LEMMA SessionShopper ==
  ASSUME Typed, SessionInv, OrderedByTheShownUser, Shopper
  PROVE  SessionInv' /\ OrderedByTheShownUser'
<1>1. UNCHANGED <<acting, token, storedUser, user, me, signin>>
  BY Untouched DEF world, session
<1>2. \A b \in Attempt : Moves(b)
  BY ShopperMoves
<1>3. \A b \in Attempt : attempt[b] = None /\ attempt'[b] # None =>
        CustomerMayAct /\ attempt'[b].stage = "fetch" /\ attempt'[b].shown = user
  BY <1>2 DEF Moves
<1>4. OrderedByTheShownUser'
  BY <1>1, <1>2, <1>3, OrderedMoves
<1>5. ASSUME patient, NEW b \in Pending'
      PROVE  \/ b \in Pending /\ attempt'[b].shown = attempt[b].shown
                /\ (attempt'[b].stage = "fetch" => attempt[b].stage = "fetch")
             \/ CustomerMayAct /\ attempt'[b].stage = "fetch" /\ attempt'[b].shown = user
  <2>1. b \in Attempt /\ attempt'[b] # None /\ attempt'[b].stage \in UnderWay
        /\ attempt'[b].view # "deaf"
    BY <1>5 DEF Pending
  <2> QED
    BY <1>2, <1>3, <2>1 DEF Moves, Pending
<1>6. ASSUME patient
      PROVE  /\ me' # None \/ signin' # None => Pending' = {}
             /\ \A b \in Pending' : attempt'[b].stage = "fetch" => attempt'[b].shown = token'
  <2>1. me # None \/ signin # None => Pending = {}
    BY <1>6 DEF SessionInv
  <2>2. CustomerMayAct => me = None /\ signin = None /\ user = token
    BY <1>6 DEF CustomerMayAct, SessionInv
  <2>3. \A b \in Pending : attempt[b].stage = "fetch" => attempt[b].shown = token
    BY <1>6 DEF SessionInv
  <2> QED
    BY <1>1, <1>5, <1>6, <2>1, <2>2, <2>3
<1>7. SessionInv'
  BY <1>1, <1>6 DEF SessionInv, patient
<1> QED
  BY <1>4, <1>7

(* A step of the session moves no attempt, but may unmount the page.       *)
LEMMA SessionMoves ==
  ASSUME Typed, Session
  PROVE  /\ \A b \in Attempt : attempt[b] = None => attempt'[b] = None
         /\ \A b \in Attempt : Moves(b)
         /\ \A b \in Pending' :
              b \in Pending /\ attempt'[b].stage = attempt[b].stage
              /\ attempt'[b].shown = attempt[b].shown
<1>1. UNCHANGED attempt \/ PageLeft
  <2>1. CASE Reload
    <3>1. ASSUME NEW b \in Attempt, attempt[b] # None
          PROVE  SameRun(b) /\ attempt'[b].stage = attempt[b].stage
                 /\ attempt'[b].view = "deaf" /\ attempt'[b].as = attempt[b].as
      <4>1. attempt'[b] = [attempt[b] EXCEPT !.view = "deaf"] /\ attempt[b] \in AttemptState
        BY <2>1, <3>1 DEF Reload, Typed
      <4>2. attempt'[b] # None
        BY <4>1, RecordAssumption DEF AttemptState
      <4> QED
        BY <4>1, <4>2, AttemptFields DEF SameRun
    <3> QED
      BY <2>1, <3>1 DEF PageLeft, Reload
  <2>2. ASSUME NEW u, setUser(u)
        PROVE  UNCHANGED attempt \/ PageLeft
    BY <2>2, UnmountedLeaves DEF setUser
  <2> QED
    BY <2>1, <2>2 DEF Session, MeArrives, MeFails, SignIn, SignedIn, SignInFails, logout, cart
<1>2. CASE UNCHANGED attempt
  BY <1>2 DEF Moves, Pending
<1>3. CASE PageLeft
  <2>1. \A b \in Attempt : Moves(b)
    BY <1>3, LeftMoves
  <2> QED
    BY <1>3, <2>1 DEF PageLeft, SameRun, Pending
<1> QED
  BY <1>1, <1>2, <1>3

(* A step of the session: it begins or ends one act, with no checkout      *)
(* under way.                                                              *)
LEMMA SessionSession ==
  ASSUME Typed, SessionInv, OrderedByTheShownUser, Session
  PROVE  SessionInv' /\ OrderedByTheShownUser'
<1>1. UNCHANGED acting
  BY Untouched DEF world
<1>2. OrderedByTheShownUser'
  BY <1>1, SessionMoves, OrderedMoves
<1>3. ASSUME patient
      PROVE  Pending = {}
  BY <1>3 DEF SessionInv, Session, Reload, MeArrives, MeFails, SignIn, SignedIn, SignInFails,
     logout, CustomerMayAct
<1>4. ASSUME patient
      PROVE  Pending' = {}
  BY <1>3, <1>4, SessionMoves
<1>5. ASSUME patient
      PROVE  /\ me' # None => user' = None /\ storedUser' = None /\ token' = me' /\ signin' = None
             /\ signin' # None => user' = None /\ storedUser' = None /\ token' = None /\ me' = None
             /\ me' = None /\ signin' = None => user' = storedUser' /\ token' = user'
  BY <1>5 DEF SessionInv, Session, Reload, MeArrives, MeFails, SignIn, SignedIn, SignInFails,
     logout, CustomerMayAct, Store, setUser, cart
<1>6. SessionInv'
  BY <1>1, <1>4, <1>5 DEF SessionInv, patient
<1> QED
  BY <1>2, <1>6

LEMMA SessionNext ==
  ASSUME Typed, SessionInv, OrderedByTheShownUser, [Next]_vars
  PROVE  SessionInv' /\ OrderedByTheShownUser'
<1>1. CASE Elsewhere
  <2>1. UNCHANGED <<acting, attempt, token, storedUser, user, me, signin>>
    BY <1>1 DEF Elsewhere, world, cart, session
  <2> QED
    BY <2>1 DEF SessionInv, OrderedByTheShownUser, Pending, patient
<1> QED
  BY <1>1, StepKinds, SessionShopper, SessionSession

(***************************************************************************)
(* The search                                                              *)
(***************************************************************************)

(* A text typed into the box: the queries before are cancelled.            *)
LEMMA SearchTyped ==
  ASSUME Typed, NEW text \in Text, Lists!setSearch(text)
  PROVE  SearchInv' /\ ResultsMatchSearch'
<1> DEFINE past == [c \in Request |-> IF queries[c] = None THEN None
                                      ELSE [queries[c] EXCEPT !.cancelled = TRUE]]
<1>1. PICK c \in Request :
        queries' = [past EXCEPT ![c] = [text |-> text, cancelled |-> FALSE]]
  BY DEF Lists!setSearch, Lists!Launched
<1>2. queries'[c] = [text |-> text, cancelled |-> FALSE]
  BY <1>1
<1>3. queries'[c] # None /\ ~queries'[c].cancelled /\ queries'[c].text = text
  <2>1. [text |-> text, cancelled |-> FALSE] \in Query
    BY DEF Query
  <2>2. queries'[c] # None
    BY <1>2, <2>1, RecordAssumption
  <2> QED
    BY <1>2, <2>2
<1>4. ASSUME NEW d \in Request, d # c, queries'[d] # None
      PROVE  queries'[d].cancelled
  <2>1. queries'[d] = [queries[d] EXCEPT !.cancelled = TRUE] /\ queries[d] # None
    BY <1>1, <1>4
  <2>2. queries[d] \in Query
    BY <2>1 DEF Typed
  <2> QED
    BY <2>1, <2>2 DEF Query
<1> QED
  BY <1>3, <1>4 DEF SearchInv, ResultsMatchSearch, Lists!setSearch

(* An answer: only that of the query that is not cancelled is shown.       *)
LEMMA SearchAnswered ==
  ASSUME Typed, SearchInv, ResultsMatchSearch, UNCHANGED acting,
         NEW c \in Request, Lists!QueryArrives(c)
  PROVE  SearchInv' /\ ResultsMatchSearch'
<1>1. queries'[c] = None /\ \A d \in Request : d # c => queries'[d] = queries[d]
  BY DEF Lists!QueryArrives, Typed
<1>2. SearchInv'
  BY <1>1 DEF SearchInv, Lists!QueryArrives
<1>3. CASE queries[c].cancelled
  BY <1>1, <1>2, <1>3 DEF ResultsMatchSearch, Lists!QueryArrives
<1>4. CASE ~queries[c].cancelled
  <2>1. queries[c].text = search
    BY <1>4 DEF SearchInv, Lists!QueryArrives
  <2>2. CASE searchFailed' = TRUE
    BY <1>2, <2>2 DEF ResultsMatchSearch
  <2>3. CASE results' = queries[c].text
    BY <1>2, <2>1, <2>3 DEF ResultsMatchSearch, Lists!QueryArrives
  <2> QED
    BY <1>4, <2>2, <2>3 DEF Lists!QueryArrives
<1> QED
  BY <1>2, <1>3, <1>4

LEMMA SearchNext ==
  ASSUME Typed, SearchInv, ResultsMatchSearch, [Next]_vars
  PROVE  SearchInv' /\ ResultsMatchSearch'
<1>1. UNCHANGED acting
  BY Untouched DEF Next, vars, world, Sale
<1>2. CASE Lists!Browse
  BY <1>1, <1>2, SearchTyped, SearchAnswered DEF Lists!Browse
<1>3. CASE UNCHANGED catalog
  BY <1>1, <1>3 DEF SearchInv, ResultsMatchSearch, catalog
<1> QED
  BY <1>2, <1>3 DEF Next, Sale, vars

(***************************************************************************)
(* The admin's pages                                                       *)
(***************************************************************************)

(* Lines taken from a catalogue that covers them, or given back to it.     *)
LEMMA MovedRows ==
  ASSUME catalogue \in Rows, NEW lines \in Cart
  PROVE  /\ Shop!Moved(lines, 1) \in Rows
         /\ (\A p \in DOMAIN lines :
               catalogue[p] # None /\ catalogue[p].quantity >= lines[p].quantity)
              => Shop!Moved(lines, -1) \in Rows
<1>1. \A p \in DOMAIN lines : lines[p].quantity \in Nat
  BY CartFacts, QuantityAssumption DEF Line
<1>2. \A p \in Product : catalogue[p] # None =>
        catalogue[p] \in Row /\ catalogue[p].quantity \in Nat
  BY DEF Rows, Row
<1>3. ASSUME NEW p \in Product, p \in DOMAIN lines, catalogue[p] # None
      PROVE  /\ [catalogue[p] EXCEPT !.quantity = @ + 1 * lines[p].quantity] \in Row
             /\ catalogue[p].quantity >= lines[p].quantity =>
                  [catalogue[p] EXCEPT !.quantity = @ + (-1) * lines[p].quantity] \in Row
  <2>1. catalogue[p].quantity \in Nat /\ lines[p].quantity \in Nat
    BY <1>1, <1>2, <1>3
  <2>2. \A n \in Nat : [catalogue[p] EXCEPT !.quantity = n] \in Row
    BY <1>2, <1>3 DEF Row
  <2>3. catalogue[p].quantity + 1 * lines[p].quantity \in Nat
    BY <2>1
  <2>4. catalogue[p].quantity >= lines[p].quantity =>
          catalogue[p].quantity + (-1) * lines[p].quantity \in Nat
    BY <2>1
  <2> QED
    BY <2>2, <2>3, <2>4
<1> QED
  BY <1>2, <1>3 DEF Rows, Shop!Moved

(* Whatever part of the storefront moves, the catalogue is one of rows.    *)
LEMMA CatalogueTyped ==
  ASSUME Typed, AdminTyped, [Next]_vars
  PROVE  catalogue' \in Rows
<1>1. catalogue \in Rows
  BY DEF AdminTyped
<1>2. CASE UNCHANGED catalogue
  BY <1>1, <1>2
<1>3. CASE Shopper
  <2>1. UNCHANGED catalogue \/ \E a \in Attempt : ServePost(a) /\ Shop!Place(a)
    BY <1>3 DEF Shopper, Answers, addItem, updateQuantity, removeItem, Edit, OpenCart, LeaveCart,
       Submit, StockArrives, ServePost, OrderConfirmed, OrderRefused, CheckoutLost, shop
  <2>2. ASSUME NEW a \in Attempt, ServePost(a), Shop!Place(a)
        PROVE  catalogue' \in Rows
    <3>1. attempt[a].lines \in Cart
      BY <2>2 DEF Typed, ServePost, AttemptState
    <3>2. orders'[a].line_items = attempt[a].lines
      <4>1. orders'[a] # None /\ a \in Order
        BY <2>2, OrderAssumption DEF Shop!Place
      <4>2. \/ orders' = [orders EXCEPT ![a] = [status |-> "pending", stock_restored |-> FALSE,
                                                line_items |-> attempt[a].lines]]
            \/ orders' = orders
        BY <2>2 DEF ServePost, shop
      <4> QED
        BY <2>2, <4>1, <4>2 DEF Shop!Place, Typed
    <3> QED
      BY <1>1, <2>2, <3>1, <3>2, MovedRows DEF Shop!Place
  <2> QED
    BY <1>2, <2>1, <2>2
<1>4. CASE Products!ManageProducts
  <2>1. UNCHANGED catalogue \/ Products!ServeSave \/ Products!ServeRemove
    BY <1>4 DEF Products!ManageProducts, Products!ServeLoad, Products!LoadArrives,
       Products!startEdit, Products!remove, Products!startCreate, Products!Cancel, Products!Type,
       Products!save, Products!SaveAnswered, Products!RemoveAnswered, Products!shop
  <2>2. CASE Products!ServeSave
    <3>1. saving \in Save
      BY <2>2 DEF AdminTyped, ProductsTyped, Products!ServeSave
    <3> QED
      BY <1>1, <2>2, <3>1 DEF Products!ServeSave, Products!Stored, Products!shop, Rows, Save
  <2>3. CASE Products!ServeRemove
    BY <1>1, <2>3 DEF Products!ServeRemove, Products!shop, Rows
  <2> QED
    BY <1>2, <2>1, <2>2, <2>3
<1>5. CASE Lists!ManageOrders
  <2>1. UNCHANGED catalogue \/ (Lists!ServePatch /\ Lists!Shop!Cancel(patch.order))
    BY <1>5 DEF Lists!ManageOrders, Lists!setFilter, Lists!ServeList, Lists!ListArrives,
       Lists!changeStatus, Lists!ServePatch, Lists!PatchAnswered, Lists!shop,
       Lists!Shop!SetStatus
  <2>2. CASE Lists!ServePatch /\ Lists!Shop!Cancel(patch.order)
    <3>1. orders[patch.order].line_items \in Cart
      BY <2>2 DEF Lists!ServePatch, Lists!Shop!Cancel, Typed, Patch, OrderRow
    <3>2. Lists!Shop!Moved(orders[patch.order].line_items, 1)
            = Shop!Moved(orders[patch.order].line_items, 1)
      BY DEF Lists!Shop!Moved, Shop!Moved
    <3> QED
      BY <1>1, <2>2, <3>1, <3>2, MovedRows DEF Lists!Shop!Cancel
  <2> QED
    BY <1>2, <2>1, <2>2
<1>6. CASE Sale
  <2>1. PICK a \in Attempt, p \in Product :
          /\ orders' = [orders EXCEPT ![a] = [status |-> "pending", stock_restored |-> FALSE,
                                              line_items |-> [q \in {p} |-> [quantity |-> 1]]]]
          /\ Shop!Place(a)
    BY <1>6 DEF Sale
  <2>2. [q \in {p} |-> [quantity |-> 1]] \in Cart
    <3>1. [q \in {p} |-> [quantity |-> 1]] \in [{p} -> Line]
      BY QuantityAssumption DEF Line
    <3> QED
      BY <3>1 DEF Cart
  <2>3. orders'[a].line_items = [q \in {p} |-> [quantity |-> 1]]
    BY <2>1, OrderAssumption DEF Typed
  <2> QED
    BY <1>1, <2>1, <2>2, <2>3, MovedRows DEF Shop!Place
<1>7. CASE Session \/ UNCHANGED shop
  BY <1>2, <1>7 DEF Session, Reload, MeArrives, MeFails, SignIn, SignedIn, SignInFails, logout,
     shop
<1> QED
  BY <1>3, <1>4, <1>5, <1>6, <1>7 DEF Next, vars

(* The list of products, its form and its requests.                        *)
LEMMA ProductsTypedStep ==
  ASSUME AdminTyped, Products!ManageProducts
  PROVE  ProductsTyped'
<1> USE DEF ProductsTyped
<1>1. ProductsTyped /\ catalogue \in Rows
  BY DEF AdminTyped
<1>2. Products!load => /\ loads' \in [Request -> [rows : Rows \cup {None}] \cup {None}]
                       /\ loading' \in BOOLEAN
  BY <1>1 DEF Products!load, Products!Launched
<1>3. ASSUME NEW c \in Request, Products!ServeLoad(c) \/ Products!LoadArrives(c)
      PROVE  ProductsTyped'
  <2>1. loads[c] \in [rows : Rows \cup {None}]
    BY <1>1, <1>3 DEF Products!ServeLoad, Products!LoadArrives
  <2> QED
    BY <1>1, <1>3, <2>1 DEF Products!ServeLoad, Products!LoadArrives
<1>4. Products!EMPTY_FORM \in Form
  BY DEF Products!EMPTY_FORM, Form
<1>5. ASSUME NEW p \in Product, Products!startEdit(p) \/ Products!remove(p)
      PROVE  ProductsTyped'
  <2>1. list[p] \in Row
    BY <1>1, <1>5 DEF Products!startEdit, Products!remove, Rows
  <2>2. Products!productToForm(p) \in Form
    BY <2>1 DEF Products!productToForm, Form, Row
  <2> QED
    BY <1>1, <1>5, <2>2 DEF Products!startEdit, Products!remove
<1>6. CASE Products!startCreate \/ Products!Cancel
  BY <1>1, <1>4, <1>6 DEF Products!startCreate, Products!Cancel, Products!cancel
<1>7. CASE Products!Type
  <2>1. \A t \in Sku : [form EXCEPT !.sku = t, !.typed = @ \cup {"sku"}] \in Form
    BY <1>1 DEF Form
  <2>2. \A n \in Quantity : [form EXCEPT !.quantity = n, !.typed = @ \cup {"quantity"}] \in Form
    BY <1>1, QuantityAssumption DEF Form
  <2>3. form' \in Form
    BY <1>7, <2>1, <2>2 DEF Products!Type
  <2> QED
    BY <1>1, <1>7, <2>3 DEF Products!Type
<1>8. CASE Products!save
  <2>1. Products!toProductWrite \in Row
    BY <1>1, <1>8 DEF Products!toProductWrite, Products!save, Form, Row
  <2>2. saving' \in Save
    BY <1>1, <1>8, <2>1 DEF Products!save, Form, Save
  <2> QED
    BY <1>1, <1>8, <2>2 DEF Products!save
<1>9. CASE Products!ServeSave
  <2>1. saving \in Save
    BY <1>1, <1>9 DEF Products!ServeSave
  <2>2. saving' \in Save
    BY <1>9, <2>1 DEF Products!ServeSave, Save
  <2> QED
    BY <1>1, <1>9, <2>2 DEF Products!ServeSave
<1>10. CASE Products!SaveAnswered
  BY <1>1, <1>2, <1>4, <1>10 DEF Products!SaveAnswered, Products!cancel
<1>11. CASE Products!ServeRemove \/ Products!RemoveAnswered
  BY <1>1, <1>2, <1>11 DEF Products!ServeRemove, Products!RemoveAnswered
<1> QED
  BY <1>3, <1>5, <1>6, <1>7, <1>8, <1>9, <1>10, <1>11 DEF Products!ManageProducts

(* The table of orders and its requests.                                   *)
LEMMA OrdersTypedStep ==
  ASSUME Typed, AdminTyped, Lists!ManageOrders
  PROVE  OrdersTyped'
<1> USE DEF OrdersTyped
<1>1. OrdersTyped /\ filter \in Lists!Filter /\ patch \in Patch \cup {None}
  BY DEF AdminTyped, Typed
<1>2. \A f \in Lists!Filter : Lists!load(f) =>
        /\ lists' \in [Request -> ListRequest \cup {None}]
        /\ listing' \in BOOLEAN /\ newest' \in Newest
  BY <1>1 DEF Lists!load, ListRequest, Newest
<1>3. \A f : Lists!Matching(f) \in Table
  BY DEF Lists!Matching, Table, Typed, OrderRow
<1>4. ASSUME NEW c \in Request, Lists!ServeList(c) \/ Lists!ListArrives(c)
      PROVE  OrdersTyped'
  <2>1. lists[c] \in ListRequest
    BY <1>1, <1>4 DEF Lists!ServeList, Lists!ListArrives
  <2>2. CASE Lists!ServeList(c)
    <3>1. [lists[c] EXCEPT !.rows = Lists!Matching(lists[c].filter)]
            \in ListRequest
      BY <1>3, <2>1 DEF ListRequest
    <3>2. lists' = [lists EXCEPT ![c] =
                     [lists[c] EXCEPT !.rows = Lists!Matching(lists[c].filter)]]
      BY <2>2 DEF Lists!ServeList
    <3> QED
      BY <1>1, <2>2, <3>1, <3>2 DEF Lists!ServeList
  <2>3. CASE Lists!ListArrives(c)
    <3>1. newest' \in Newest
      BY <1>1, <2>3 DEF Lists!ListArrives, Newest
    <3> QED
      BY <1>1, <2>1, <2>3, <3>1 DEF Lists!ListArrives, ListRequest
  <2> QED
    BY <1>4, <2>2, <2>3
<1>5. ASSUME NEW f \in Lists!Filter, Lists!setFilter(f)
      PROVE  OrdersTyped'
  BY <1>1, <1>2, <1>5 DEF Lists!setFilter
<1>6. CASE Lists!PatchAnswered
  BY <1>1, <1>2, <1>6 DEF Lists!PatchAnswered, Patch
<1>7. CASE Lists!ServePatch \/ \E o \in Order : Lists!changeStatus(o)
  BY <1>1, <1>7 DEF Lists!ServePatch, Lists!changeStatus
<1> QED
  BY <1>4, <1>5, <1>6, <1>7 DEF Lists!ManageOrders

LEMMA AdminTypedNext ==
  ASSUME Typed, AdminTyped, [Next]_vars
  PROVE  AdminTyped'
<1>1. ProductsTyped'
  <2>1. ProductsTyped
    BY DEF AdminTyped
  <2>2. Products!ManageProducts \/ UNCHANGED productAdmin
    BY DEF Next, Sale, vars
  <2> QED
    BY <2>1, <2>2, ProductsTypedStep DEF productAdmin, ProductsTyped
<1>2. OrdersTyped'
  <2>1. OrdersTyped
    BY DEF AdminTyped
  <2>2. Lists!ManageOrders \/ UNCHANGED orderAdmin
    BY DEF Next, Sale, vars
  <2> QED
    BY <2>1, <2>2, OrdersTypedStep DEF orderAdmin, OrdersTyped
<1>3. ResultsTyped'
  <2>1. ResultsTyped /\ queries \in [Request -> Query \cup {None}]
    BY DEF AdminTyped, Typed
  <2>2. Lists!Browse \/ UNCHANGED catalog
    BY DEF Next, Sale, vars
  <2>3. CASE Lists!Browse
    BY <2>1, <2>3 DEF Lists!Browse, Lists!setSearch, Lists!QueryArrives, ResultsTyped, Query
  <2> QED
    BY <2>1, <2>2, <2>3 DEF catalog, ResultsTyped
<1> QED
  BY <1>1, <1>2, <1>3, CatalogueTyped DEF AdminTyped

(* The form, and the save made from it.                                    *)
LEMMA FormStep ==
  ASSUME AdminTyped, FormInv, Products!ManageProducts
  PROVE  FormInv'
<1>1. ProductsTyped /\ FormInv
  BY DEF AdminTyped
<1>2. form \in Form /\ list \in Rows /\ (saving # None => saving \in Save)
  BY <1>1 DEF ProductsTyped
<1>3. CASE UNCHANGED <<editing, form, saving>>
  BY <1>1, <1>3 DEF FormInv, Untyped
<1>10. ASSUME form' = Products!EMPTY_FORM, editing' \in {"new", None},
              saving' = None \/ saving' = saving
       PROVE  FormInv'
  <2>1. form'.of = "new"
    BY <1>10 DEF Products!EMPTY_FORM
  <2> QED
    BY <1>1, <1>10, <2>1 DEF FormInv, Untyped
<1>4. ASSUME NEW p \in Product, Products!startEdit(p)
      PROVE  FormInv'
  <2>1. list[p] \in Row
    BY <1>2, <1>4 DEF Products!startEdit, Rows
  <2> QED
    BY <1>1, <1>4, <2>1 DEF Products!startEdit, Products!productToForm, FormInv, Untyped
<1>5. CASE Products!startCreate \/ Products!Cancel
  BY <1>5, <1>10 DEF Products!startCreate, Products!Cancel, Products!cancel
<1>6. CASE Products!Type
  <2>1. PICK g \in {"sku", "quantity"} : \E v :
          form' = IF g = "sku" THEN [form EXCEPT !.sku = v, !.typed = @ \cup {g}]
                               ELSE [form EXCEPT !.quantity = v, !.typed = @ \cup {g}]
    BY <1>6 DEF Products!Type
  <2> PICK v : form' = IF g = "sku" THEN [form EXCEPT !.sku = v, !.typed = @ \cup {g}]
                                    ELSE [form EXCEPT !.quantity = v, !.typed = @ \cup {g}]
    BY <2>1
  <2>2. /\ form'.of = form.of /\ form'.listed = form.listed
        /\ "sku" \notin form'.typed => "sku" \notin form.typed /\ form'.sku = form.sku
        /\ "quantity" \notin form'.typed =>
             "quantity" \notin form.typed /\ form'.quantity = form.quantity
    BY <1>2 DEF Form
  <2> QED
    BY <1>1, <1>6, <2>2 DEF Products!Type, FormInv, Untyped
<1>7. CASE Products!save
  BY <1>1, <1>7 DEF Products!save, Products!toProductWrite, FormInv, Untyped
<1>8. CASE Products!ServeSave
  <2>1. /\ saving'.key = saving.key /\ saving'.body = saving.body /\ saving'.of = saving.of
        /\ saving'.listed = saving.listed /\ saving'.typed = saving.typed
    BY <1>2, <1>8 DEF Products!ServeSave, Save
  <2> QED
    BY <1>1, <1>8, <2>1 DEF Products!ServeSave, FormInv, Untyped
<1>9. CASE Products!SaveAnswered
  <2>1. CASE UNCHANGED <<editing, form>>
    BY <1>1, <1>9, <2>1 DEF Products!SaveAnswered, FormInv, Untyped
  <2>2. CASE Products!cancel
    BY <1>9, <1>10, <2>2 DEF Products!SaveAnswered, Products!cancel
  <2> QED
    BY <1>9, <2>1, <2>2 DEF Products!SaveAnswered
<1> QED
  BY <1>3, <1>4, <1>5, <1>6, <1>7, <1>8, <1>9
     DEF Products!ManageProducts, Products!ServeLoad, Products!LoadArrives, Products!remove,
         Products!ServeRemove, Products!RemoveAnswered

(* When everything is answered, the newest request is.                     *)
LEMMA TableSettled ==
  ASSUME TableInv, AdminTyped
  PROVE  TableShowsTheFilter
<1> SUFFICES ASSUME AloneWithOrders, Lists!OrdersSettled, ~failed
             PROVE  /\ newest.overtaken \/ table = Lists!Matching(newest.filter)
                    /\ patient => newest.filter = filter /\ ~newest.overtaken
  BY DEF TableShowsTheFilter
<1>1. newest.at \in Request \cup {None}
  BY DEF AdminTyped, OrdersTyped, Newest
<1>2. newest.at = None
  BY <1>1 DEF TableInv, Lists!OrdersSettled, Lists!Quiet
<1>3. ~Changed
  BY DEF Changed, Lists!OrdersSettled
<1> QED
  BY <1>2, <1>3 DEF TableInv

(* The table, while only its admin acts.                                   *)
LEMMA TableStep ==
  ASSUME Typed, AdminTyped, TableInv, Lists!ManageOrders, AloneWithOrders, UNCHANGED acting
  PROVE  TableInv'
<1>1. (patient <=> patient') /\ (patient <=> Lists!patient) /\ AloneWithOrders'
  BY DEF patient, Lists!patient, AloneWithOrders
<1>2. /\ lists \in [Request -> ListRequest \cup {None}] /\ newest \in Newest
      /\ filter \in Lists!Filter /\ patch \in Patch \cup {None}
  BY DEF AdminTyped, OrdersTyped, Typed
<1>3. patient /\ Lists!AdminMayAct => Lists!OrdersSettled
  BY <1>1 DEF Lists!AdminMayAct
<1>4. patient /\ patch # None => Lists!Quiet(lists) /\ patch.filter = filter
  BY DEF TableInv, Lists!Quiet
<1>5. ASSUME NEW f \in Lists!Filter, Lists!load(f),
             patient => Lists!Quiet(lists) /\ patch' = None /\ filter' = f
      PROVE  TableInv'
  <2>1. PICK c \in Request :
          /\ lists' = [lists EXCEPT ![c] = [filter |-> f, rows |-> None]]
          /\ newest' = [filter |-> f, at |-> c, overtaken |-> FALSE]
    BY <1>5 DEF Lists!load
  <2>2. [filter |-> f, rows |-> None] \in ListRequest
    BY DEF ListRequest
  <2>3. /\ lists'[c] = [filter |-> f, rows |-> None] /\ lists'[c] # None
        /\ \A d \in Request \ {c} : lists'[d] = lists[d]
    BY <1>2, <2>1, <2>2, RecordAssumption
  <2>4. lists'[c].filter = f /\ lists'[c].rows = None
    BY <2>3
  <2>5. newest'.filter = f /\ newest'.at = c /\ newest'.overtaken = FALSE /\ c # None
    BY <2>1, NoneAssumption
  <2>6. patient => \A d \in Request : lists'[d] # None => d = c
    BY <1>5, <2>3 DEF Lists!Quiet
  <2> QED
    BY <1>1, <1>5, <2>3, <2>4, <2>5, <2>6 DEF TableInv
<1>6. ASSUME NEW f \in Lists!Filter, Lists!setFilter(f)
      PROVE  TableInv'
  BY <1>3, <1>5, <1>6 DEF Lists!setFilter, Lists!OrdersSettled
<1>7. ASSUME NEW c \in Request, Lists!ServeList(c)
      PROVE  TableInv'
  <2>1. lists[c] \in ListRequest /\ lists[c] # None
    BY <1>2, <1>7 DEF Lists!ServeList
  <2>2. lists' = [lists EXCEPT ![c] = [lists[c] EXCEPT !.rows = Lists!Matching(lists[c].filter)]]
    BY <1>7 DEF Lists!ServeList
  <2>3. Lists!Matching(lists[c].filter) \in Table
    BY DEF Lists!Matching, Table, Typed, OrderRow
  <2>4. [lists[c] EXCEPT !.rows = Lists!Matching(lists[c].filter)] \in ListRequest
    BY <2>1, <2>3 DEF ListRequest
  <2>5. /\ lists'[c].filter = lists[c].filter
        /\ lists'[c].rows = Lists!Matching(lists[c].filter)
        /\ lists'[c] # None /\ \A d \in Request \ {c} : lists'[d] = lists[d]
    BY <1>2, <2>1, <2>2, <2>4, RecordAssumption DEF ListRequest
  <2>6. /\ UNCHANGED <<patch, filter, table, failed, newest, orders>>
        /\ UNCHANGED Lists!Matching(newest.filter) /\ UNCHANGED Changed
    BY <1>7 DEF Lists!ServeList, Lists!shop, Lists!Matching, Changed
  <2>7. newest.at # None =>
          /\ lists'[newest.at] # None /\ lists'[newest.at].filter = newest.filter
          /\ Changed \/ lists'[newest.at].rows \in {None, Lists!Matching(newest.filter)}
    <3> SUFFICES ASSUME newest.at # None
                 PROVE  /\ lists'[newest.at] # None /\ lists'[newest.at].filter = newest.filter
                        /\ Changed \/ lists'[newest.at].rows
                                        \in {None, Lists!Matching(newest.filter)}
      OBVIOUS
    <3>1. newest.at \in Request
      BY <1>2 DEF Newest
    <3>2. /\ lists[newest.at] # None /\ lists[newest.at].filter = newest.filter
          /\ Changed \/ lists[newest.at].rows \in {None, Lists!Matching(newest.filter)}
      BY DEF TableInv
    <3> QED
      BY <2>5, <3>1, <3>2
  <2>8. patient => \A d \in Request : lists'[d] # None => d = newest.at /\ patch = None
    BY <2>1, <2>5 DEF TableInv
  <2> QED
    BY <1>1, <2>6, <2>7, <2>8 DEF TableInv
<1>8. ASSUME NEW c \in Request, Lists!ListArrives(c)
      PROVE  TableInv'
  <2>1. /\ lists[c] # None /\ lists'[c] = None
        /\ \A d \in Request \ {c} : lists'[d] = lists[d]
    BY <1>2, <1>8 DEF Lists!ListArrives
  <2>2. UNCHANGED <<patch, filter, orders>> /\ UNCHANGED Lists!Matching(newest.filter)
    BY <1>8 DEF Lists!ListArrives, Lists!shop, Lists!Matching
  <2>3. \/ lists[c].rows # None /\ table' = lists[c].rows /\ UNCHANGED failed
        \/ failed'
    BY <1>8 DEF Lists!ListArrives
  <2>4. Changed => Changed'
    BY <2>2, <2>3 DEF Changed
  <2>5. newest'.filter = newest.filter
    BY <1>2, <1>8 DEF Lists!ListArrives, Newest
  <2>6. CASE newest.at = c
    <3>1. newest'.at = None /\ newest'.overtaken = newest.overtaken
      BY <1>2, <1>8, <2>6 DEF Lists!ListArrives, Newest
    <3>2. Changed \/ lists[c].rows \in {None, Lists!Matching(newest.filter)}
      BY <2>6, NoneAssumption DEF TableInv
    <3>3. Changed' \/ table' = Lists!Matching(newest.filter)
      BY <2>3, <2>4, <3>2 DEF Changed
    <3>4. patient => \A d \in Request : lists'[d] = None
      BY <2>1, <2>6 DEF TableInv
    <3>5. patient => newest.filter = filter /\ ~newest.overtaken
                     /\ (patch # None => patch.filter = filter)
      BY DEF TableInv
    <3> QED
      BY <1>1, <2>2, <2>5, <3>1, <3>3, <3>4, <3>5 DEF TableInv
  <2>7. CASE newest.at # c
    <3>1. /\ newest'.at = newest.at
          /\ newest'.overtaken = (newest.overtaken \/ newest.at = None)
      BY <1>2, <1>8, <2>7 DEF Lists!ListArrives, Newest
    <3>2. ~patient
      BY <2>1, <2>7 DEF TableInv
    <3>3. newest.at # None =>
            /\ lists'[newest.at] # None /\ lists'[newest.at].filter = newest.filter
            /\ Changed \/ lists'[newest.at].rows \in {None, Lists!Matching(newest.filter)}
      <4>1. newest.at # None => newest.at \in Request \ {c}
        BY <1>2, <2>7 DEF Newest
      <4> QED
        BY <2>1, <4>1 DEF TableInv
    <3> QED
      BY <1>1, <2>2, <2>4, <2>5, <3>1, <3>2, <3>3 DEF TableInv
  <2> QED
    BY <2>6, <2>7
<1>9. ASSUME NEW o \in Order, Lists!changeStatus(o)
      PROVE  TableInv'
  <2>1. /\ patch = None /\ patch'.stage = "sent" /\ patch'.filter = filter
        /\ UNCHANGED <<filter, table, lists, failed, newest, orders>>
        /\ patient => Lists!Quiet(lists)
    BY <1>3, <1>9 DEF Lists!changeStatus, Lists!shop, Lists!OrdersSettled
  <2>2. UNCHANGED Lists!Matching(newest.filter) /\ UNCHANGED Changed
    BY <2>1 DEF Lists!Matching, Changed
  <2>3. patient => \A c \in Request : lists[c] = None
    BY <2>1 DEF Lists!Quiet
  <2> QED
    BY <1>1, <2>1, <2>2, <2>3 DEF TableInv
<1>10. CASE Lists!ServePatch
  <2>1. patch \in Patch /\ patch # None /\ UNCHANGED <<filter, table, lists, failed, newest>>
    BY <1>2, <1>10 DEF Lists!ServePatch
  <2>2. patch' \in Patch /\ patch'.filter = patch.filter /\ patch' # None
        /\ (patch'.stage = "ok" \/ UNCHANGED orders)
    BY <1>10, <2>1, RecordAssumption DEF Lists!ServePatch, Lists!shop, Patch
  <2>3. CASE patch'.stage = "ok"
    <3>1. Changed'
      BY <2>2, <2>3 DEF Changed
    <3>2. patient => \A c \in Request : lists'[c] = None
      BY <1>4, <2>1 DEF Lists!Quiet
    <3> QED
      BY <1>1, <1>4, <2>1, <2>2, <3>1, <3>2 DEF TableInv
  <2>4. CASE UNCHANGED orders
    <3>1. UNCHANGED Lists!Matching(newest.filter)
      BY <2>1, <2>4 DEF Lists!Matching
    <3>2. Changed => Changed'
      BY <1>10, <2>1, <2>2 DEF Changed, Lists!ServePatch
    <3>3. patient => \A c \in Request : lists'[c] = None
      BY <1>4, <2>1 DEF Lists!Quiet
    <3> QED
      BY <1>1, <1>4, <2>1, <2>2, <3>1, <3>2, <3>3 DEF TableInv
  <2> QED
    BY <2>2, <2>3, <2>4
<1>11. CASE Lists!PatchAnswered
  <2>1. patch # None /\ patch' = None /\ UNCHANGED <<filter, table>> /\ patch.filter \in Lists!Filter
    BY <1>2, <1>11 DEF Lists!PatchAnswered, Patch
  <2>2. CASE failed' /\ UNCHANGED <<lists, newest>>
    <3>1. patient => \A c \in Request : lists'[c] = None
      BY <1>4, <2>1, <2>2 DEF Lists!Quiet
    <3>2. Changed'
      BY <2>2 DEF Changed
    <3> QED
      BY <1>1, <2>1, <2>2, <3>1, <3>2 DEF TableInv
  <2>3. CASE Lists!load(patch.filter)
    BY <1>4, <1>5, <2>1, <2>3
  <2> QED
    BY <1>11, <2>2, <2>3 DEF Lists!PatchAnswered
<1> QED
  BY <1>6, <1>7, <1>8, <1>9, <1>10, <1>11 DEF Lists!ManageOrders

LEMMA AdminNext ==
  ASSUME Typed, AdminInv, [Next]_vars
  PROVE  AdminInv'
<1>1. AdminTyped /\ FormInv /\ TableInv
  BY DEF AdminInv
<1>2. AdminTyped'
  BY <1>1, AdminTypedNext
<1>3. FormInv'
  <2>1. Products!ManageProducts \/ UNCHANGED productAdmin
    BY DEF Next, Sale, vars
  <2>2. CASE UNCHANGED productAdmin
    BY <1>1, <2>2 DEF productAdmin, FormInv, Untyped
  <2> QED
    BY <1>1, <2>1, <2>2, FormStep
<1>4. TableInv'
  <2>1. UNCHANGED acting
    BY Untouched DEF Next, vars, world, Sale
  <2>2. CASE ~AloneWithOrders
    BY <2>1, <2>2 DEF TableInv, AloneWithOrders
  <2>3. CASE AloneWithOrders
    <3>1. Lists!ManageOrders \/ UNCHANGED vars
      BY <2>3 DEF Next, AloneWithOrders
    <3>2. CASE UNCHANGED vars
      BY <1>1, <3>2 DEF vars, world, shop, orderAdmin, TableInv, AloneWithOrders, Changed,
         Lists!Matching, patient
    <3> QED
      BY <1>1, <2>1, <2>3, <3>1, <3>2, TableStep
  <2> QED
    BY <2>2, <2>3
<1> QED
  BY <1>2, <1>3, <1>4 DEF AdminInv

LEMMA InitAdmin ==
  ASSUME Init
  PROVE  AdminInv
<1>1. ProductsTyped
  <2>1. loads \in [Request -> [rows : Rows \cup {None}] \cup {None}]
    BY DEF Init, Opened, Launched
  <2>2. form \in Form
    BY DEF Init, Products!EMPTY_FORM, Form
  <2> QED
    BY <2>1, <2>2 DEF Init, ProductsTyped, Rows
<1>2. /\ [filter |-> "all", rows |-> None] \in ListRequest
      /\ [filter |-> "all", rows |-> None] # None
  <2>1. [filter |-> "all", rows |-> None] \in ListRequest
    BY DEF ListRequest, Lists!Filter
  <2> QED
    BY <2>1, RecordAssumption
<1>3. OrdersTyped
  <2>1. lists \in [Request -> ListRequest \cup {None}]
    BY <1>2 DEF Init, Opened, Launched
  <2> QED
    <3>1. newest \in Newest
      <4>1. "orders" \in acting => \E c \in Request : lists[c] # None
        BY <1>2 DEF Init, Opened, Launched
      <4> QED
        BY <4>1 DEF Init, Newest, Lists!Filter
    <3> QED
      BY <2>1, <3>1 DEF Init, OrdersTyped, Table
<1>4. AdminTyped
  BY <1>1, <1>3, TextAssumption, InitialCatalogueAssumption DEF Init, AdminTyped, ResultsTyped
<1>5. FormInv
  BY DEF Init, FormInv, Untyped, Products!EMPTY_FORM
<1>6. TableInv
  <2> SUFFICES ASSUME AloneWithOrders
               PROVE  TableInv
    BY DEF TableInv
  <2>1. PICK c \in Request :
          lists = [[d \in Request |-> None] EXCEPT ![c] = [filter |-> "all", rows |-> None]]
    BY DEF Init, Opened, Launched, AloneWithOrders
  <2>2. /\ lists[c] = [filter |-> "all", rows |-> None]
        /\ \A d \in Request \ {c} : lists[d] = None
    BY <2>1
  <2>3. patch = None /\ filter = "all"
    BY DEF Init
  <2>4. newest.filter = "all" /\ newest.at = c /\ newest.overtaken = FALSE
    BY <1>2, <2>2 DEF Init, AloneWithOrders
  <2> QED
    BY <1>2, <2>2, <2>3, <2>4, NoneAssumption DEF TableInv
<1> QED
  BY <1>4, <1>5, <1>6 DEF AdminInv

(***************************************************************************)
(* The theorems                                                            *)
(***************************************************************************)

LEMMA InitIInv ==
  ASSUME Init
  PROVE  IInv
<1>1. Typed
  <2>1. items \in Cart /\ page \in {"cart", "other"} /\ submitting \in BOOLEAN
    BY CartFacts DEF Init
  <2>2. attempt \in [Attempt -> AttemptState \cup {None}]
    BY DEF Init
  <2>3. orders \in [Order -> OrderRow \cup {None}]
    BY InitialOrderAssumption DEF Init
  <2>4. filter \in Lists!Filter /\ patch \in Patch \cup {None}
    BY DEF Init, Lists!Filter
  <2>5. token \in Account \cup {None}
    BY OwnerAssumption DEF Init, Customers
  <2>6. SessionTyped
    BY <2>5 DEF Init, SessionTyped
  <2>7. queries \in [Request -> Query \cup {None}]
    <3>1. [text |-> search, cancelled |-> FALSE] \in Query
      BY TextAssumption DEF Init, Query
    <3>2. [c \in Request |-> None] \in [Request -> Query \cup {None}]
      OBVIOUS
    <3>3. queries = [c \in Request |-> None] \/ \E d \in Request :
            queries = [[c \in Request |-> None] EXCEPT ![d] =
                         [text |-> search, cancelled |-> FALSE]]
      BY DEF Init, Opened, Launched
    <3> QED
      BY <3>1, <3>2, <3>3
  <2> QED
    BY <2>1, <2>2, <2>3, <2>4, <2>6, <2>7 DEF Typed, SessionTyped
<1>2. \A a \in Attempt : attempt[a] = None
  BY DEF Init
<1>3. CartInv
  BY <1>2 DEF CartInv, OrdersOfAttempts, KeptOrCleared, CartKeptUntilOrdered, OneWaiting,
     Waiting, EarlierFailed, Init
<1>4. SessionInv /\ OrderedByTheShownUser
  <2>1. Pending = {}
    BY <1>2 DEF Pending
  <2>2. /\ storedUser \in {token, None} /\ user = storedUser /\ signin = None
        /\ me = IF user = None THEN token ELSE None
    BY DEF Init
  <2> QED
    BY <1>2, <2>1, <2>2 DEF SessionInv, OrderedByTheShownUser
<1>5. SearchInv /\ ResultsMatchSearch
  <2>1. /\ search = "all"
        /\ queries \in Opened("search", [text |-> search, cancelled |-> FALSE])
    BY DEF Init
  <2>2. CASE "search" \notin acting
    <3>1. queries = [c \in Request |-> None]
      BY <2>1, <2>2 DEF Opened
    <3> QED
      BY <2>2, <3>1 DEF SearchInv, ResultsMatchSearch
  <2>3. CASE "search" \in acting
    <3>1. PICK d \in Request :
            queries = [[c \in Request |-> None] EXCEPT ![d] =
                         [text |-> search, cancelled |-> FALSE]]
      BY <2>1, <2>3 DEF Opened, Launched
    <3>2. queries[d] = [text |-> search, cancelled |-> FALSE]
      BY <3>1
    <3>3. queries[d] # None /\ ~queries[d].cancelled /\ queries[d].text = search
      <4>1. [text |-> search, cancelled |-> FALSE] \in Query
        BY <2>1, TextAssumption DEF Query
      <4>2. queries[d] # None
        BY <3>2, <4>1, RecordAssumption
      <4> QED
        BY <3>2, <4>2
    <3>4. \A c \in Request : c # d => queries[c] = None
      BY <3>1
    <3> QED
      BY <3>3, <3>4 DEF SearchInv, ResultsMatchSearch
  <2> QED
    BY <2>2, <2>3
<1> QED
  BY <1>1, <1>3, <1>4, <1>5, InitAdmin DEF IInv

LEMMA NextIInv ==
  ASSUME IInv, [Next]_vars
  PROVE  IInv'
<1>1. stored = items
  BY DEF IInv, CartInv
<1> QED
  BY <1>1, TypedNext, CartNext, SessionNext, SearchNext, AdminNext DEF IInv

(* In every reachable state of the pages the invariant holds: what the     *)
(* checkouts of the tab, its cart, its session and its search have to do   *)
(* with each other, for any products, accounts and number of checkouts.    *)
THEOREM StorefrontInvariantHolds == Spec => []IInv
<1>1. Init => IInv
  BY InitIInv
<1>2. IInv /\ [Next]_vars => IInv'
  BY NextIInv
<1> QED
  BY <1>1, <1>2, PTL DEF Spec

(* A cart that was submitted and not edited since is kept, on the page and *)
(* in localStorage, until it is ordered (Cart.jsx, CartContext.jsx), or    *)
(* until the confirmation of an older checkout clears it.                  *)
THEOREM CartIsKept == Spec => []CartKeptUntilOrdered
<1>1. IInv => CartKeptUntilOrdered
  BY DEF IInv, CartInv
<1> QED
  BY <1>1, StorefrontInvariantHolds, PTL

(* The `submitting` flag and clearCart of Cart.jsx keep one cart from      *)
(* being ordered twice by a page that stays and is answered.               *)
THEOREM SecondOrders == Spec => []SecondOrderHasACause
<1>1. IInv => SecondOrderHasACause
  <2> SUFFICES ASSUME IInv, NEW a \in Attempt, NEW b \in Attempt, orders[a] # None,
                      attempt[b] # None, a \in attempt[b].again
               PROVE  attempt[a].view # "mounted"
    BY DEF SecondOrderHasACause
  <2>1. attempt[a] # None /\ (attempt[a].view = "mounted" => attempt[a].stage = "failed")
    BY DEF IInv, CartInv, EarlierFailed
  <2>2. attempt[a].stage \in {"placed", "ok"}
    BY <2>1 DEF IInv, CartInv, OrdersOfAttempts
  <2> QED
    BY <2>1, <2>2
<1> QED
  BY <1>1, StorefrontInvariantHolds, PTL

(* Between the acts of a patient user, AuthContext's user, the stored user *)
(* and the token are of one account.                                       *)
THEOREM SessionsAgree == Spec => []SessionAgrees
<1>1. IInv => SessionAgrees
  BY DEF IInv, SessionInv, SessionAgrees
<1> QED
  BY <1>1, StorefrontInvariantHolds, PTL

(* A patient user's order is sent with the token of the account the cart   *)
(* page showed when its button was pressed.                                *)
THEOREM OrdersByTheShownUser == Spec => []OrderedByTheShownUser
<1>1. IInv => OrderedByTheShownUser
  BY DEF IInv
<1> QED
  BY <1>1, StorefrontInvariantHolds, PTL

(* The cleanup of the search's effect makes the products on the page those *)
(* of the text in the box, however many answers are late.                  *)
THEOREM SearchResultsMatch == Spec => []ResultsMatchSearch
<1>1. IInv => ResultsMatchSearch
  BY DEF IInv
<1> QED
  BY <1>1, StorefrontInvariantHolds, PTL

(* The catalogue, the orders, the forms and the tables of the pages, and   *)
(* what the requests of each page carry, always have their types: no       *)
(* checkout, edit or answer makes a row the shop does not know.            *)
THEOREM StorefrontTypes == Spec => []TypeOK
<1>1. IInv => TypeOK
  BY CartFacts DEF IInv, CartInv, AdminInv, AdminTyped, ProductsTyped, OrdersTyped, ResultsTyped,
     Typed, TypeOK, Save
<1> QED
  BY <1>1, StorefrontInvariantHolds, PTL

(* AdminOrders.jsx, with an admin who is alone: once every answer is there *)
(* and no error is shown, the table is that of the filter asked for last,  *)
(* with the present statuses, unless an answer to an earlier request came  *)
(* after that of the newest; an admin who waits for each answer is spared  *)
(* that, and has asked last for the filter above the table.                *)
THEOREM TableMatchesFilter == Spec => []TableShowsTheFilter
<1>1. IInv => TableShowsTheFilter
  BY TableSettled DEF IInv, AdminInv
<1> QED
  BY <1>1, StorefrontInvariantHolds, PTL

(* AdminProducts.jsx: a save goes to the product its form was opened from, *)
(* and from the row that was listed it changes only the fields typed into. *)
THEOREM SavesWhatWasTyped == Spec => SaveChangesOnlyWhatWasTyped
<1> DEFINE SaveStored ==
      saving # None /\ saving' # None /\ saving.stage = "sent" /\ saving'.stage = "ok"
    TypedOnly ==
      /\ saving.key = saving.of
      /\ saving.key # "new" /\ catalogue[saving.key] = saving.listed =>
           \A f \in {"sku", "quantity"} \ saving.typed :
             catalogue'[saving.key][f] = catalogue[saving.key][f]
<1>1. IInv /\ [Next]_vars => [SaveStored => TypedOnly]_vars
  <2> SUFFICES ASSUME IInv, Next, SaveStored
               PROVE  TypedOnly
    OBVIOUS
  <2>1. saving \in Save /\ catalogue \in Rows /\ FormInv
    BY DEF IInv, AdminInv, AdminTyped, ProductsTyped
  <2>2. Products!ManageProducts
    BY DEF Next, Sale, productAdmin
  <2>3. Products!ServeSave /\ \E p \in Product : Products!Stored(p)
    BY <2>1, <2>2 DEF Products!ManageProducts, Products!ServeLoad, Products!LoadArrives,
       Products!startEdit, Products!remove, Products!startCreate, Products!Cancel, Products!Type,
       Products!save, Products!ServeSave, Products!SaveAnswered, Products!ServeRemove,
       Products!RemoveAnswered, Save
  <2>4. saving.key = saving.of
        /\ Untyped(saving.of, saving.listed, saving.typed, saving.body.sku, saving.body.quantity)
    BY DEF IInv, AdminInv, FormInv
  <2>5. CASE saving.key = "new"
    BY <2>4, <2>5
  <2>6. CASE saving.key # "new"
    <3>1. saving.key \in Product /\ catalogue' = [catalogue EXCEPT ![saving.key] = saving.body]
      BY <2>3, <2>6 DEF Products!Stored
    <3>2. catalogue'[saving.key] = saving.body
      BY <2>1, <3>1 DEF Rows
    <3>3. ASSUME catalogue[saving.key] = saving.listed,
                 NEW f \in {"sku", "quantity"} \ saving.typed
          PROVE  catalogue'[saving.key][f] = catalogue[saving.key][f]
      <4>1. \/ f = "sku" /\ saving.body.sku = saving.listed.sku
            \/ f = "quantity" /\ saving.body.quantity = saving.listed.quantity
        BY <2>4, <2>6, <3>3 DEF Untyped
      <4>2. CASE f = "sku"
        BY <3>2, <3>3, <4>1, <4>2
      <4>3. CASE f = "quantity"
        BY <3>2, <3>3, <4>1, <4>3
      <4> QED
        BY <4>2, <4>3
    <3> QED
      BY <2>4, <3>3
  <2> QED
    BY <2>5, <2>6
<1> QED
  BY <1>1, StorefrontInvariantHolds, PTL DEF Spec, SaveChangesOnlyWhatWasTyped
=============================================================================
