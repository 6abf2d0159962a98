------------------------------- MODULE CartPage -------------------------------
(***************************************************************************)
(* CartContext.jsx, Cart.jsx and validateCartStock.js.  attempt[a] is one  *)
(* run of handleCheckout: the items its closure holds, how far it is, and  *)
(* who waits for it: the page still "mounted", the tab whose page is       *)
(* "left", or nobody ("deaf").  history: `kept` is TRUE until the user     *)
(* edits the cart before it is confirmed, `again` the attempts before it   *)
(* at the same cart.                                                       *)
(***************************************************************************)
EXTENDS BrowserState

(* setItems, and the effect that writes localStorage after it.             *)
SetItems(new) == items' = new /\ stored' = new

(* An edit by the user.                                                    *)
Edit(new) ==
  /\ CustomerMayAct
  /\ SetItems(new)
  /\ attempt' = [a \in Attempt |-> IF attempt[a] = None \/ attempt[a].stage = "ok"
                                     THEN attempt[a]
                                     ELSE [attempt[a] EXCEPT !.kept = FALSE]]
  /\ UNCHANGED <<page, submitting, world, shop, session>>

With(p, n) ==
  [q \in DOMAIN items \cup {p} |-> IF q = p THEN [quantity |-> n] ELSE items[q]]

(* From the card of a product.                                             *)
addItem(p) ==
  LET n == 1 + (IF p \in DOMAIN items THEN items[p].quantity ELSE 0) IN
  page = "other" /\ catalogue[p] # None /\ n <= MaxQuantity /\ Edit(With(p, n))

updateQuantity(p) ==
  /\ page = "cart" /\ p \in DOMAIN items
  /\ \E n \in 1..MaxQuantity : n # items[p].quantity /\ Edit(With(p, n))

removeItem(p) ==
  /\ page = "cart" /\ p \in DOMAIN items
  /\ Edit([q \in DOMAIN items \ {p} |-> items[q]])

(* The cart page is behind ProtectedRoute; each visit mounts a new Cart    *)
(* with `submitting` unset.                                                *)
OpenCart ==
  /\ CustomerMayAct /\ page = "other" /\ user # None
  /\ page' = "cart" /\ submitting' = FALSE
  /\ UNCHANGED <<items, stored, attempt, world, shop, session>>

LeaveCart ==
  /\ CustomerMayAct /\ page = "cart"
  /\ page' = "other" /\ attempt' = Unmounted
  /\ UNCHANGED <<items, stored, submitting, world, shop, session>>

(* A button that is not disabled while an order is being placed.           *)
submit_again(a) ==
  /\ CustomerMayAct
  /\ page = "cart" /\ items # Empty
  /\ attempt[a] = None /\ orders[a] = None
  /\ submitting' = TRUE
  /\ attempt' = [attempt EXCEPT ![a] =
       [lines |-> items, stage |-> "fetch", view |-> "mounted", shown |-> user,
        as |-> None, kept |-> TRUE,
        again |-> {b \in Attempt : attempt[b] # None /\ attempt[b].kept
                                   /\ attempt[b].stage # "ok"}]]
  /\ UNCHANGED <<items, stored, page, world, shop, session>>

(* handleCheckout, up to its first request.                                *)
Submit(a) ==
  /\ CustomerMayAct
  /\ page = "cart" /\ ~submitting /\ items # Empty
  /\ attempt[a] = None /\ orders[a] = None
  /\ submitting' = TRUE
  /\ attempt' = [attempt EXCEPT ![a] =
       [lines |-> items, stage |-> "fetch", view |-> "mounted", shown |-> user,
        as |-> None, kept |-> TRUE,
        again |-> {b \in Attempt : attempt[b] # None /\ attempt[b].kept
                                   /\ attempt[b].stage # "ok"}]]
  /\ UNCHANGED <<items, stored, page, world, shop, session>>

(* Each line against the live list.                                        *)
validateCartStock(lines) ==
  \A p \in DOMAIN lines :
    catalogue[p] # None /\ lines[p].quantity <= catalogue[p].quantity

(* A flag that all mounts of the page share.                               *)
release_shared(a) == submitting' = FALSE

(* `finally` releases the button of the page that started the attempt.     *)
Release(a) == submitting' = (submitting /\ attempt[a].view # "mounted")

(* The attempt leaves its try block by an error.                           *)
Fail(a) == attempt' = [attempt EXCEPT ![a].stage = "failed"] /\ Release(a)

(* The products arrive; the order is sent with the token of this moment.   *)
StockArrives(a) ==
  /\ a \in Pending /\ attempt[a].stage = "fetch"
  /\ IF validateCartStock(attempt[a].lines)
       THEN /\ attempt' = [attempt EXCEPT ![a].stage = "post", ![a].as = token]
            /\ UNCHANGED submitting
       ELSE Fail(a)
  /\ UNCHANGED <<items, stored, page, world, shop, session>>

(* The shop handles the order, whether anybody still waits for it or not:  *)
(* it places it, or refuses it for its stock or its token.                 *)
ServePost(a) ==
  /\ attempt[a] # None /\ attempt[a].stage = "post"
  /\ \/ /\ attempt[a].as # None
        /\ orders' = [orders EXCEPT ![a] = [status |-> "pending", stock_restored |-> FALSE,
                                            line_items |-> attempt[a].lines]]
        /\ Shop!Place(a)
        /\ attempt' = [attempt EXCEPT ![a].stage = "placed"]
     \/ attempt' = [attempt EXCEPT ![a].stage = "rejected"] /\ UNCHANGED shop
  /\ UNCHANGED <<items, stored, page, submitting, world, session>>

(* 201: the cart is cleared and the order's page opened, from whichever    *)
(* page is open.                                                           *)
OrderConfirmed(a) ==
  /\ a \in Pending /\ attempt[a].stage = "placed"
  /\ SetItems(Empty)
  /\ page' = "other"
  /\ attempt' = [Unmounted EXCEPT ![a] = [attempt[a] EXCEPT !.stage = "ok"]]
  /\ Release(a)
  /\ UNCHANGED <<world, shop, session>>

(* clearCart in the finally block.                                         *)
refuse_and_clear(a) ==
  /\ a \in Pending /\ attempt[a].stage = "rejected"
  /\ Fail(a)
  /\ SetItems(Empty)
  /\ UNCHANGED <<page, world, shop, session>>

(* A refusal, whatever its status: the session is left alone.              *)
OrderRefused(a) ==
  /\ a \in Pending /\ attempt[a].stage = "rejected"
  /\ Fail(a)
  /\ UNCHANGED <<items, stored, page, world, shop, session>>

(* The connection breaks, which the page takes for a failure; the shop may *)
(* have handled the order or handle it yet.                                *)
CheckoutLost(a) ==
  /\ a \in Pending
  /\ attempt' = [attempt EXCEPT ![a].view = "deaf"] /\ Release(a)
  /\ UNCHANGED <<items, stored, page, world, shop, session>>

Answers(a) == StockArrives(a) \/ OrderConfirmed(a) \/ OrderRefused(a) \/ CheckoutLost(a)

Shopper ==
  \/ \E p \in Product : addItem(p) \/ updateQuantity(p) \/ removeItem(p)
  \/ OpenCart \/ LeaveCart
  \/ \E a \in Attempt : Submit(a) \/ ServePost(a) \/ Answers(a)
=============================================================================
