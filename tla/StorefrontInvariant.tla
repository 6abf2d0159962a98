------------------------- MODULE StorefrontInvariant -------------------------
(***************************************************************************)
(* The invariant behind what Storefront promises of the cart, the session, *)
(* the search and the admin's pages.                                       *)
(***************************************************************************)
EXTENDS Storefront

Typed ==
  /\ items \in Cart /\ page \in {"cart", "other"} /\ submitting \in BOOLEAN
  /\ attempt \in [Attempt -> AttemptState \cup {None}]
  /\ orders \in [Order -> OrderRow \cup {None}]
  /\ filter \in Lists!Filter /\ patch \in Patch \cup {None}
  /\ user \in Account \cup {None} /\ storedUser \in Account \cup {None}
  /\ token \in Account \cup {None} /\ me \in Account \cup {None}
  /\ signin \in Account \cup {None}
  /\ queries \in [Request -> Query \cup {None}]

(* What a checkout that was stored has as its order.                       *)
OrdersOfAttempts ==
  \A a \in Attempt : attempt[a] # None =>
    IF attempt[a].stage \in {"placed", "ok"}
      THEN orders[a] # None /\ orders[a].line_items = attempt[a].lines
      ELSE orders[a] = None

(* Without an edit, a cart changes by being cleared only.                  *)
KeptOrCleared ==
  \A a \in Attempt :
    attempt[a] # None /\ attempt[a].kept /\ attempt[a].stage # "ok" =>
      items \in {attempt[a].lines, Empty}

Waiting(a) ==
  attempt[a] # None /\ attempt[a].view = "mounted" /\ attempt[a].stage \in UnderWay

(* The page waits for one checkout at a time, with its button disabled.    *)
OneWaiting ==
  /\ \A a \in Attempt : Waiting(a) => submitting /\ page = "cart"
  /\ \A a, b \in Attempt : Waiting(a) /\ Waiting(b) => a = b

(* An earlier attempt at the same cart has failed, unless it was lost or   *)
(* its page left.                                                          *)
EarlierFailed ==
  \A a, b \in Attempt :
    attempt[b] # None /\ a \in attempt[b].again =>
      attempt[a] # None /\ (attempt[a].view = "mounted" => attempt[a].stage = "failed")

CartInv ==
  /\ stored = items
  /\ OrdersOfAttempts /\ KeptOrCleared /\ CartKeptUntilOrdered
  /\ OneWaiting /\ EarlierFailed

(* One act at a time changes the session of a patient user.                *)
SessionInv ==
  patient =>
    /\ me # None => user = None /\ storedUser = None /\ token = me /\ signin = None
    /\ signin # None => user = None /\ storedUser = None /\ token = None /\ me = None
    /\ me = None /\ signin = None => user = storedUser /\ token = user
    /\ me # None \/ signin # None => Pending = {}
    /\ \A a \in Pending : attempt[a].stage = "fetch" => attempt[a].shown = token

(* The one query that is not cancelled asks for the text in the box.       *)
SearchInv ==
  \A c \in Request :
    queries[c] # None /\ ~queries[c].cancelled => queries[c].text = search

(***************************************************************************)
(* The admin's pages                                                       *)
(***************************************************************************)
Save == [key : Product \cup {"new"}, body : Row, stage : {"sent", "ok", "refused"},
         of : Product \cup {"new"}, listed : Row \cup {None},
         typed : SUBSET {"sku", "quantity"}]

ProductsTyped ==
  /\ list \in Rows /\ loading \in BOOLEAN
  /\ loads \in [Request -> [rows : Rows \cup {None}] \cup {None}]
  /\ editing \in Product \cup {"new", None} /\ form \in Form
  /\ saving \in Save \cup {None}
  /\ removing \in [key : Product, stage : {"sent", "ok", "refused"}] \cup {None}

OrdersTyped ==
  /\ table \in Table /\ listing \in BOOLEAN /\ failed \in BOOLEAN
  /\ lists \in [Request -> ListRequest \cup {None}] /\ newest \in Newest

ResultsTyped ==
  search \in Text /\ results \in Text \cup {None} /\ searchFailed \in BOOLEAN

AdminTyped == catalogue \in Rows /\ ProductsTyped /\ OrdersTyped /\ ResultsTyped

(* A form, or a save that was made from it, still has what the list said   *)
(* of every field nobody has typed into.                                   *)
Untyped(of, listed, typed, sku, quantity) ==
  of # "new" =>
    /\ listed \in Row
    /\ "sku" \notin typed => sku = listed.sku
    /\ "quantity" \notin typed => quantity = listed.quantity

FormInv ==
  /\ editing # None => form.of = editing
  /\ Untyped(form.of, form.listed, form.typed, form.sku, form.quantity)
  /\ saving # None =>
       /\ saving.key = saving.of
       /\ Untyped(saving.of, saving.listed, saving.typed,
                  saving.body.sku, saving.body.quantity)

(* The statuses may have changed since the newest list was asked for only  *)
(* while the answer to the change is under way, or an error is shown.      *)
Changed == failed \/ (patch # None /\ patch.stage = "ok")
TableInv ==
  AloneWithOrders =>
    /\ newest.at # None =>
         /\ lists[newest.at] # None /\ lists[newest.at].filter = newest.filter
         /\ Changed \/ lists[newest.at].rows \in {None, Lists!Matching(newest.filter)}
    /\ newest.at = None /\ ~newest.overtaken =>
         Changed \/ table = Lists!Matching(newest.filter)
    /\ patient =>
         /\ newest.filter = filter /\ ~newest.overtaken
         /\ \A c \in Request : lists[c] # None => c = newest.at /\ patch = None
         /\ patch # None => patch.filter = filter

AdminInv == AdminTyped /\ FormInv /\ TableInv

IInv ==
  /\ Typed /\ CartInv
  /\ SessionInv /\ OrderedByTheShownUser
  /\ SearchInv /\ ResultsMatchSearch
  /\ AdminInv
=============================================================================
