------------------------------ MODULE Storefront ------------------------------
(***************************************************************************)
(* The pages together, over the shop they share, and what they promise.    *)
(***************************************************************************)
EXTENDS CartPage, ClientSession
Products == INSTANCE AdminProducts
Lists == INSTANCE Listings

CONSTANTS
  Acting,           \* bound: sets of the parts that move in one behaviour
  InitialCatalogue, \* bound: products the shop may start with
  InitialOrder      \* bound: what the orders from before are

Row == [sku : Sku, quantity : Nat]
Rows == [Product -> Row \cup {None}]
OrderRow == [status : Status, stock_restored : BOOLEAN, line_items : Cart]
AttemptState ==
  [lines : Cart \ {Empty}, stage : UnderWay \cup {"ok", "failed"},
   view : {"mounted", "left", "deaf"}, shown : Account \cup {None},
   as : Account \cup {None}, kept : BOOLEAN, again : SUBSET Attempt]

Table == [Order -> Status \cup {None}]
ListRequest == [filter : Lists!Filter, rows : Table \cup {None}]
Newest == [filter : Lists!Filter, at : Request \cup {None}, overtaken : BOOLEAN]
Patch == [order : Order, status : Status, filter : Lists!Filter,
          stage : {"sent", "ok", "refused"}]
Query == [text : Text, cancelled : BOOLEAN]

ASSUME TextAssumption == "all" \in Text
ASSUME StatusAssumption == {"pending", "cancelled"} \subseteq Status
ASSUME InitialOrderAssumption == InitialOrder \in OrderRow
ASSUME InitialCatalogueAssumption == InitialCatalogue \subseteq Rows
ASSUME RecordAssumption ==
  None \notin OrderRow \cup AttemptState \cup ListRequest \cup Patch \cup Query

(* A page that is open begins by asking for its list.                      *)
Opened(part, request) ==
  LET nothing == [c \in Request |-> None] IN
  IF part \in acting THEN Launched(nothing, request) ELSE {nothing}

Init ==
  /\ acting \in Acting
  /\ catalogue \in InitialCatalogue
  /\ orders = [o \in Order |-> IF o \in Attempt THEN None ELSE InitialOrder]
  /\ items = Empty /\ stored = Empty /\ page = "other" /\ submitting = FALSE
  /\ attempt = [a \in Attempt |-> None]
  /\ token \in (IF "session" \in acting THEN Customers \cup {None} ELSE {None})
  /\ storedUser \in {token, None}
  /\ user = storedUser /\ me = (IF user = None THEN token ELSE None) /\ signin = None
  /\ list = [p \in Product |-> None] /\ loading = TRUE
  /\ loads \in Opened("products", [rows |-> None])
  /\ editing = None /\ form = Products!EMPTY_FORM /\ saving = None /\ removing = None
  /\ filter = "all" /\ table = [o \in Order |-> None] /\ listing = TRUE
  /\ lists \in Opened("orders", [filter |-> "all", rows |-> None])
  /\ newest = [filter |-> "all", overtaken |-> FALSE,
               at |-> IF "orders" \in acting THEN CHOOSE c \in Request : lists[c] # None ELSE None]
  /\ patch = None /\ failed = FALSE
  /\ search = "all" /\ results = None /\ searchFailed = FALSE
  /\ queries \in Opened("search", [text |-> search, cancelled |-> FALSE])

(* Another customer buys one unit.                                         *)
Sale ==
  /\ \E a \in Attempt, p \in Product :
       /\ attempt[a] = None
       /\ orders' = [orders EXCEPT ![a] = [status |-> "pending", stock_restored |-> FALSE,
                                           line_items |-> [q \in {p} |-> [quantity |-> 1]]]]
       /\ Shop!Place(a)
  /\ UNCHANGED <<world, cart, session, productAdmin, orderAdmin, catalog>>

Next ==
  \/ /\ "shopper" \in acting /\ Shopper
     /\ UNCHANGED <<productAdmin, orderAdmin, catalog>>
  \/ /\ "session" \in acting /\ Session
     /\ UNCHANGED <<productAdmin, orderAdmin, catalog>>
  \/ /\ "products" \in acting /\ Products!ManageProducts
     /\ UNCHANGED <<world, cart, session, orderAdmin, catalog>>
  \/ /\ "orders" \in acting /\ Lists!ManageOrders
     /\ UNCHANGED <<world, cart, session, productAdmin, catalog>>
  \/ /\ "search" \in acting /\ Lists!Browse
     /\ UNCHANGED <<world, shop, cart, session, productAdmin, orderAdmin>>
  \/ "sales" \in acting /\ Sale

Spec == Init /\ [][Next]_vars

(***************************************************************************)
(* Properties                                                              *)
(***************************************************************************)

Form == [sku : Sku \cup {""}, quantity : Nat, of : Product \cup {"new"},
         listed : Row \cup {None}, typed : SUBSET {"sku", "quantity"}]

TypeOK ==
  /\ catalogue \in Rows
  /\ \A o \in Order : orders[o] \in OrderRow \cup {None}
  /\ items \in Cart /\ stored \in Cart
  /\ page \in {"cart", "other"} /\ submitting \in BOOLEAN
  /\ \A a \in Attempt : attempt[a] \in AttemptState \cup {None}
  /\ {token, storedUser, user, me, signin} \subseteq Account \cup {None}
  /\ list \in Rows /\ loading \in BOOLEAN
  /\ \A c \in Request : loads[c] # None => loads[c].rows \in Rows \cup {None}
  /\ editing \in Product \cup {"new", None}
  /\ form \in Form
  /\ saving # None => saving.key \in Product \cup {"new"} /\ saving.body \in Row
  /\ removing # None => removing.key \in Product
  /\ filter \in Lists!Filter /\ table \in Table
  /\ \A c \in Request : lists[c] \in ListRequest \cup {None}
  /\ patch \in Patch \cup {None} /\ newest \in Newest
  /\ listing \in BOOLEAN /\ failed \in BOOLEAN /\ searchFailed \in BOOLEAN
  /\ search \in Text /\ results \in Text \cup {None}

(* A cart that was submitted and not edited since is not lost before it is *)
(* ordered: through refusals, broken connections, reloads and whatever the *)
(* session does, it still holds its lines, on the page and in              *)
(* localStorage, or an order for these lines exists.  Only a checkout from *)
(* before an edit, confirmed after it, clears lines it did not order.      *)
CartKeptUntilOrdered ==
  \A a \in Attempt :
    attempt[a] # None /\ attempt[a].kept =>
      \/ items = attempt[a].lines /\ stored = items
      \/ \E b \in Attempt : orders[b] # None /\ orders[b].line_items = attempt[a].lines
      \/ \E b \in Attempt : attempt[b] # None /\ attempt[b].stage = "ok" /\ ~attempt[b].kept

(* The same cart is ordered twice only if the first checkout lost its      *)
(* connection or its page: as long as the page that submits stays and is   *)
(* answered, `submitting` and clearCart keep the button from it.           *)
SecondOrderHasACause ==
  \A a, b \in Attempt :
    orders[a] # None /\ orders[b] # None /\ attempt[b] # None /\ a \in attempt[b].again
      => attempt[a].view # "mounted"

(* Between acts of a user who waits for each answer, the session on the    *)
(* screen is the one in localStorage, whose token opens the account shown. *)
SessionAgrees ==
  patient /\ Pending = {} /\ me = None /\ signin = None =>
    user = storedUser /\ token = user

(* The order of such a user is sent in the name the page showed when the   *)
(* button was pressed.                                                     *)
OrderedByTheShownUser ==
  patient => \A a \in Attempt :
    attempt[a] # None /\ attempt[a].stage \in {"post", "placed", "rejected", "ok"} =>
      attempt[a].as = attempt[a].shown

(* A save goes to the product its form was opened from, and if the shop    *)
(* still has the row that was listed, changes only what was typed: what is *)
(* lost to a save is what happened after the list was read.                *)
SaveChangesOnlyWhatWasTyped ==
  [][saving # None /\ saving' # None /\ saving.stage = "sent" /\ saving'.stage = "ok" =>
       /\ saving.key = saving.of
       /\ saving.key # "new" /\ catalogue[saving.key] = saving.listed =>
            \A f \in {"sku", "quantity"} \ saving.typed :
              catalogue'[saving.key][f] = catalogue[saving.key][f]]_vars

(* Once everything is answered and unless an error is shown, the table of  *)
(* an admin who is the only one at work has the orders of the filter that  *)
(* was asked for last, with their present status: every change of status   *)
(* has been followed by a list, and only an answer that was overtaken by   *)
(* the newest one can have come between.  With an admin who waits for each *)
(* answer that does not happen, and the filter asked for last is the one   *)
(* above the table.                                                        *)
AloneWithOrders == "orders" \in acting /\ acting \subseteq {"orders", "haste"}
TableShowsTheFilter ==
  AloneWithOrders /\ Lists!OrdersSettled /\ ~failed =>
    /\ newest.overtaken \/ table = Lists!Matching(newest.filter)
    /\ patient => newest.filter = filter /\ ~newest.overtaken

(* The products on the page answer the text in the search box, unless they *)
(* are loading or an error is shown, in whatever order the answers arrive. *)
ResultsMatchSearch ==
  "search" \in acting /\ ~searchFailed
      /\ (\A c \in Request : queries[c] = None \/ queries[c].cancelled)
    => results = search
=============================================================================
