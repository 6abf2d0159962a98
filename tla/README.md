# Verification of the Ecommerce-Inventory shop

TLA+ modules for the shop in three parts: its order and product services
(`src/backend/app`: FastAPI, SQLAlchemy async, PostgreSQL in production and
SQLite in development), what a request meets before it reaches them (limiters,
start-up, accounts), and the pages of the storefront (`src/frontend/src`).  For
each: what it promises when requests, threads, answers and users overlap, what
TLC checks of it and what TLAPS proves for every size.

## 1. Inventory of the system

| Part | State | Operations | Hard behaviour |
|---|---|---|---|
| Order service (`services/order_service.py`, `repositories/order_repository.py`, `routers/orders.py`) | tables `orders`, `order_line_items`; `products.quantity` | `checkout`, `update_status`; reads `list_mine`, `get_order`, `list_admin` | overlapping checkouts and cancellations over the same stock; objects read before a wait and used after it; rollback half-way; lock order |
| Product service (`services/product_service.py`, `repositories/product_repository.py`, `routers/products.py`) | table `products` | `create_product`, `update_product`, `delete_product`; reads | edits and deletions under an open checkout; column-wise writes of the unit of work; unique `sku`; reuse of ids on SQLite |
| Database sessions (`database.py`) | engine, session factory | `get_db_session`, start-up, shutdown | one transaction per request; factory published before the tables exist |
| Authentication (`services/auth_service.py`, `repositories/user_repository.py`, `core/security.py`, `dependencies/auth.py`) | table `users` | `register_user`, `login_user`, `get_current_user`, role checks | check-then-insert of an e-mail address |
| Rate limiters (`dependencies/rate_limit.py`) | deques of timestamps per key | `check` | the two limiters used as plain functions run in worker threads |
| Assistant (`services/assistant_service.py`, `clients/llm_client.py`) | counters | `query` | failures of the model |
| Scripts (`scripts/`) | the same tables | seeding, clean-up | run twice, run beside a server |
| Storefront (`frontend/src`: `CartContext`, `Cart`, `AuthContext`, `client.js`, admin pages, `buildInsights`) | `localStorage`, React state | cart edits, checkout, login, logout, forms | closures over old state, late or lost answers, stale forms |

The storefront talks to the services over HTTP only; the services share
nothing but the database.  A request's handler runs on one event loop and gives
way at every `await`, so any two requests interleave between database
statements.  `PROJECT.json` lists every part with what is modelled of it, and
every hazard at the line where it bites.

What makes the core correct: stock is never negative; an order and its
decrements appear together or not at all; an order's stock comes back once and
exactly; orders are history and never rewritten; no request leaves a lock or
waits forever.

What makes the front door correct: one account per address, whoever writes it;
a token opens the account it was given for or, once that is deleted, none; no window holds more admissions than its
limit and nobody with requests left is refused; no request meets a database
without tables.

What makes the pages correct: a submitted cart is not lost before it is
ordered, and not ordered twice without cause; screen, `localStorage` and token
name one account; a save changes what was typed; search results are those of
the text in the box, whatever order answers arrive in; a list is that of its
filter for users who wait for answers, and otherwise differs from it only where
an answer was overtaken or asked for by an older closure.

## 2. Modules

### The services

```
LineItems   Database            LineItems: merging a payload's lines
        \   /                   Database : transactions, locks, dialects (external)
       ShopState                tables, per-request handler state, Init, TypeOK
        /     \
OrderService  ProductService    one action per wait of each handler
        \     /
         Shop                   Next, Spec, FairSpec and the properties
           |
      ShopInvariant             the invariants behind the properties
      /     |      \
ShopHistory | ShopInventory     history of deletions / tables as an Inventory
      \     |      /
       MCShopHistory, MCShop    the instances TLC checks

Inventory                       what the shop promises (instantiated by ShopInventory)
```

The proofs, each module extending the ones it follows:

```
ShopTypeProofs > ShopProofs > ShopInventoryProofs > ShopSerialProofs > ShopHistoryProofs
                            > ShopLockProofs      >
```

* **Database** is the store as the code uses it.  `committed[x]` is what other
  sessions read, `working[x]` what the holder of `lock[x]` has written.  On
  PostgreSQL a write locks its row until the transaction ends and a blocked
  `UPDATE` looks at its `WHERE` again when it gets the lock (READ COMMITTED);
  on SQLite the first write of a transaction locks the database.  Reads never
  wait.  `Dialect` chooses.
* **ShopState** gives each HTTP request (`Session`: one `AsyncSession` per
  request, `expire_on_commit=False`) a step `pc` and the objects it has loaded:
  `order`, `product`, and `todo`, the lines its loop has left.
* **OrderService**: `checkout` reads and validates; then
  `create_with_line_items`, one `decrement_quantity_if_available` per line in
  id order, `commit_checkout`, or `decrement_insufficient` with its rollback.
  `update_status` loads and decides `should_restock`; then `restock` (read) and
  `adjust_quantity` (write of the sum computed from the read) per line,
  `write_status`, `commit_status`, `reload`.  `changed` writes only the
  attributes that differ from the values loaded, as the unit of work does.
* **ProductService**: load, then one write with its commit; `refresh` after it.
  `new_id` is the id the table hands out: PostgreSQL's sequence, or SQLite's
  greatest id plus one.
* **Shop** adds `Abort`: at any wait the request may fail, be cancelled or lose
  its server, and its transaction is rolled back.  A crash of the server is
  every request in flight aborting.

* **Inventory** is the abstract specification: a catalogue and orders, where a
  purchase, a first cancellation, another change of status and an edit of one
  product each happen in one step and nothing fails.  **ShopInventory** maps
  the committed tables to it (`catalogue <- Catalogue`, `orders <- Orders`) and
  states `ImplementsInventory`: what a reader of the tables sees of `Shop`.

Abstractions: names, addresses, totals and timestamps are left out (no property
is about them); the check of user and role before the handler is left out; keys
of orders are interchangeable; the service's read of a product in the restock
loop and the one inside `adjust_quantity` are one step, since the first result
is not used and the second sees the later state; a single-statement write and
its commit are one step, since nothing can come between them that another
request could tell.  Handlers that only read change no state.  Line items come
back without `ORDER BY`: `LinesSorted = TRUE` takes them in insertion order, as
both databases do for rows that are never updated, `FALSE` in any order.

### The front door

```
       AccessState            visits, process, limiters, accounts: variables, TypeOK
        /       \
RateLimiter     Lifecycle     check, thread by thread / start, stop, lazy bootstrap
     |             |
  Accounts         |          users, tokens, the handlers' statements, the scripts
        \         /
         Access               Init, Next, Spec and the properties
           |
     AccessInvariant          IInv
        /       \
 MCAccess     AccessProofs
```

* **AccessState**: a visit is a request to `/auth/register`, `/auth/login`,
  `/auth/me` or `/assistant/query`; `pc[v]` is the step its handler takes next.
  `admitted` (every admission of a key) and `overlapped` (two threads were in
  the check of one key) are history variables.
* **RateLimiter**: FastAPI runs the limiters of register and login, plain
  functions, in worker threads; the assistant's is called inside a coroutine.
  So a threaded `check` is four actions (`Capture` reads the time, `PopStale`
  is one turn of the loop, `Count` tests the length, `AppendNow`), at which
  CPython may switch threads, and the assistant's is the one step `Check`.  The
  clock never goes back; the code reads `datetime.now`, which an operator can
  set back.
* **Lifecycle**: `_startup` publishes the session factory, then awaits
  `create_all`; `get_db_session` does the same lazily where the host runs no
  startup hook (`lifespan = FALSE`), and the second request does not wait for
  the first one's tables.  `Stop` is shutdown or crash at any moment: memory
  goes, tables stay, requests in flight are lost.
* **Accounts**: one action per statement of `register_user` / `create_user`
  (look-up, insert with commit under the unique index, refresh), `login_user`,
  `get_current_user`, `require_customer`, `assistant_query`; beside the server
  `seed_admin` and the users of `cleanup_locust_data`.  `new_id` is, as in
  `ProductService`, the next of a sequence that is not rolled back (PostgreSQL)
  or the greatest id in the table plus one (SQLite, the default database), as
  `Dialect` says; `LastUserId` bounds the ids.  A token is the row id it names,
  with the address it was issued for as history.  Passwords and
  signatures are right or wrong; the model's answer is there or not.

### The pages

```
                 BrowserState            the tabs' variables; the shop as INSTANCE Inventory
      /         /            \         \
CartPage  ClientSession  AdminProducts  Listings
      \         \            /         /
                  Storefront             Init, Next, Spec and the properties
                      |
              StorefrontInvariant        IInv
                 /        \
       MCStorefront    StorefrontProofs
```

The shop behind the API is **Inventory**, the abstract specification of the
services: `ServePost` is its `Place`, a save its `Change`, a PATCH its
`SetStatus` or `Cancel`.  A page sends a request, goes on, and meets the answer
later, out of order or never.  axios has no timeout here, so no answer is
promised and no liveness is claimed of the pages.

* **CartPage**: `CartContext` (items and the effect that writes
  `localStorage`), `Cart.jsx` and `validateCartStock`.  `attempt[a]` is one run
  of `handleCheckout`: the lines its closure holds, its stage, and who waits
  for it: the mounted page, the tab after the page was left, or nobody.
* **ClientSession**: `AuthContext`, the response interceptor and
  `ProtectedRoute` of one tab; a reload forgets everything but `localStorage`.
* **AdminProducts**: the list, the form and `productPayload.js`; what the form
  was opened with is kept beside what was typed.
* **Listings**: the orders table with its filter and changes of status, and
  the search of `Products.jsx` with its `cancelled` flag.  The history variable
  `newest` remembers what the newest request of the table asked for and whether
  an older one was answered after it.

Two parts are stated under a condition on the users.  With `"haste" \in acting`
users press buttons while answers are under way; otherwise they are `patient`,
and the session properties are about patient ones.  `"sharing"` lets several
accounts use one tab.

## 3. Runs

All runs of the services are bounded by their sets of requests; each request is made once, so
the system really stops when all are answered and deadlock is not checked
(waiting for locks is, by `NoDeadlock` and `EveryRequestEnds`).  The database
starts with two products and an order of both; a third key is free.  One cart
names a product twice and out of order, and stocks are such that some carts can
be served and others cannot.  Symmetry is over requests and new order keys, in
runs without liveness.

| Run | Instance | Shows |
|---|---|---|
| `all_pg` | 3 requests, all operations, PostgreSQL, lines in any order, history of deletions | `TypeOK`, `IInv`, `HistoryInv`, `RestockSkipsDeleted` |
| `orders_pg` | 4 concurrent checkouts and PATCHes, PostgreSQL | `NonNegativeStock`, `CancelledImpliesRestored`, `NothingLeftBehind`, `NoDeadlock`, `LockOrder`, `CheckoutAtomic`, `OrderHistoryKept`, `PatchTakesEffect` |
| `catalogue_pg` | 3 concurrent requests: checkouts, shipments, POST, PUT, DELETE; no cancellation | `StockMovesForAReason`, `BooksBalance`, `ImplementsInventory` |
| `serial_pg` | 4 requests one at a time, all operations | `PatchNeverErrs`, `SerialInv`, `BooksBalance`, `ImplementsInventory`, `RestockExact`, `PricesOfTheMoment` |
| `live_pg` | 3 requests under `FairSpec` | `EveryRequestEnds` |
| `access` | 3 visits, 1 client address, 1 address typed in two ways and the admin's, limits 1 (register, login) and 2 (assistant), a window of 1 on a clock to 2, ids of PostgreSQL up to 6 | `IInv`, one account per address, `RegistrationsAgree`, `TokensOpenTheirAccount`, both windows, `RefusedOnlyWhenFull`, `TablesBeforeRequests` |
| `storefront` | 2 products, 2 checkouts and an order from before, 2 accounts, 2 requests of a list in flight | `IInv`, the cart, session, form, table and search properties |

Two requests are enough for every race found; three let a third party see or
use the result, and four let two carts and two cancellations overlap.

In `access` and `storefront`, `Traffic` and `Acting` name the parts that move in
one behaviour: what shares state is put together (threads and time;
registrations and scripts; registrations, logins and a stopping server; tokens
of deleted rows and the assistant; cart and session; the admin's form with
other customers' sales), what shares none is not multiplied.  Three visits let
two threads race while a third meets what they left; a window of 1 on a clock
to 2 has timestamps inside, at the edge of and outside it.  Two checkouts are a
submission and its repetition; two requests of a list in flight are the fewest
that overtake each other, and three texts (`all`, `a`, `b`) let a third search
start while two are late.  These systems stop when all visits are answered, or
the checkouts are used up, so deadlock is not checked.

`AuthWindow` and `RefusedOnlyWhenFull` except keys whose checks overlapped:
there two threads may both find room for one request, and one with an older
`now` appends behind a newer timestamp.  No document promises otherwise, so the
exception is in the property.  Other properties name their exceptions in the
same way: a sale between the reading of the list and the save of a form is lost
(`SaveChangesOnlyWhatWasTyped` speaks of rows nobody has changed since), and a
confirmation clears a cart that was edited after its submission
(`CartKeptUntilOrdered`).  `TableShowsTheFilter` speaks of hasty admins too: once
everything asked for is answered, the table is that of the newest request's
filter unless an older request was answered after it, and for a patient admin
that filter is the one above the table.  What a hasty admin may see, a late
answer or the reload of an older closure, is thereby named and nothing else is
allowed.

`StockMovesForAReason` and `BooksBalance` except a PUT only in the step in which
it writes (`SetsStock`: its `UPDATE`, when the quantity sent is not the quantity
loaded); a PUT that waits beside a checkout excuses nothing, and one that sends
the quantity it has loaded must leave the sales made meanwhile alone, which its
mutant `assigned_all` does not.  `PatchTakesEffect` is about every overlap of
PATCH requests: a commit leaves the status asked for; a PATCH that asks for the
status it has loaded writes none, and then the status set meanwhile must stand.

`FairSpec` is weak fairness of each handler's own steps: the event loop resumes
a handler whose database call has returned, and a lock that is free long enough
is granted.  Nothing is assumed of clients or of failures.  `EveryRequestEnds`
is checked with `LinesSorted = TRUE`; with lines in another order two
cancellations can wait for each other until the database breaks the tie, and
`NoDeadlock` fails.

### What the code does and its documents deny

Five runs with `expect: violation`.  Each property is also shown where it does
hold: by `serial_pg` when nothing overlaps, by `catalogue_pg` when nothing is
cancelled, by `all_pg` and `access` on PostgreSQL; and all but `BooksBalance` by theorems
(`StockMovesForAReason` among them), which say for every instance what has to
be absent for the code to keep its word:

| Run | Property | In short |
|---|---|---|
| `double_restock` | `StockMovesForAReason` | two overlapping cancellations restock twice |
| `lost_decrement` | `BooksBalance` | a cancellation overwrites a checkout's decrement |
| `cancel_fails` | `PatchNeverErrs` | a deletion at the wrong moment fails the cancellation |
| `deleted_sqlite` | `RestockSkipsDeleted` | SQLite reuses the id and the wrong product is restocked |
| `token_sqlite` | `TokensOpenTheirAccount` | SQLite reuses the id of a deleted user, whose token opens the next one's account |

`PricesOfTheMoment` holds of requests in turn only: a PUT that commits between
the validation loop of a checkout and its commit leaves an order at the older
price.  SC-002 of `src/specs/003-orders-checkout/spec.md` (line 134) asks for
"the catalog values at the moment of purchase" and leaves open whether that
moment is the validation or the commit; under the first reading the code is
right, so no run calls it an error.

## 4. Proofs

`ShopTypeProofs` and `ShopProofs` prove, for any sets of products, orders,
prices and requests, any inputs, either dialect and either value of
`LinesSorted`, that `Spec` implies

* `[]IInv`, `[]TypeOK`, `[]NonNegativeStock`, `[]CancelledImpliesRestored`,
  `[]NothingLeftBehind`;
* the action properties `OrderHistoryKept`, `CheckoutAtomic` and
  `PatchTakesEffect`.

They assume only the `ASSUME`s of the modules: keys are positive numbers and
not order keys, quantities are positive, the initial tables are `Legal`
(typed, stock not negative, cancelled orders restored) and mention finitely
many products, inputs have the types the schemas demand, and `NoRow` is no row
and no status code.

The invariants are not inductive: that a commit keeps `CancelledImpliesRestored`
depends on what the session wrote earlier, and that on what it loaded.  `IInv`
adds what each handler knows at each step (`SessionsOK`), that a version of an
order keeps lines and never takes `stock_restored` back (`OrdersKept`), that an
order loaded as restored still is (`PatchesLoaded`), that a PATCH before its
commit holds its order's row with the status due (`PatchesOpen`), the
properties of working as well as committed versions, and for an open checkout exactly which rows it
has changed and how (`CheckoutsOpen`, `OrdersAddedByCheckout`).
`ShopTypeProofs` shows that each action keeps types and session knowledge;
`ShopProofs` first sorts all actions into eight kinds of table change
(`StepKinds`: quiet, adds, takes, returns, sets status, commits, rolls back,
edits) and then proves each part of `IInv` over the eight kinds.

`ShopInventoryProofs` proves `NoCancellation /\ Spec => ImplementsInventory`:
if no PATCH asks for `cancelled`, then however checkouts, other PATCHes and
edits overlap or fail, the committed tables take only the steps of `Inventory`.
The commit of a checkout is `Place` because `CheckoutsOpen` says of every row
what the transaction has done to it; the commit of a PATCH is `SetStatus`
because of a further invariant, `PlainPatches` (a PATCH that restocks nothing
writes the status of its order and nothing else); an edit is `Change`; every
other step is a stutter.  With overlapping cancellations the claim is false
(`double_restock`, `lost_decrement`).

`CancelledImpliesRestored` deserves its proof: with only the changed columns
written, a PATCH that loaded an order may commit over another's status.  The
proof shows why no mix gives a cancelled, unrestored order: whoever writes
`cancelled` either restocks or has loaded an order already restored, and
`stock_restored` is never unset.

The other promises of the shop do not hold without a condition, and the
theorems name it.

* `ShopLockProofs`, if lines come back in insertion order (`LinesSorted`):
  `[]LockOrder` and `[]NoDeadlock`; and on SQLite `[]NoDeadlock` in any order.
  `NoDeadlock` says nothing of the past, so `LockOrder` adds who may hold what:
  the products a transaction has locked come before all those its loop has left
  (`LinesAscend`), and an order's row is locked by the checkout that adds it or
  by a PATCH that has only its commit left (`OrdersLockedLast`).  In a circle
  each request then waits for a product whose holder waits for a greater one,
  and as finitely many requests are in flight (`InFlightBounded`; the bound is
  the instance's and may have any size) one of these products is the greatest.
  SQLite has one lock, whose holder waits for nobody (`OneLock`).
* `ShopSerialProofs`, if requests come one at a time (`MaxInFlight = 1`), any of
  which may fail at any wait: `[]SerialInv`, `[]PatchNeverErrs`, `RestockExact`,
  `PricesOfTheMoment` and `ImplementsInventory`, with cancellations.  `SerialInv` says what a handler that is alone may rely on:
  what a PATCH has loaded is what is committed, and its transaction has given
  back exactly the lines behind its loop and touched nothing else
  (`PatchExact`); the products of an order being placed have its prices
  (`PricesHold`).  The commit then shows all lines given back together with the
  new status: this is `Cancel` of `Inventory`.
* `ShopHistoryProofs`, if nobody deletes products, however many requests
  overlap: `[]PatchNeverErrs`, since a product that has been read stays
  (`ProductsStay`).
* `ShopHistoryProofs`, without cancellations or one request at a time:
  `StockMovesForAReason`, read off the two refinements' lemmas about commits; the
  only step of a PUT it excuses is the one that writes.
* `ShopHistoryProofs`, on PostgreSQL: `[]HistoryInv` and `RestockSkipsDeleted` of
  `HistorySpec`, however requests overlap.  Every product id in the catalogue, in
  a placed order or in one being placed has been handed out by the sequence
  (`IdsHandedOut`), so that an id once gone stays gone (`GoneForGood`) and a
  restock finds no row under it.  On SQLite this is false (`deleted_sqlite`).
* On either database the id of an INSERT is free (`NewIdsAreFree`); this needs
  that the catalogue is finite, or SQLite's greatest id would not exist.

`AccessProofs` proves of `Access`, for any visits, spellings, limits, window,
ids and initial users, every property of the run `access`, on either database;
only `TokensOpenTheirAccount` (`TokensHold`) is proved for PostgreSQL alone, since
on SQLite it is false (`token_sqlite`).  `IInv` there adds
to the properties how far each visit's step fits its call and its new row
(`CallsFit`, `AccountsOfVisits`), that what a registration was told was so
(`RepliesTrue`), that a token that is shown has been issued (`TokensShown`), that
on PostgreSQL every id of a row or a token is below the sequence, and the row a
token names, if there is one, has the token's address (`IdsNotReused`: so a token
outlives its row without opening another), that a started server has its tables
(`ServerReady`), and of each limiter key that was never checked by two
threads at once (`KeyInv`): the deque is a suffix of the admissions, which are
in order; what was dropped is older than a window before any `now` still in
use; and a thread that found room still has it when it appends.  From that a
new admission and the one `MaxRequests` before it are more than a window apart,
because the latter is among the dropped; and a refusal's oldest counted
admission is in the window, because the head of the deque is.  Four lemmas
about sequences (`DequeLater`, `DequeDrops`, `DequeAdmits`, `DequeFull`) carry
this for the threaded and for the event loop's check alike.

`StorefrontProofs` proves of `Storefront` every property of the run
`storefront`, for any products, accounts, checkouts and requests.  Its
invariant says that the cart and its copy agree, what stages of a checkout have
an order, that an unedited cart is either whole or cleared by a confirmation,
that one mounted page waits for one checkout at a time, which of `me`, `signin`
and `token` may be set together when users are patient, and that the one query
that is not cancelled asks for the text in the box.  Of the admin's tab it says
that a form, and a save made from it, still has what the list said of every
field nobody typed into, and that the save goes where the form came from
(`FormInv`).  Of the orders table it says that what the newest request asked for
is still under way, shown, or overtaken, and that a patient admin waits either
for one change of status or for one list, asked for with the filter above the
table (`TableInv`); `TableShowsTheFilter` follows when everything is answered.  This
needs that nobody else's orders move, which is the condition in it.

They rest on the modules' `ASSUME`s: `None` is no value of any kind, normal
forms are normal, rows from before have the first ids and addresses of their
own, the admin's address is in normal form, the catalogue and the order from
before have their types.

Only model-checked: `BooksBalance`, whose sum over the orders is a fold and
would take induction over data, and `EveryRequestEnds`, since liveness under
fairness is out of the prover's reach.  Every other property of a passing run
is proved, some under a condition of the run that its theorem names.  SQLite is
covered by the theorems of `Shop` and `Access` unless they say otherwise; TLC
runs it in `deleted_sqlite` and `token_sqlite`.

## 5. Not modelled, and the plan

Left out for good: rendering, formatting, configuration, logging, metrics and
the vendored Python packages under `backend/.deps`, which are nearly all of the
repository's lines and none of its own logic.

Left out of the modules there are:

* two tabs over one `localStorage`, catalogues of more than the 100 products
  `Cart.jsx` asks for, and requests of the admin pages that are answered never;
* SQLAlchemy's connection pool and its exhaustion;
* `seed_products`, and the products and orders of `cleanup_locust_data`;
* the prompt, filters and wording of the assistant, and `buildInsights`.

To come, in order: `BooksBalance` as a statement about one step, its sum
replaced by what a commit adds and takes; the condition of `RestockExact`
narrowed from one request at a time to one PATCH of an order at a time; the clean-up script beside open checkouts; `buildInsights` against a
definition over lists of orders.
