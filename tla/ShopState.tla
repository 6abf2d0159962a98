------------------------------ MODULE ShopState ------------------------------
(***************************************************************************)
(* What the order and the product services share: the two tables, and for  *)
(* every HTTP request the state of its handler, with the objects its       *)
(* AsyncSession has loaded.  A handler runs from one await of the database *)
(* to the next, so a request is a small state machine over these steps     *)
(* (pc[r]) and any two requests may interleave between steps.              *)
(***************************************************************************)
EXTENDS Database, LineItems

CONSTANTS
  Sku, Price,      \* values of the columns sku and price
  Quantity,        \* quantities an order line may have
  LinesSorted,     \* TRUE iff line items are read back in insertion order
  MaxInFlight,     \* bound: requests being handled at the same time
  InitialTables    \* database contents the server may be started on

ASSUME QuantityAssumption == Quantity \subseteq Nat \ {0}
ASSUME MaxInFlightAssumption == MaxInFlight \in Nat
ASSUME LinesSortedAssumption == LinesSorted \in BOOLEAN

VARIABLES
  pc,         \* pc[r]: the step the handler of request r takes next
  op,         \* op[r]: the endpoint r called
  body,       \* body[r]: the body of a PATCH or a PUT
  target,     \* target[r]: the key r addresses, or was given for its INSERT
  order,      \* order[r]: the Order object of r's session
  product,    \* product[r]: the Product object r's session loaded last
  todo,       \* todo[r]: products of order[r] the handler's loop has left
  reply,      \* reply[r]: HTTP status answered
  sequence    \* greatest product id PostgreSQL's sequence has handed out

handler == <<op, body, target>>
session == <<order, product, todo>>
vars == <<tables, pc, op, body, target, order, product, todo, reply, sequence>>

OrderStatus == {"pending", "processing", "shipped", "delivered", "cancelled"}
Product == [id : ProductId, sku : Sku, price : Price, quantity : Int]
ProductWrite == [sku : Sku, price : Price, quantity : Nat]
OrderStatusUpdate == [status : OrderStatus]
LineItem == [quantity : Quantity, unit_price : Price]
LineItemList == UNION {[ids -> LineItem] : ids \in (SUBSET ProductId) \ {{}}}
Order == [status : OrderStatus, stock_restored : BOOLEAN, line_items : LineItemList]

ASSUME NoRowAssumption == NoRow \notin Product \cup Order \cup Row

OrderSteps == {"create_with_line_items", "decrement", "commit_checkout",
               "restock", "adjust_quantity", "update_status", "commit_status",
               "reload"}
ProductSteps == {"update", "delete", "refresh"}
Steps == {"idle", "done"} \cup OrderSteps \cup ProductSteps
Operations == {"checkout", "patch", "post", "put", "delete"}
Lost == 0     \* stands for no answer: the connection or the server failed
Codes == {200, 201, 204, 404, 409, 500, Lost}

ASSUME NoReplyAssumption == NoRow \notin Codes

(* The steps at which the session has an open transaction.                 *)
TransactionSteps == {"decrement", "commit_checkout", "restock",
                     "adjust_quantity", "update_status", "commit_status"}

TablesTypeOK(t) ==
  /\ t \in [Row -> Product \cup Order \cup {NoRow}]
  /\ \A p \in ProductId : t[p] # NoRow => t[p] \in Product /\ t[p].id = p
  /\ \A o \in OrderId : t[o] # NoRow => t[o] \in Order

(* Contents earlier runs of the server can have left: stock is never       *)
(* negative and a cancelled order has given its stock back.                *)
Legal(t) ==
  /\ TablesTypeOK(t)
  /\ \A p \in ProductId : t[p] # NoRow => t[p].quantity >= 0
  /\ \A o \in OrderId :
       t[o] # NoRow /\ t[o].status = "cancelled" => t[o].stock_restored

ASSUME InitialTablesAssumption == \A t \in InitialTables : Legal(t)

(* The product ids a database mentions, in its catalogue or in an order.   *)
MentionedIds(t) ==
  {p \in ProductId : t[p] # NoRow}
    \cup UNION {DOMAIN t[o].line_items : o \in {o \in OrderId : t[o] # NoRow}}

(* A database has finitely many rows.                                      *)
ASSUME FiniteTablesAssumption == \A t \in InitialTables : IsFiniteSet(MentionedIds(t))

Greatest(ids) ==
  LET greatest == {p \in ids : \A q \in ids : q <= p} IN
  IF greatest = {} THEN 0 ELSE CHOOSE p \in greatest : TRUE

Init ==
  /\ committed \in InitialTables
  /\ working = committed
  /\ lock = [x \in Row |-> NoSession]
  /\ sequence = Greatest(MentionedIds(committed))
  /\ pc = [r \in Session |-> "idle"]
  /\ op = [r \in Session |-> NoRow]
  /\ body = [r \in Session |-> NoRow]
  /\ target = [r \in Session |-> NoRow]
  /\ order = [r \in Session |-> NoRow]
  /\ product = [r \in Session |-> NoRow]
  /\ todo = [r \in Session |-> {}]
  /\ reply = [r \in Session |-> NoRow]

(***************************************************************************)
(* Building blocks of the handlers                                         *)
(***************************************************************************)
InFlight == {r \in Session : pc[r] \notin {"idle", "done"}}

(* The server takes up request r.                                          *)
Admit(r) == pc[r] = "idle" /\ Cardinality(InFlight) < MaxInFlight

Called(r, endpoint, key, content) ==
  /\ op' = [op EXCEPT ![r] = endpoint]
  /\ target' = [target EXCEPT ![r] = key]
  /\ body' = [body EXCEPT ![r] = content]

Goto(r, step) == pc' = [pc EXCEPT ![r] = step] /\ UNCHANGED reply

(* The response is sent and get_db_session closes the session, which       *)
(* forgets its objects.                                                    *)
Respond(r, code) ==
  /\ pc' = [pc EXCEPT ![r] = "done"]
  /\ reply' = [reply EXCEPT ![r] = code]
  /\ order' = [order EXCEPT ![r] = NoRow]
  /\ product' = [product EXCEPT ![r] = NoRow]
  /\ todo' = [todo EXCEPT ![r] = {}]

TypeOK ==
  /\ TablesTypeOK(committed)
  /\ TablesTypeOK(working)
  /\ lock \in [Row -> Session \cup {NoSession}]
  /\ sequence \in Nat
  /\ pc \in [Session -> Steps]
  /\ op \in [Session -> Operations \cup {NoRow}]
  /\ body \in [Session -> OrderStatusUpdate \cup ProductWrite \cup {NoRow}]
  /\ target \in [Session -> Row \cup {NoRow}]
  /\ order \in [Session -> Order \cup {NoRow}]
  /\ product \in [Session -> Product \cup {NoRow}]
  /\ todo \in [Session -> SUBSET ProductId]
  /\ reply \in [Session -> Codes \cup {NoRow}]
=============================================================================
