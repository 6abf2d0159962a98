--------------------------- MODULE ShopLockProofs ---------------------------
(***************************************************************************)
(* No circle of requests that wait for one another, for any numbers of     *)
(* products, orders and requests, on either database: LockOrder is an      *)
(* invariant, and in a finite group of waiting requests one would have to  *)
(* want a product greater than itself.                                     *)
(***************************************************************************)
EXTENDS ShopProofs, FiniteSetTheorems, WellFoundedInduction

-----------------------------------------------------------------------------
(* Finite sets                                                             *)
-----------------------------------------------------------------------------

(* A function into the naturals has a greatest value on a finite set.      *)
LEMMA GreatestValue ==
  ASSUME NEW S, IsFiniteSet(S), S # {}, NEW f, \A s \in S : f[s] \in Nat
  PROVE  \E s \in S : \A t \in S : f[t] <= f[s]
<1> DEFINE Unbounded(T) == T # {} /\ \A s \in T : \E t \in T : ~(f[t] <= f[s])
           Sizes == {Cardinality(T) : T \in {T \in SUBSET S : Unbounded(T)}}
<1>1. SUFFICES ASSUME Unbounded(S) PROVE FALSE
  OBVIOUS
<1>2. \A T \in SUBSET S : IsFiniteSet(T) /\ Cardinality(T) \in Nat
  BY FS_Subset, FS_CardinalityType
<1>3. Sizes \subseteq Nat /\ Sizes # {}
  BY <1>1, <1>2
<1>4. PICK n \in Sizes : \A m \in Sizes : <<m, n>> \notin OpToRel(<, Nat)
  BY <1>3, NatLessThanWellFounded, WFMin
<1>5. \A m \in Sizes : ~(m < n)
  BY <1>3, <1>4 DEF OpToRel
<1>6. PICK T \in SUBSET S : Unbounded(T) /\ Cardinality(T) = n
  BY <1>4
<1>7. PICK s \in T : TRUE
  BY <1>6
<1> DEFINE U == T \ {s}
<1>8. U \in SUBSET S /\ Cardinality(U) = n - 1 /\ n \in Nat
  BY <1>2, <1>6, <1>7, FS_RemoveElement
<1>9. ~Unbounded(U)
  <2>1. SUFFICES ASSUME Unbounded(U) PROVE FALSE
    OBVIOUS
  <2> HIDE DEF Unbounded, U
  <2>2. Cardinality(U) \in Sizes
    BY <1>8, <2>1
  <2> QED BY <1>5, <1>8, <2>2
<1>10. U # {}
  BY <1>6, <1>7
<1>11. PICK u \in U : \A t \in U : f[t] <= f[u]
  BY <1>9, <1>10
<1>12. \A t \in T : f[t] <= f[u] \/ t = s
  BY <1>11
<1>13. f[s] \in Nat /\ f[u] \in Nat /\ \A t \in T : f[t] \in Nat
  BY <1>6, <1>7, <1>11
<1>14. (\A t \in T : f[t] <= f[u]) \/ (\A t \in T : f[t] <= f[s])
  BY <1>12, <1>13
<1> QED BY <1>6, <1>7, <1>11, <1>14

-----------------------------------------------------------------------------
(* How many requests are in flight                                         *)
-----------------------------------------------------------------------------

(* A request is taken up when there is room for it.                        *)
LEMMA CallAdmits ==
  ASSUME NEW r \in Session, Call(r)
  PROVE  Admit(r)
  BY DEF Call, OrderServiceCall, checkout, checkout_refused, update_status,
     update_status_not_found, ProductServiceCall, create_product,
     create_product_duplicate, update_product, update_product_not_found,
     delete_product, delete_product_not_found

(* Whoever takes a step without being called is in flight.                 *)
LEMMA StepInFlight ==
  ASSUME NEW r \in Session, Step(r) \/ Abort(r)
  PROVE  r \in InFlight
  BY DEF Step, Abort, InFlight, OrderServiceStep, create_with_line_items,
     decrement_quantity_if_available, decrement_insufficient, commit_checkout, restock,
     restock_product_missing, adjust_quantity, adjust_quantity_stale, write_status,
     commit_status, reload, ProductServiceStep, update_commit, update_duplicate,
     update_stale, refresh, delete_commit

LEMMA InFlightBoundedStep ==
  ASSUME Shape, InFlightBounded, NEW r \in Session, Call(r) \/ Step(r) \/ Abort(r)
  PROVE  InFlightBounded'
<1>1. \A s \in Session : s # r => pc'[s] = pc[s]
  BY TypeStep DEF Shape, StepOK, SameSession
<1>2. IsFiniteSet(InFlight) /\ Cardinality(InFlight) \in Nat
      /\ Cardinality(InFlight) <= MaxInFlight /\ MaxInFlight \in Nat
  BY FS_CardinalityType, MaxInFlightAssumption DEF InFlightBounded
<1>3. CASE Call(r)
  <2>1. Cardinality(InFlight) < MaxInFlight
    BY <1>3, CallAdmits DEF Admit
  <2>2. /\ IsFiniteSet(InFlight \cup {r})
        /\ Cardinality(InFlight \cup {r}) <= Cardinality(InFlight) + 1
    BY <1>2, FS_AddElement
  <2>3. InFlight' \in SUBSET (InFlight \cup {r})
    BY <1>1 DEF InFlight
  <2>4. IsFiniteSet(InFlight') /\ Cardinality(InFlight') <= Cardinality(InFlight \cup {r})
    BY <2>2, <2>3, FS_Subset
  <2>5. Cardinality(InFlight') \in Nat /\ Cardinality(InFlight \cup {r}) \in Nat
    BY <2>2, <2>4, FS_CardinalityType
  <2> QED BY <1>2, <2>1, <2>2, <2>4, <2>5 DEF InFlightBounded
<1>4. CASE Step(r) \/ Abort(r)
  <2>1. InFlight' \in SUBSET InFlight
    BY <1>1, <1>4, StepInFlight DEF InFlight
  <2>2. IsFiniteSet(InFlight') /\ Cardinality(InFlight') <= Cardinality(InFlight)
    BY <1>2, <2>1, FS_Subset
  <2>3. Cardinality(InFlight') \in Nat
    BY <2>2, FS_CardinalityType
  <2> QED BY <1>2, <2>2, <2>3 DEF InFlightBounded
<1> QED BY <1>3, <1>4

-----------------------------------------------------------------------------
(* Which rows a request has locked                                         *)
-----------------------------------------------------------------------------

(* What any step does to the locks.                                        *)
LEMMA LockKinds ==
  ASSUME Shape, NEW r \in Session, Call(r) \/ Step(r) \/ Abort(r)
  PROVE  \/ UNCHANGED lock
         \/ lock' = Released(r)
         \/ \E x \in Row : /\ CanWrite(r, x)
                           /\ lock' = [y \in Row |-> IF y \in LockSet(x) THEN r ELSE lock[y]]
<1>1. CASE \E p \in ProductId : \E version : Edits(r, p, version)
  BY <1>1 DEF Edits, WriteAndCommit
<1>2. CASE SetsStatus(r)
  BY <1>2 DEF SetsStatus, Write, Row, Shape, SessionsOK, SessionOK, PatchSteps
<1> QED
  BY <1>1, <1>2, StepKinds
  DEF Shape, Quiet, tables, Adds, Takes, Returns, Commits, RollsBack, Write, Commit,
      Rollback, Row

LEMMA OneLockStep ==
  ASSUME Shape, OneLock, NEW r \in Session, Call(r) \/ Step(r) \/ Abort(r)
  PROVE  OneLock'
<1> SUFFICES ASSUME Dialect = "sqlite", NEW x \in Row, NEW y \in Row
             PROVE  lock'[x] = lock'[y]
  BY DEF OneLock
<1> QED BY LockKinds DEF OneLock, Released, LockSet

LEMMA OrdersLockedLastStep ==
  ASSUME Shape, OrdersLockedLast, NEW r \in Session, Call(r) \/ Step(r) \/ Abort(r)
  PROVE  OrdersLockedLast'
<1> SUFFICES ASSUME Dialect = "postgresql", NEW o \in OrderId, lock'[o] # NoSession
             PROVE  /\ target'[lock'[o]] = o
                    /\ pc'[lock'[o]] \in CheckoutSteps \cup {"commit_status"}
  BY DEF OrdersLockedLast
<1> USE SessionAssumption DEF Shape
<1>1. o \in Row /\ o \notin ProductId /\ lock[o] \in Session \cup {NoSession}
      /\ lock'[o] \in Session
  <2>1. lock' \in [Row -> Session \cup {NoSession}]
    BY TypeStep DEF StepOK, TypeOK
  <2> QED BY <2>1, KeyAssumption DEF Row, TypeOK
<1>2. lock[o] \in Session =>
        target[lock[o]] = o /\ pc[lock[o]] \in CheckoutSteps \cup {"commit_status"}
  BY DEF OrdersLockedLast
<1>3. CASE lock'[o] # r
  <2>1. lock[o] = lock'[o]
    BY <1>1, <1>3, Undisturbed
  <2>2. target'[lock[o]] = target[lock[o]] /\ pc'[lock[o]] = pc[lock[o]]
    BY <1>1, <1>3, <2>1, TypeStep DEF StepOK, SameSession
  <2> QED BY <1>1, <1>2, <2>1, <2>2
<1>4. CASE lock'[o] = r
  <2>1. CASE lock[o] = r
    <3>1. target[r] = o /\ pc[r] \in {"decrement", "commit_checkout", "commit_status"}
      BY <1>1, <1>2, <2>1 DEF CheckoutSteps
    <3>2. ~Commits(r) /\ ~RollsBack(r)
      BY <1>1, <1>4 DEF Commits, RollsBack, Commit, Rollback, Released
    <3>3. \E p \in ProductId : Takes(r, p)
      BY <3>1, <3>2, StepKinds
      DEF Quiet, Adds, Returns, SetsStatus, Edits, CheckoutSteps, TransactionSteps
    <3> QED BY <1>4, <3>1, <3>3 DEF Takes, CheckoutSteps
  <2>2. CASE lock[o] # r
    <3>1. PICK x \in Row :
            /\ \E version : Write(r, x, version)
            /\ o \in LockSet(x)
            /\ \/ Adds(r) /\ x = target'[r]
               \/ SetsStatus(r) /\ x = target[r]
               \/ x \in ProductId
      <4>1. \E x \in Row :
              /\ \E version : Write(r, x, version)
              /\ \/ Adds(r) /\ x = target'[r]
                 \/ SetsStatus(r) /\ x = target[r]
                 \/ x \in ProductId
        <5>1. ~Quiet(r) /\ ~(\E p \in ProductId : \E version : Edits(r, p, version))
          BY <1>4, <2>2 DEF Quiet, tables, Edits, WriteAndCommit
        <5>2. ~Commits(r) /\ ~RollsBack(r)
          BY <1>1, <1>4 DEF Commits, RollsBack, Commit, Rollback, Released
        <5>3. SetsStatus(r) => target[r] \in Row
          BY DEF SetsStatus, SessionsOK, SessionOK, PatchSteps, Row
        <5> QED BY <5>1, <5>2, <5>3, StepKinds DEF Adds, Takes, Returns, SetsStatus, Row
      <4> QED BY <1>1, <1>4, <2>2, <4>1 DEF Write
    <3>2. x = o
      BY <3>1 DEF LockSet
    <3> QED BY <1>1, <1>4, <3>1, <3>2 DEF Adds, SetsStatus, CheckoutSteps
  <2> QED BY <2>1, <2>2
<1> QED BY <1>3, <1>4

(* The product a patch is about to write is the one its loop has come to.  *)
LEMMA LinesAscendStep ==
  ASSUME LinesSorted, Shape, OneLock, \A s \in Session : LinesAscend(s),
         NEW r \in Session, Call(r) \/ Step(r) \/ Abort(r), NEW s \in Session
  PROVE  LinesAscend(s)'
<1> USE SessionAssumption DEF Shape
<1>1. LinesAscend(s) /\ LinesAscend(r)
  OBVIOUS
<1>2. CASE s # r
  <2>1. /\ pc'[s] = pc[s] /\ product'[s] = product[s] /\ todo'[s] = todo[s]
        /\ \A p \in ProductId : lock'[p] = s => lock[p] = s
    BY <1>2, TypeStep, Undisturbed DEF StepOK, SameSession, Row
  <2> QED BY <1>1, <2>1 DEF LinesAscend, First
<1>3. SUFFICES ASSUME s = r, pc'[r] \in LoopSteps PROVE LinesAscend(r)'
  BY <1>2 DEF LinesAscend, LoopSteps
<1>4. CASE /\ pc[r] \notin TransactionSteps /\ pc'[r] # "adjust_quantity"
           /\ \A p \in ProductId : lock'[p] = r => Dialect = "sqlite" \/ lock[p] = r
  BY <1>3, <1>4, DialectAssumption DEF LinesAscend, NothingLeftBehind, Row
<1>5. CASE Adds(r)
  <2>1. \A p \in ProductId : lock'[p] = r => Dialect = "sqlite" \/ lock[p] = r
    BY <1>5, KeyAssumption DEF Adds, Write, LockSet, Row, TypeOK
  <2> QED BY <1>4, <1>5, <2>1 DEF Adds, TransactionSteps
<1>6. ASSUME NEW p \in First(todo[r]), todo'[r] = todo[r] \ {p},
             pc'[r] # "adjust_quantity", pc[r] \in LoopSteps,
             \A q \in ProductId : lock'[q] = r => Dialect = "sqlite" \/ q = p \/ lock[q] = r
      PROVE  LinesAscend(r)'
  <2>1. todo[r] \subseteq Nat
    BY KeyAssumption DEF TypeOK
  <2>2. \A q \in todo'[r] : p < q /\ q \in todo[r]
    BY <1>6, <2>1 DEF First
  <2> QED BY <1>1, <1>6, <2>2, DialectAssumption DEF LinesAscend
<1>7. CASE \E p \in ProductId : Takes(r, p)
  <2>1. PICK p \in ProductId : Takes(r, p)
    BY <1>7
  <2>2. \A q \in ProductId : lock'[q] = r => Dialect = "sqlite" \/ q = p \/ lock[q] = r
    BY <2>1, KeyAssumption DEF Takes, Write, LockSet, Row, TypeOK
  <2> QED BY <1>6, <2>1, <2>2 DEF Takes, LoopSteps
<1>8. CASE adjust_quantity(r)
  <2>1. /\ pc[r] = "adjust_quantity" /\ product[r].id \in First(todo[r])
        /\ product[r].id \in ProductId
    BY <1>1, <1>8 DEF adjust_quantity, LinesAscend, TypeOK, SessionsOK, SessionOK
  <2>2. /\ todo'[r] = todo[r] \ {product[r].id} /\ pc'[r] # "adjust_quantity"
        /\ \E version : Write(r, product[r].id, version)
    BY <1>8 DEF adjust_quantity, Goto, AfterLine, TypeOK
  <2>3. \A q \in ProductId :
          lock'[q] = r => Dialect = "sqlite" \/ q = product[r].id \/ lock[q] = r
    BY <2>1, <2>2, KeyAssumption DEF Write, LockSet, Row, TypeOK
  <2> QED BY <1>6, <2>1, <2>2, <2>3 DEF LoopSteps
<1>9. CASE restock(r)
  <2>1. PICK p \in First(todo[r]) :
          Read(r, p) # NoRow /\ product' = [product EXCEPT ![r] = Read(r, p)]
    BY <1>9 DEF restock, next_lines
  <2>2. p \in ProductId /\ Read(r, p).id = p
    <3>1. p \in ProductId
      BY DEF First, TypeOK
    <3> QED BY <2>1, <3>1 DEF Read, TypeOK, TablesTypeOK
  <2>3. product'[r].id \in First(todo'[r]) /\ todo'[r] = todo[r]
    BY <1>9, <2>1, <2>2 DEF restock, TypeOK
  <2>4. lock' = lock /\ pc[r] \in LoopSteps
    BY <1>9 DEF restock, tables, LoopSteps
  <2> QED BY <1>1, <2>3, <2>4 DEF LinesAscend, First
<1>10. CASE restock_product_missing(r)
  <2>1. /\ pc[r] = "restock" /\ pc'[r] # "adjust_quantity" /\ lock' = lock
        /\ todo'[r] \subseteq todo[r]
    BY <1>10 DEF restock_product_missing, Goto, AfterLine, tables, TypeOK
  <2> QED BY <1>1, <2>1 DEF LinesAscend, LoopSteps
<1>11. CASE \E id \in OrderId, status \in PatchStatus : update_status(r, id, status)
  <2>1. pc[r] = "idle" /\ lock' = lock /\ pc'[r] # "adjust_quantity"
    BY <1>11 DEF update_status, Admit, tables, Goto, TypeOK
  <2> QED BY <1>4, <2>1 DEF TransactionSteps
<1>12. CASE write_status(r) \/ commit_status(r)
  BY <1>3, <1>12 DEF write_status, commit_status, Goto, LoopSteps, TypeOK
<1>13. CASE pc'[r] = "decrement"
  BY <1>5, <1>7, <1>13, StepKinds
  DEF Quiet, Returns, SetsStatus, Commits, RollsBack, Edits, CheckoutSteps, TransactionSteps
<1>14. CASE pc'[r] # "decrement"
  BY <1>3, <1>8, <1>9, <1>10, <1>11, <1>12, <1>14, PatchStepKinds DEF LoopSteps, PatchSteps
<1> QED BY <1>13, <1>14

-----------------------------------------------------------------------------
(* The invariant                                                           *)
-----------------------------------------------------------------------------
LEMMA InitLockOrder == Init => LockOrder
<1> SUFFICES ASSUME Init PROVE LockOrder
  OBVIOUS
<1>1. InFlight = {} /\ InFlightBounded
  <2>1. InFlight = {}
    BY DEF Init, InFlight
  <2> QED BY <2>1, FS_EmptySet, MaxInFlightAssumption DEF InFlightBounded
<1>2. OneLock /\ OrdersLockedLast
  BY DEF Init, OneLock, OrdersLockedLast, Row
<1>3. \A r \in Session : LinesAscend(r)
  BY DEF Init, LinesAscend, LoopSteps
<1> QED BY <1>1, <1>2, <1>3 DEF LockOrder

LEMMA NextLockOrder == LinesSorted /\ IInv /\ LockOrder /\ [Next]_vars => LockOrder'
<1> SUFFICES ASSUME LinesSorted, IInv, LockOrder, [Next]_vars PROVE LockOrder'
  OBVIOUS
<1>1. CASE UNCHANGED vars
  <2> USE <1>1 DEF vars, tables
  <2>1. InFlightBounded' /\ OneLock' /\ OrdersLockedLast'
    BY DEF LockOrder, InFlightBounded, InFlight, OneLock, OrdersLockedLast
  <2>2. \A r \in Session : LinesAscend(r)'
    BY DEF LockOrder, LinesAscend, First
  <2> QED BY <2>1, <2>2 DEF LockOrder
<1>2. CASE \E r \in Session : Call(r) \/ Step(r) \/ Abort(r)
  BY <1>2, InFlightBoundedStep, OneLockStep, OrdersLockedLastStep, LinesAscendStep
  DEF LockOrder, IInv
<1> QED BY <1>1, <1>2 DEF Next

(* Lines read back in insertion order are locked in the order of their     *)
(* ids by every loop, and an order's own row last.                         *)
THEOREM LocksInOrder == LinesSorted /\ Spec => []LockOrder
<1> SUFFICES ASSUME LinesSorted PROVE Spec => []LockOrder
  OBVIOUS
<1>1. IInv /\ LockOrder /\ [Next]_vars => LockOrder'
  BY NextLockOrder
<1> QED BY <1>1, InitLockOrder, InductiveInvariant, PTL DEF Spec

-----------------------------------------------------------------------------
(* No deadlock                                                             *)
-----------------------------------------------------------------------------

(* A set of requests each of which waits for another one of them.          *)
Circle(group) ==
  group # {} /\ \A r \in group : \E s \in group : WaitsFor(r, s)

(* SQLite: whoever has the lock has all rows and waits for nobody.         *)
LEMMA NoCircleOnSqlite ==
  ASSUME IInv, OneLock, Dialect = "sqlite", NEW group \in SUBSET Session, Circle(group)
  PROVE  FALSE
<1>1. PICK r \in group, s \in group, t \in group : WaitsFor(r, s) /\ WaitsFor(s, t)
  BY DEF Circle
<1>2. \A u \in Session : Wanted(u) \subseteq Row
  <2>1. \A x : LockSet(x) = Row
    BY DEF LockSet
  <2> QED BY <2>1 DEF Wanted
<1>3. PICK x \in Row, y \in Row : lock[x] = s /\ lock[y] = t
  BY <1>1, <1>2 DEF WaitsFor
<1> QED BY <1>1, <1>3 DEF WaitsFor, OneLock

LEMMA WantedRows ==
  ASSUME IInv, Dialect = "postgresql", NEW r \in Session
  PROVE  /\ Wanted(r) \subseteq Row
         /\ Wanted(r) # {} =>
              pc[r] \in {"decrement", "adjust_quantity", "update_status", "update", "delete"}
         /\ pc[r] = "decrement" => Wanted(r) = First(todo[r])
         /\ pc[r] = "adjust_quantity" => Wanted(r) = {product[r].id}
         /\ pc[r] = "update_status" => Wanted(r) = {target[r]}
<1> USE DEF IInv, Shape
<1>1. \A x : LockSet(x) = {x}
  BY DEF LockSet
<1>2. pc[r] = "decrement" => Wanted(r) = First(todo[r])
  BY <1>1 DEF Wanted
<1>3. pc[r] = "adjust_quantity" => Wanted(r) = {product[r].id}
  BY <1>1 DEF Wanted
<1>4. pc[r] \in {"update_status", "update", "delete"} => Wanted(r) = {target[r]}
  BY <1>1 DEF Wanted
<1>5. Wanted(r) # {} =>
        pc[r] \in {"decrement", "adjust_quantity", "update_status", "update", "delete"}
  BY DEF Wanted
<1>6. First(todo[r]) \subseteq Row
  BY DEF First, Row, TypeOK
<1>7. pc[r] = "adjust_quantity" => product[r].id \in Row
  BY DEF SessionsOK, SessionOK, Row, TypeOK
<1>8. pc[r] \in {"update_status", "update", "delete"} => target[r] \in Row
  BY DEF SessionsOK, SessionOK, Row, PatchSteps, ProductSteps
<1> QED BY <1>2, <1>3, <1>4, <1>5, <1>6, <1>7, <1>8

(* PostgreSQL: a member of a circle is in a loop, and waits for the one    *)
(* product the loop has come to.  It cannot wait for an order's row: that  *)
(* is locked by a checkout, whose order nobody can address yet, or by a    *)
(* PATCH that waits no more.                                               *)
LEMMA CircleMember ==
  ASSUME IInv, LockOrder, Dialect = "postgresql", NEW r \in Session, NEW s \in Session,
         NEW t \in Session, NEW u \in Session,
         WaitsFor(r, s), WaitsFor(s, t), WaitsFor(t, u)
  PROVE  pc[s] \in LoopSteps /\ \E q \in First(todo[s]) : lock[q] = t
<1> USE SessionAssumption DEF IInv, Shape
<1>1. PICK x \in Wanted(r) : lock[x] = s
  BY DEF WaitsFor
<1>2. PICK y \in Wanted(s) : lock[y] = t
  BY DEF WaitsFor
<1>3. Wanted(t) # {}
  BY DEF WaitsFor
<1>4. pc[s] \in TransactionSteps
  BY <1>1, WantedRows DEF NothingLeftBehind
<1>5. pc[s] \in {"decrement", "adjust_quantity", "update_status"}
  BY <1>2, <1>4, WantedRows DEF TransactionSteps
<1>6. pc[s] # "update_status"
  <2>1. SUFFICES ASSUME pc[s] = "update_status" PROVE FALSE
    OBVIOUS
  <2>2. y = target[s] /\ y \in OrderId /\ committed[y] # NoRow
    BY <1>2, <2>1, WantedRows
    DEF SessionsOK, SessionOK, PatchesLoaded, LoadedOK, PatchSteps
  <2>3. target[t] = y /\ pc[t] \in CheckoutSteps \cup {"commit_status"}
    BY <1>2, <2>2 DEF LockOrder, OrdersLockedLast
  <2>4. pc[t] = "decrement"
    BY <1>3, <2>3, WantedRows DEF CheckoutSteps
  <2> QED BY <2>2, <2>3, <2>4 DEF CheckoutsOpen, CheckoutOpen, CheckoutSteps
<1>7. y \in First(todo[s])
  BY <1>2, <1>5, <1>6, WantedRows DEF LockOrder, LinesAscend
<1> QED BY <1>2, <1>5, <1>6, <1>7 DEF LoopSteps

LEMMA NoCircleOnPostgresql ==
  ASSUME IInv, LockOrder, Dialect = "postgresql", NEW group \in SUBSET Session,
         Circle(group)
  PROVE  FALSE
<1> USE SessionAssumption DEF IInv, Shape
<1> DEFINE H == {s \in group : \E r \in group : WaitsFor(r, s)}
           f == [s \in H |-> CHOOSE q : q \in First(todo[s])]
<1>1. H # {}
  BY DEF Circle
<1>2. ASSUME NEW s \in H
      PROVE  \E t \in H : /\ pc[s] \in LoopSteps
                          /\ \E q \in First(todo[s]) : lock[q] = t
  <2>1. PICK r \in group : WaitsFor(r, s)
    BY <1>2
  <2>2. PICK t \in group : WaitsFor(s, t)
    BY <1>2 DEF Circle
  <2>3. PICK u \in group : WaitsFor(t, u)
    BY DEF Circle
  <2>4. t \in H
    BY <1>2, <2>2
  <2> QED BY <1>2, <2>1, <2>2, <2>3, <2>4, CircleMember
<1>3. IsFiniteSet(H)
  <2>1. H \in SUBSET InFlight
    BY <1>2 DEF InFlight, LoopSteps
  <2> QED BY <2>1, FS_Subset DEF LockOrder, InFlightBounded
<1>4. ASSUME NEW s \in H
      PROVE  /\ f[s] \in First(todo[s]) /\ f[s] \in Nat
             /\ \A q \in First(todo[s]) : q = f[s]
  <2>1. \E q : q \in First(todo[s])
    BY <1>2
  <2>2. f[s] \in First(todo[s])
    BY <2>1
  <2>3. todo[s] \subseteq Nat
    BY <1>4, KeyAssumption DEF TypeOK
  <2> HIDE DEF f
  <2> QED BY <2>2, <2>3 DEF First
<1>5. ASSUME NEW s \in H PROVE \E t \in H : f[s] < f[t]
  <2>1. PICK t \in H, q \in First(todo[s]) : lock[q] = t /\ q = f[s]
    BY <1>2, <1>4
  <2>2. q \in ProductId
    BY <1>5, <2>1 DEF First, TypeOK
  <2>3. pc[t] \in LoopSteps /\ f[t] \in todo[t]
    BY <1>2, <1>4 DEF First
  <2>4. LinesAscend(t)
    BY DEF LockOrder
  <2> HIDE DEF f
  <2> QED BY <2>1, <2>2, <2>3, <2>4 DEF LinesAscend
<1> HIDE DEF f
<1>6. PICK s \in H : \A t \in H : f[t] <= f[s]
  <2> HIDE DEF H
  <2> QED BY <1>1, <1>3, <1>4, GreatestValue
<1>7. PICK t \in H : f[s] < f[t]
  BY <1>5
<1>8. f[t] <= f[s] /\ f[s] \in Nat /\ f[t] \in Nat
  BY <1>4, <1>6
<1> QED BY <1>7, <1>8

(* With lines read back in insertion order, and on SQLite in any order, no *)
(* set of requests wait for one another, however many requests overlap.    *)
THEOREM DeadlockFree == (LinesSorted \/ Dialect = "sqlite") /\ Spec => []NoDeadlock
<1> SUFFICES ASSUME LinesSorted \/ Dialect = "sqlite" PROVE Spec => []NoDeadlock
  OBVIOUS
<1>1. CASE Dialect = "sqlite"
  <2>1. Init => OneLock
    BY DEF Init, OneLock, Row
  <2>2. IInv /\ OneLock /\ [Next]_vars => OneLock'
    <3>1. OneLock /\ UNCHANGED vars => OneLock'
      BY DEF OneLock, vars, tables
    <3> QED BY <3>1, OneLockStep DEF Next, IInv
  <2>3. IInv /\ OneLock => NoDeadlock
    BY <1>1, NoCircleOnSqlite DEF NoDeadlock, Circle
  <2> QED BY <2>1, <2>2, <2>3, InductiveInvariant, PTL DEF Spec
<1>2. CASE LinesSorted
  <2>1. IInv /\ LockOrder => NoDeadlock
    <3> SUFFICES ASSUME IInv, LockOrder, NEW group \in SUBSET Session, Circle(group)
                 PROVE  FALSE
      BY DEF NoDeadlock, Circle
    <3> QED BY NoCircleOnSqlite, NoCircleOnPostgresql, DialectAssumption DEF LockOrder
  <2>2. Spec => []LockOrder
    BY <1>2, LocksInOrder
  <2> QED BY <2>1, <2>2, InductiveInvariant, PTL
<1> QED BY <1>1, <1>2
=============================================================================
