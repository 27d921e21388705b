--------------------------- MODULE CheckoutProofs ---------------------------
(***************************************************************************)
(* Proofs about Checkout for any number of requests and products, however  *)
(* they overlap: a cart has at most one order and one message, and is      *)
(* completed exactly when it has its order; a finalized cart and its order *)
(* never change; no request waits for ever; and the service implements     *)
(* CartOrders.  As long as requests do not overlap, the documented rules   *)
(* of carts and orders hold, and an order without a fault sends its        *)
(* message.                                                                *)
(***************************************************************************)
EXTENDS CheckoutFlow, FiniteSetTheorems, WellFoundedInduction, TLAPS

LEMMA InitRows == Init => RowsInv
BY NoIdAssumption
   DEF Init, RowsInv, Typed, HasCart, OneWriter, Created, Completing, OrderIsLast,
       OneOrderPerCart, OrdersOf, Shape, NewTx, NoOrder, Ids, CartStatuses,
       CartWrites, CartSteps, NoCartSteps, Steps, AddSteps, RemoveSteps,
       CheckoutSteps

\* A request that ends, committed rows unchanged, releases what it held.
LEMMA EndInvariant ==
  ASSUME RowsInv, NEW r \in Requests, End(r), UNCHANGED rows
  PROVE  RowsInv'
<1> USE NoIdAssumption
        DEF RowsInv, Typed, HasCart, OneWriter, Created, Completing, OrderIsLast,
            OneOrderPerCart, OrdersOf, Shape, NewTx, Ids, CartStatuses,
            CartWrites, CartSteps, NoCartSteps, Steps, AddSteps,
            RemoveSteps, CheckoutSteps, Goto, End, rows
<1> QED
  OBVIOUS

\* A request that goes on with its cart, writing no cart row of its own and
\* holding what it held, leaves the invariant.
LEMMA GoOnInvariant ==
  ASSUME RowsInv, NEW r \in Requests, UNCHANGED rows,
         pc[r] \notin {"done", "publish"},
         NEW s \in Steps \ {"saveOrder", "done"}, Goto(r, s),
         s \notin NoCartSteps,
         NEW t, Shape(t), tx' = [tx EXCEPT ![r] = t],
         t.cart \in Requests,
         t.cartWrite = tx[r].cartWrite,
         IF tx[r].cart = NoId THEN status[t.cart] # "none"
         ELSE t.cart = tx[r].cart
  PROVE  RowsInv'
<1> USE NoIdAssumption
        DEF RowsInv, Typed, HasCart, OneWriter, Created, Completing, OrderIsLast,
            OneOrderPerCart, OrdersOf, Shape, NewTx, Ids, CartStatuses,
            CartWrites, CartSteps, NoCartSteps, Steps, AddSteps,
            RemoveSteps, CheckoutSteps, Goto, End, rows
<1> QED
  OBVIOUS

LEMMA StepRows == RowsInv /\ [Next]_vars => RowsInv'
<1> SUFFICES ASSUME RowsInv, [Next]_vars
             PROVE  RowsInv'
  OBVIOUS
<1> USE NoIdAssumption
        DEF RowsInv, Typed, HasCart, OneWriter, Created, Completing, OrderIsLast,
            OneOrderPerCart, OrdersOf, Shape, NewTx, Ids, CartStatuses,
            CartWrites, CartSteps, NoCartSteps, Steps, AddSteps,
            RemoveSteps, CheckoutSteps, Goto, End, rows
<1>1. ASSUME NEW r \in Requests, NEW p \in Products, StartAdd(r, p)
      PROVE  RowsInv'
  BY <1>1 DEF StartAdd
<1>2. ASSUME NEW r \in Requests, RefuseAdd(r)
      PROVE  RowsInv'
  BY <1>2 DEF RefuseAdd
<1>3. ASSUME NEW r \in Requests, NEW i \in Requests, StartRemove(r, i)
      PROVE  RowsInv'
  BY <1>3 DEF StartRemove
<1>4. ASSUME NEW r \in Requests, StartCheckout(r)
      PROVE  RowsInv'
  BY <1>4 DEF StartCheckout
<1>5. ASSUME NEW r \in Requests, AddFindCart(r)
      PROVE  RowsInv'
  <2>1. ASSUME NEW c \in ActiveCarts, tx' = [tx EXCEPT ![r].cart = c]
        PROVE  RowsInv'
    BY <1>5, <2>1 DEF AddFindCart, ActiveCarts
  <2>2. ASSUME tx' = [tx EXCEPT ![r].cart = r, ![r].cartWrite = "create"]
        PROVE  RowsInv'
    BY <1>5, <2>2 DEF AddFindCart
  <2> QED
    BY <1>5, <2>1, <2>2 DEF AddFindCart
<1>6. ASSUME NEW r \in Requests, AddFindItem(r)
      PROVE  RowsInv'
  <2>1. ASSUME NEW i \in SameProduct(r), Goto(r, "reload"),
               tx' = [tx EXCEPT ![r].item = i,
                                ![r].quantity = items[i].quantity + 1]
        PROVE  RowsInv'
    <3> DEFINE t == [tx[r] EXCEPT !.item = i, !.quantity = items[i].quantity + 1]
    <3>1. Shape(t) /\ t.cart = tx[r].cart /\ t.cartWrite = tx[r].cartWrite
      <4>1. Shape(tx[r])
        OBVIOUS
      <4> HIDE DEF Shape
      <4> QED
        BY ONLY <4>1 DEF Shape
    <3>2. tx' = [tx EXCEPT ![r] = t]
      BY <2>1
    <3>3. pc[r] = "addItem" /\ UNCHANGED rows
      BY <1>6 DEF AddFindItem
    <3> HIDE DEF t
    <3> QED
      BY <2>1, <3>1, <3>2, <3>3, GoOnInvariant
  <2>2. ASSUME Goto(r, "sum"),
               tx' = [tx EXCEPT ![r].item = r, ![r].quantity = 1,
                                ![r].itemWrite = "save"]
        PROVE  RowsInv'
    <3> DEFINE t == [tx[r] EXCEPT !.item = r, !.quantity = 1,
                                  !.itemWrite = "save"]
    <3>1. Shape(t) /\ t.cart = tx[r].cart /\ t.cartWrite = tx[r].cartWrite
      <4>1. Shape(tx[r])
        OBVIOUS
      <4> HIDE DEF Shape
      <4> QED
        BY ONLY <4>1 DEF Shape
    <3>2. tx' = [tx EXCEPT ![r] = t]
      BY <2>2
    <3>3. pc[r] = "addItem" /\ UNCHANGED rows
      BY <1>6 DEF AddFindItem
    <3> HIDE DEF t
    <3> QED
      BY <2>2, <3>1, <3>2, <3>3, GoOnInvariant
  <2> QED
    BY <1>6, <2>1, <2>2 DEF AddFindItem
<1>7. ASSUME NEW r \in Requests, Reload(r)
      PROVE  RowsInv'
  BY <1>7 DEF Reload
<1>8. ASSUME NEW r \in Requests, UpdateItem(r)
      PROVE  RowsInv'
  BY <1>8 DEF UpdateItem
<1>9. ASSUME NEW r \in Requests, ReinsertItem(r)
      PROVE  RowsInv'
  <2>1. CASE End(r)
    BY <1>9, <2>1, EndInvariant DEF ReinsertItem
  <2>2. CASE tx' = [tx EXCEPT ![r].itemWrite = "save"] /\ Goto(r, "sum")
    BY <1>9, <2>2 DEF ReinsertItem
  <2> QED
    BY <1>9, <2>1, <2>2 DEF ReinsertItem
<1>10. ASSUME NEW r \in Requests, RemoveFindCart(r)
      PROVE  RowsInv'
  <2>1. CASE End(r)
    BY <1>10, <2>1, EndInvariant DEF RemoveFindCart
  <2>2. ASSUME NEW c \in ActiveCarts, Goto(r, "removeItem"),
               tx' = [tx EXCEPT ![r].cart = c]
        PROVE  RowsInv'
    BY <1>10, <2>2 DEF RemoveFindCart, ActiveCarts
  <2> QED
    BY <1>10, <2>1, <2>2 DEF RemoveFindCart
<1>11. ASSUME NEW r \in Requests, RemoveFindItem(r)
      PROVE  RowsInv'
  <2>1. CASE End(r)
    BY <1>11, <2>1, EndInvariant DEF RemoveFindItem
  <2>2. CASE Goto(r, "delete") /\ UNCHANGED tx
    BY <1>11, <2>2 DEF RemoveFindItem
  <2> QED
    BY <1>11, <2>1, <2>2 DEF RemoveFindItem
<1>12. ASSUME NEW r \in Requests, DeleteItem(r)
      PROVE  RowsInv'
  BY <1>12 DEF DeleteItem
<1>13. ASSUME NEW r \in Requests, SumItems(r)
      PROVE  RowsInv'
  BY <1>13 DEF SumItems
<1>14. ASSUME NEW r \in Requests, SetTotal(r)
      PROVE  RowsInv'
  BY <1>14 DEF SetTotal, CartLocked, CartHolders
<1>15. ASSUME NEW r \in Requests, Commit(r)
      PROVE  RowsInv'
  BY <1>15 DEF Commit
<1>16. ASSUME NEW r \in Requests, ReadCart(r)
      PROVE  RowsInv'
  <2>1. CASE End(r)
    BY <1>16, <2>1, EndInvariant DEF ReadCart
  <2>2. ASSUME NEW c \in ActiveCarts, Goto(r, "complete"),
               tx' = [tx EXCEPT ![r].cart = c, ![r].total = total[c],
                                ![r].sum = CommittedSum(c)]
        PROVE  RowsInv'
    <3> DEFINE t == [tx[r] EXCEPT !.cart = c, !.total = total[c],
                                  !.sum = CommittedSum(c)]
    <3>1. c \in Requests /\ status[c] # "none"
      BY DEF ActiveCarts
    <3>2. Shape(t) /\ t.cart = c /\ t.cartWrite = tx[r].cartWrite
      <4>1. Shape(tx[r]) /\ c \in Ids
        BY <3>1
      <4> HIDE DEF Shape
      <4> QED
        BY ONLY <4>1 DEF Shape
    <3>3. tx' = [tx EXCEPT ![r] = t]
      BY <2>2
    <3>4. pc[r] = "readCart" /\ UNCHANGED rows
      BY <1>16 DEF ReadCart
    <3> HIDE DEF t
    <3> QED
      BY <2>2, <3>1, <3>2, <3>3, <3>4, GoOnInvariant
  <2> QED
    BY <1>16, <2>1, <2>2 DEF ReadCart
<1>17. ASSUME NEW r \in Requests, CompleteCart(r)
      PROVE  RowsInv'
  <2>1. CASE End(r)
    BY <1>17, <2>1, EndInvariant DEF CompleteCart
  <2>2. CASE /\ status[tx[r].cart] = "active"
             /\ tx' = [tx EXCEPT ![r].cartWrite = "complete"]
             /\ Goto(r, "saveOrder")
    BY <1>17, <2>2 DEF CompleteCart, CartLocked, CartHolders
  <2> QED
    BY <1>17, <2>1, <2>2 DEF CompleteCart
<1>18. ASSUME NEW r \in Requests, SaveOrder(r)
      PROVE  RowsInv'
  BY <1>18 DEF SaveOrder
<1>19. ASSUME NEW r \in Requests, Publish(r)
      PROVE  RowsInv'
  BY <1>19 DEF Publish
<1>20. ASSUME NEW r \in Requests, Fail(r)
      PROVE  RowsInv'
  BY <1>20 DEF Fail, InFlight
<1>21. CASE UNCHANGED vars
  BY <1>21 DEF vars
<1> QED
  BY <1>1, <1>2, <1>3, <1>4, <1>5, <1>6, <1>7, <1>8, <1>9, <1>10, <1>11, <1>12, <1>13, <1>14, <1>15, <1>16, <1>17, <1>18, <1>19, <1>20, <1>21
     DEF Next, Begin, Statement, Finished

THEOREM RowsInvariant == Spec => []RowsInv
BY InitRows, StepRows, PTL DEF Spec

\* A cart never has two orders, and it is completed exactly when it has one,
\* however many checkouts, adds and removes of the cart overlap.
THEOREM NoSecondOrder == Spec => []OneOrderPerCart
<1>1. RowsInv => OneOrderPerCart
  BY DEF RowsInv
<1> QED
  BY <1>1, RowsInvariant, PTL

-----------------------------------------------------------------------------
\* The three steps that commit a row, and that no other step does.
LEMMA CommittedRows ==
  ASSUME RowsInv, [Next]_vars
  PROVE  \/ UNCHANGED <<status, orders>>
         \/ \E r \in Requests : Commit(r) \/ SaveOrder(r)
BY DEF Next, Begin, Statement, Fail, Finished, vars, rows, End,
       StartAdd, RefuseAdd, StartRemove, StartCheckout, AddFindCart,
       AddFindItem, Reload, UpdateItem, ReinsertItem, RemoveFindCart,
       RemoveFindItem, DeleteItem, SumItems, SetTotal, ReadCart,
       CompleteCart, Publish

\* What the two commits do: one creates a cart or leaves its status alone, the
\* other completes an active cart that has no order yet.
LEMMA CommitRows ==
  ASSUME RowsInv, NEW r \in Requests, Commit(r)
  PROVE  /\ orders' = orders
         /\ \/ status' = status
            \/ /\ status[r] = "none"
               /\ status' = [status EXCEPT ![r] = "active"]
<1> USE DEF RowsInv, Typed, HasCart, Created, CartSteps, Shape, CartWrites
<1>1. pc[r] = "commit" /\ tx[r].cart \in Requests
  BY DEF Commit
<1>2. CASE tx[r].cartWrite = "create"
  BY <1>1, <1>2 DEF Commit
<1>3. CASE tx[r].cartWrite # "create"
  BY <1>1, <1>3 DEF Commit
<1> QED
  BY <1>2, <1>3

LEMMA SaveOrderRows ==
  ASSUME RowsInv, NEW r \in Requests, SaveOrder(r)
  PROVE  /\ tx[r].cart \in Requests
         /\ status[tx[r].cart] = "active" /\ OrdersOf(tx[r].cart) = {}
         /\ orders[r].cart = NoId
         /\ status' = [status EXCEPT ![tx[r].cart] = "completed"]
         /\ DOMAIN orders' = Requests
         /\ orders'[r].cart = tx[r].cart
         /\ \A o \in Requests \ {r} : orders'[o] = orders[o]
<1> USE DEF RowsInv, Typed, HasCart, Completing, OrderIsLast, CartSteps
<1>1. /\ pc[r] = "saveOrder" /\ tx[r].cart \in Requests
      /\ status[tx[r].cart] = "active"
  BY DEF SaveOrder
<1>2. OrdersOf(tx[r].cart) = {}
  BY <1>1 DEF OneOrderPerCart
<1> QED
  BY <1>1, <1>2 DEF SaveOrder

\* A completed cart is never reopened and an order is never rewritten, not
\* even by a transaction that read the cart while it was active.
THEOREM FinalizedForever == Spec => FinalizedStays
<1> DEFINE Stays ==
      \A r \in Requests :
        /\ status[r] = "completed" => status'[r] = "completed"
        /\ orders[r].cart # NoId => orders'[r] = orders[r]
<1>1. ASSUME RowsInv, [Next]_vars
      PROVE  Stays
  <2>1. CASE UNCHANGED <<status, orders>>
    BY <2>1
  <2>2. ASSUME NEW q \in Requests, Commit(q)
        PROVE  Stays
    BY <1>1, <2>2, CommitRows DEF RowsInv, Typed
  <2>3. ASSUME NEW q \in Requests, SaveOrder(q)
        PROVE  Stays
    BY <1>1, <2>3, SaveOrderRows DEF RowsInv, Typed
  <2> QED
    BY <1>1, <2>1, <2>2, <2>3, CommittedRows
<1>2. RowsInv /\ [Next]_vars => [Stays]_vars
  BY <1>1
<1> QED
  BY <1>2, RowsInvariant, PTL DEF Spec, FinalizedStays

-----------------------------------------------------------------------------
\* The checkout service implements the abstract carts and orders.
THEOREM ImplementsAbstract == Spec => ImplementsCartOrders
<1>1. Init => Abstract!Init
  BY NoIdAssumption DEF Init, Abstract!Init, OrdersOf, NoOrder
<1>2. ASSUME RowsInv, [Next]_vars
      PROVE  [Abstract!Next]_(Abstract!vars)
  <2>1. CASE UNCHANGED <<status, orders>>
    BY <2>1 DEF Abstract!vars, OrdersOf
  <2>2. ASSUME NEW r \in Requests, Commit(r)
        PROVE  [Abstract!Next]_(Abstract!vars)
    <3>1. CASE status' = status
      BY <1>2, <2>2, <3>1, CommitRows DEF Abstract!vars, OrdersOf
    <3>2. CASE /\ status[r] = "none"
               /\ status' = [status EXCEPT ![r] = "active"]
      <4>1. Abstract!Open(r)
        BY <1>2, <2>2, <3>2, CommitRows DEF Abstract!Open, OrdersOf
      <4> QED
        BY <4>1 DEF Abstract!Next
    <3> QED
      BY <1>2, <2>2, <3>1, <3>2, CommitRows
  <2>3. ASSUME NEW r \in Requests, SaveOrder(r)
        PROVE  [Abstract!Next]_(Abstract!vars)
    <3> DEFINE c == tx[r].cart
               placed == [d \in Requests |-> OrdersOf(d)]
    <3>1. /\ c \in Requests
          /\ status[c] = "active" /\ OrdersOf(c) = {}
          /\ orders[r].cart = NoId
          /\ status' = [status EXCEPT ![c] = "completed"]
          /\ orders'[r].cart = c
          /\ \A o \in Requests \ {r} : orders'[o] = orders[o]
      BY <1>2, <2>3, SaveOrderRows
    <3>2. \A d \in Requests :
            OrdersOf(d)' = IF d = c THEN {r} ELSE OrdersOf(d)
      BY <3>1, NoIdAssumption DEF OrdersOf
    <3>3. placed' = [placed EXCEPT ![c] = {r}]
      BY <3>1, <3>2
    <3>4. Abstract!Finalize(c, r)
      BY <3>1, <3>3 DEF Abstract!Finalize
    <3> QED
      BY <3>1, <3>4 DEF Abstract!Next
  <2> QED
    BY <1>2, <2>1, <2>2, <2>3, CommittedRows
<1>3. RowsInv /\ [Next]_vars => [Abstract!Next]_(Abstract!vars)
  BY <1>2
<1> QED
  BY <1>1, <1>3, RowsInvariant, PTL DEF Spec, ImplementsCartOrders, Abstract!Spec

-----------------------------------------------------------------------------
(* Locks.  An item row is locked before its cart row, which is locked last. *)

LEMMA EndKeepsLocks ==
  ASSUME Typed, Locks, NEW r \in Requests, End(r)
  PROVE  Locks'
BY DEF Typed, Locks, End, Goto, NewTx

LEMMA StepLocks == RowsInv /\ Locks /\ [Next]_vars => Locks'
<1> SUFFICES ASSUME RowsInv, Locks, [Next]_vars
             PROVE  Locks'
  OBVIOUS
<1>1. Typed /\ HasCart /\ Completing
  BY DEF RowsInv
<1> USE DEF CartWrites, CartSteps, NoCartSteps
<1>2. ASSUME NEW r \in Requests
      PROVE  /\ tx[r] = [product |-> tx[r].product, cart |-> tx[r].cart,
                         item |-> tx[r].item, quantity |-> tx[r].quantity,
                         total |-> tx[r].total, sum |-> tx[r].sum,
                         cartWrite |-> tx[r].cartWrite,
                         itemWrite |-> tx[r].itemWrite]
             /\ tx[r].cartWrite \in CartWrites
             /\ pc[r] \in NoCartSteps => tx[r].cartWrite = "none"
             /\ tx[r].itemWrite # "none" => pc[r] \in {"sum", "setTotal", "commit"}
             /\ tx[r].cartWrite \in {"total", "complete"} =>
                  pc[r] \in {"commit", "saveOrder"}
             /\ tx[r].cartWrite # "none" => pc[r] \notin {"publish", "done"}
  <2>1. Shape(tx[r])
    BY <1>1 DEF Typed
  <2>2. tx[r] = [product |-> tx[r].product, cart |-> tx[r].cart,
                 item |-> tx[r].item, quantity |-> tx[r].quantity,
                 total |-> tx[r].total, sum |-> tx[r].sum,
                 cartWrite |-> tx[r].cartWrite,
                 itemWrite |-> tx[r].itemWrite]
        /\ tx[r].cartWrite \in CartWrites
    BY <2>1 DEF Shape
  <2> QED
    BY <1>1, <2>2 DEF HasCart, Locks
<1>3. ASSUME NEW r \in Requests, Begin(r)
      PROVE  Locks'
  <2>1. CASE RefuseAdd(r)
    BY <1>1, <2>1, EndKeepsLocks DEF RefuseAdd
  <2>2. ASSUME NEW p \in Products, StartAdd(r, p)
        PROVE  Locks'
    BY <1>1, <1>2, <2>2 DEF StartAdd, Goto, Locks, Typed
  <2>3. ASSUME NEW i \in Requests, StartRemove(r, i)
        PROVE  Locks'
    BY <1>1, <1>2, <2>3 DEF StartRemove, Goto, Locks, Typed
  <2>4. CASE StartCheckout(r)
    BY <1>1, <1>2, <2>4 DEF StartCheckout, Goto, Locks, Typed
  <2> QED
    BY <1>3, <2>1, <2>2, <2>3, <2>4 DEF Begin
<1>4. ASSUME NEW r \in Requests, AddFindCart(r) \/ AddFindItem(r)
      PROVE  Locks'
  <2>1. CASE AddFindCart(r)
    BY <1>1, <1>2, <2>1 DEF AddFindCart, Goto, Locks, Typed
  <2>2. CASE AddFindItem(r)
    <3>1. tx[r].itemWrite = "none" /\ tx[r].cartWrite \in {"none", "create"}
      BY <1>2, <2>2 DEF AddFindItem
    <3>2. ASSUME NEW i \in SameProduct(r), Goto(r, "reload"),
                 tx' = [tx EXCEPT ![r].item = i,
                                  ![r].quantity = items[i].quantity + 1]
          PROVE  Locks'
      <4>1. /\ tx'[r].itemWrite = "none"
            /\ tx'[r].cartWrite = tx[r].cartWrite
        BY <1>1, <1>2, <3>1, <3>2 DEF Typed
      <4> QED
        BY <1>1, <3>1, <3>2, <4>1 DEF Goto, Locks, Typed
    <3>3. CASE /\ Goto(r, "sum")
               /\ tx' = [tx EXCEPT ![r].item = r, ![r].quantity = 1,
                                   ![r].itemWrite = "save"]
      <4>1. tx'[r].cartWrite = tx[r].cartWrite
        BY <1>1, <1>2, <3>1, <3>3 DEF Typed
      <4> QED
        BY <1>1, <3>1, <3>3, <4>1 DEF Goto, Locks, Typed
    <3> QED
      BY <2>2, <3>2, <3>3 DEF AddFindItem
  <2> QED
    BY <1>4, <2>1, <2>2
<1>5. ASSUME NEW r \in Requests, Reload(r) \/ UpdateItem(r)
      PROVE  Locks'
  <2>1. CASE Reload(r)
    <3>1. /\ tx' = tx /\ tx[r].itemWrite = "none"
          /\ tx[r].cartWrite \in {"none", "create"}
      BY <1>2, <2>1 DEF Reload
    <3>2. PICK s \in {"reinsert", "sum", "update"} : Goto(r, s)
      BY <2>1 DEF Reload
    <3> QED
      BY <1>1, <3>1, <3>2 DEF Goto, Locks, Typed
  <2>2. CASE UpdateItem(r)
    BY <1>1, <1>2, <2>2 DEF UpdateItem, Goto, Locks, Typed
  <2> QED
    BY <1>5, <2>1, <2>2
<1>6. ASSUME NEW r \in Requests, ReinsertItem(r)
      PROVE  Locks'
  <2>1. CASE End(r)
    BY <1>1, <2>1, EndKeepsLocks
  <2>2. CASE tx' = [tx EXCEPT ![r].itemWrite = "save"] /\ Goto(r, "sum")
    BY <1>1, <1>2, <1>6, <2>2 DEF ReinsertItem, Goto, Locks, Typed
  <2> QED
    BY <1>6, <2>1, <2>2 DEF ReinsertItem
<1>7. ASSUME NEW r \in Requests, RemoveFindCart(r) \/ RemoveFindItem(r)
      PROVE  Locks'
  <2>1. CASE End(r)
    BY <1>1, <2>1, EndKeepsLocks
  <2>2. CASE RemoveFindCart(r) /\ Goto(r, "removeItem")
    <3>1. \E c \in ActiveCarts : tx' = [tx EXCEPT ![r].cart = c]
      BY <1>1, <2>2 DEF RemoveFindCart, End, Goto, Typed
    <3> QED
      BY <1>1, <1>2, <2>2, <3>1 DEF RemoveFindCart, Goto, Locks, Typed
  <2>3. CASE RemoveFindItem(r) /\ Goto(r, "delete") /\ UNCHANGED tx
    BY <1>1, <1>2, <2>3 DEF RemoveFindItem, Goto, Locks, Typed
  <2> QED
    BY <1>7, <2>1, <2>2, <2>3 DEF RemoveFindCart, RemoveFindItem
<1>8. ASSUME NEW r \in Requests, DeleteItem(r)
      PROVE  Locks'
  BY <1>1, <1>2, <1>8 DEF DeleteItem, Goto, Locks, Typed
<1>9. ASSUME NEW r \in Requests, SumItems(r) \/ SetTotal(r)
      PROVE  Locks'
  <2>1. CASE SumItems(r)
    BY <1>1, <1>2, <2>1 DEF SumItems, Goto, Locks, Typed
  <2>2. CASE SetTotal(r)
    BY <1>1, <1>2, <2>2 DEF SetTotal, Goto, Locks, Typed
  <2> QED
    BY <1>9, <2>1, <2>2
<1>10. ASSUME NEW r \in Requests, Commit(r) \/ Publish(r) \/ Fail(r)
       PROVE  Locks'
  BY <1>1, <1>10, EndKeepsLocks DEF Commit, Publish, Fail
<1>11. ASSUME NEW r \in Requests, ReadCart(r) \/ CompleteCart(r)
       PROVE  Locks'
  <2>1. CASE End(r)
    BY <1>1, <2>1, EndKeepsLocks
  <2>2. CASE ReadCart(r) /\ ~End(r)
    <3>1. PICK c \in ActiveCarts :
            /\ tx' = [tx EXCEPT ![r].cart = c, ![r].total = total[c],
                                ![r].sum = CommittedSum(c)]
            /\ Goto(r, "complete")
      BY <2>2 DEF ReadCart
    <3>2. tx[r].itemWrite = "none" /\ tx[r].cartWrite = "none"
      BY <1>2, <2>2 DEF ReadCart
    <3>3. tx'[r].itemWrite = "none" /\ tx'[r].cartWrite = "none"
      BY <1>1, <1>2, <3>1, <3>2 DEF Typed
    <3> QED
      BY <1>1, <3>1, <3>3 DEF Goto, Locks, Typed
  <2>3. CASE CompleteCart(r) /\ ~End(r)
    BY <1>1, <1>2, <2>3 DEF CompleteCart, Goto, Locks, Typed
  <2> QED
    BY <1>11, <2>1, <2>2, <2>3
<1>12. ASSUME NEW r \in Requests, SaveOrder(r)
       PROVE  Locks'
  <2>1. /\ pc[r] = "saveOrder" /\ Goto(r, "publish")
        /\ tx' = [tx EXCEPT ![r].cartWrite = "none"]
    BY <1>12 DEF SaveOrder
  <2>2. tx[r].itemWrite = "none"
    BY <1>2, <2>1
  <2>3. tx'[r].itemWrite = "none" /\ tx'[r].cartWrite = "none"
    BY <1>1, <1>2, <2>1, <2>2 DEF Typed
  <2> QED
    BY <1>1, <2>1, <2>3 DEF Goto, Locks, Typed
<1>13. CASE UNCHANGED vars
  BY <1>13 DEF vars, Locks
<1> QED
  BY <1>3, <1>4, <1>5, <1>6, <1>7, <1>8, <1>9, <1>10, <1>11, <1>12, <1>13
     DEF Next, Statement, Finished

-----------------------------------------------------------------------------
(* Messages.  Only the last step of a checkout publishes. *)

LEMMA StepMessages == RowsInv /\ Locks /\ Messages /\ [Next]_vars => Messages'
<1> SUFFICES ASSUME RowsInv, Locks, Messages, [Next]_vars
             PROVE  Messages'
  OBVIOUS
<1>1. Typed /\ HasCart
  BY DEF RowsInv
<1>2. ASSUME NEW r \in Requests, UNCHANGED <<orders, published>>,
             NEW s, Goto(r, s), s # "publish", pc[r] # "done" \/ s = "done"
      PROVE  Messages'
  BY <1>1, <1>2 DEF Goto, Messages, Typed
<1>3. ASSUME NEW r \in Requests, Begin(r)
      PROVE  Messages'
  BY <1>2, <1>3
     DEF Begin, StartAdd, RefuseAdd, StartRemove, StartCheckout, End, rows
<1>4. ASSUME NEW r \in Requests,
             \/ AddFindCart(r) \/ AddFindItem(r) \/ UpdateItem(r)
             \/ ReinsertItem(r) \/ RemoveFindCart(r) \/ RemoveFindItem(r)
             \/ DeleteItem(r) \/ SumItems(r) \/ SetTotal(r) \/ Commit(r)
             \/ ReadCart(r) \/ CompleteCart(r) \/ Fail(r)
      PROVE  Messages'
  BY <1>2, <1>4
     DEF AddFindCart, AddFindItem, UpdateItem, ReinsertItem, RemoveFindCart,
         RemoveFindItem, DeleteItem, SumItems, SetTotal, Commit, ReadCart,
         CompleteCart, Fail, End, rows
<1>5. ASSUME NEW r \in Requests, Reload(r)
      PROVE  Messages'
  <2>1. PICK s \in {"reinsert", "sum", "update"} : Goto(r, s)
    BY <1>5 DEF Reload
  <2> QED
    BY <1>2, <1>5, <2>1 DEF Reload, rows
<1>6. ASSUME NEW r \in Requests, SaveOrder(r)
      PROVE  Messages'
  <2>1. orders'[r].cart # NoId /\ \A o \in Requests \ {r} : orders'[o] = orders[o]
    BY <1>6, SaveOrderRows, NoIdAssumption
  <2>2. Goto(r, "publish") /\ published' = published /\ pc[r] = "saveOrder"
    BY <1>6 DEF SaveOrder
  <2> QED
    BY <1>1, <2>1, <2>2 DEF Goto, Messages, Typed
<1>7. ASSUME NEW r \in Requests, Publish(r)
      PROVE  Messages'
  <2>1. /\ pc[r] = "publish" /\ orders' = orders
        /\ pc' = [pc EXCEPT ![r] = "done"]
        /\ published' = published \/ published' = [published EXCEPT ![r] = @ + 1]
    BY <1>7 DEF Publish, End, Goto
  <2>2. published[r] = 0 /\ orders[r].cart # NoId
    BY <2>1 DEF Messages
  <2>3. published' \in [Requests -> 0 .. 1]
    BY <2>1, <2>2 DEF Messages
  <2>4. \A o \in Requests :
          /\ pc'[o] = "publish" => orders'[o].cart # NoId
          /\ published'[o] > 0 => pc'[o] = "done" /\ orders'[o].cart # NoId
    <3> TAKE o \in Requests
    <3>1. CASE o = r
      BY <1>1, <2>1, <2>2, <3>1 DEF Typed
    <3>2. CASE o # r
      BY <1>1, <2>1, <3>2 DEF Typed, Messages
    <3> QED
      BY <3>1, <3>2
  <2> QED
    BY <2>3, <2>4 DEF Messages
<1>8. CASE UNCHANGED vars
  BY <1>8 DEF vars, Messages
<1> QED
  BY <1>3, <1>4, <1>5, <1>6, <1>7, <1>8 DEF Next, Statement, Finished

LEMMA InitIInv == Init => IInv
<1> SUFFICES ASSUME Init PROVE IInv
  OBVIOUS
<1>1. Locks
  BY DEF Init, Locks, NewTx
<1>2. Messages
  BY DEF Init, Messages
<1> QED
  BY <1>1, <1>2, InitRows DEF IInv

LEMMA StepIInv == IInv /\ [Next]_vars => IInv'
BY StepRows, StepLocks, StepMessages DEF IInv

\* The invariant: the rows, the locks and the messages of every request.
THEOREM Invariant == Spec => []IInv
BY InitIInv, StepIInv, PTL DEF Spec

-----------------------------------------------------------------------------
(* Waiting.  A request that waits for a cart waits for one about to commit; *)
(* one that waits for an item, for one past its item and before its commit: *)
(* so a set of waiting requests has one that waits for none of the set.     *)

AtItem == {"update", "reinsert", "delete"}
AtCart == {"setTotal", "complete"}

\* The cart a request waits for was committed by the request that created it,
\* so that its holder does not hold it as its creator.
LEMMA CartHolderCommits ==
  ASSUME IInv, NEW r \in Requests, pc[r] \in AtCart, NEW q \in CartHolders(r)
  PROVE  q \in Requests /\ pc[q] \in {"commit", "saveOrder"}
<1>1. /\ q \in Requests /\ q # r
      /\ tx[q].cartWrite # "none" /\ tx[q].cart = tx[r].cart
  BY DEF CartHolders
<1>2. tx[q].cartWrite # "create"
  <2> SUFFICES ASSUME tx[q].cartWrite = "create" PROVE FALSE
    OBVIOUS
  <2>1. tx[r].cart = q
    BY <1>1 DEF IInv, RowsInv, Created
  <2>2. pc[q] = "done"
    BY <1>1, <2>1 DEF IInv, RowsInv, Created
  <2> QED
    BY <1>1, <2>2 DEF IInv, Locks
<1>3. tx[q].cartWrite \in {"total", "complete"}
  BY <1>1, <1>2 DEF IInv, RowsInv, Typed, Shape, CartWrites
<1> QED
  BY <1>1, <1>3 DEF IInv, Locks

LEMMA ItemHolderCommits ==
  ASSUME IInv, NEW r \in Requests, NEW q \in ItemHolders(r)
  PROVE  q \in Requests /\ pc[q] \in {"sum", "setTotal", "commit"}
BY DEF IInv, Locks, ItemHolders

\* Every request that is waited for still runs, and none of them waits for an
\* item; when a cart is waited for, its holder waits for nothing.
LEMMA NoWaitForEver == IInv => NoEndlessWait
<1> SUFFICES ASSUME IInv PROVE NoEndlessWait
  OBVIOUS
<1> USE DEF AtItem, AtCart
<1>1. ASSUME NEW r \in Requests, NEW q \in WaitsFor(r)
      PROVE  \/ /\ pc[r] \in AtCart /\ q \in Requests
                /\ pc[q] \in {"commit", "saveOrder"}
             \/ /\ pc[r] \in AtItem /\ q \in Requests
                /\ pc[q] \in {"sum", "setTotal", "commit"}
  <2>1. CASE pc[r] \in AtCart
    BY <1>1, <2>1, CartHolderCommits DEF WaitsFor
  <2>2. CASE pc[r] \in AtItem
    BY <1>1, <2>2, ItemHolderCommits DEF WaitsFor
  <2>3. pc[r] \in AtCart \cup AtItem
    BY <1>1 DEF WaitsFor
  <2> QED
    BY <2>1, <2>2, <2>3
<1>2. ASSUME NEW r \in InFlight
      PROVE  WaitsFor(r) \subseteq InFlight
  BY <1>1, <1>2 DEF InFlight
<1>3. ASSUME NEW waiting \in (SUBSET InFlight) \ {{}}
      PROVE  \E r \in waiting : WaitsFor(r) \cap waiting = {}
  <2>1. waiting \subseteq Requests /\ waiting # {}
    BY <1>3 DEF InFlight
  <2>2. CASE \E r \in waiting : pc[r] \notin AtCart \cup AtItem
    BY <1>1, <2>1, <2>2
  <2>3. CASE /\ \A r \in waiting : pc[r] \in AtCart \cup AtItem
             /\ \E r \in waiting : pc[r] \in AtCart
    <3>1. PICK r \in waiting : pc[r] \in AtCart
      BY <2>3
    <3>2. \A q \in WaitsFor(r) : q \notin waiting
      BY <1>1, <2>1, <2>3, <3>1
    <3> QED
      BY <3>2
  <2>4. CASE \A r \in waiting : pc[r] \in AtItem
    <3>1. PICK r \in waiting : pc[r] \in AtItem
      BY <2>1, <2>4
    <3>2. \A q \in WaitsFor(r) : q \notin waiting
      BY <1>1, <2>1, <2>4, <3>1
    <3> QED
      BY <3>2
  <2> QED
    BY <2>2, <2>3, <2>4
<1> QED
  BY <1>2, <1>3 DEF NoEndlessWait

\* No request waits for ever, however many overlap: it waits for requests that
\* still run, and never in a ring.
THEOREM NobodyWaitsForEver == Spec => []NoEndlessWait
BY NoWaitForEver, Invariant, PTL

-----------------------------------------------------------------------------
(* One message.  A cart has at most one order, which publishes at most once. *)

\* The sum over no order and over one, as the fold of the library has it.
LEMMA SumOfNone == MapThenSumSet(LAMBDA i : published[i], {}) = 0
<1> DEFINE Pick(s) == CHOOSE x \in s : TRUE
           Iterates(g) ==
             g = [s \in SUBSET {} |->
                    IF s = {} THEN 0 ELSE published[Pick(s)] + g[s \ {Pick(s)}]]
<1>1. MapThenSumSet(LAMBDA i : published[i], {}) = (CHOOSE g : Iterates(g))[{}]
  BY DEF MapThenSumSet, MapThenFoldSet
<1>2. SUBSET {} = {{}}
  OBVIOUS
<1>3. Iterates([s \in SUBSET {} |-> 0])
  BY <1>2
<1>4. Iterates(CHOOSE g : Iterates(g))
  BY <1>3
<1>5. (CHOOSE g : Iterates(g))[{}] = 0
  BY <1>2, <1>4
<1> QED
  BY <1>1, <1>5

LEMMA SumOfOne ==
  ASSUME NEW o, published[o] \in Nat
  PROVE  MapThenSumSet(LAMBDA i : published[i], {o}) = published[o]
<1> DEFINE Pick(s) == CHOOSE x \in s : TRUE
           Iterates(g) ==
             g = [s \in SUBSET {o} |->
                    IF s = {} THEN 0 ELSE published[Pick(s)] + g[s \ {Pick(s)}]]
           iter == CHOOSE g : Iterates(g)
<1>1. MapThenSumSet(LAMBDA i : published[i], {o}) = iter[{o}]
  BY DEF MapThenSumSet, MapThenFoldSet
<1>2. SUBSET {o} = {{}, {o}} /\ {} # {o} /\ {o} \ {o} = {}
  OBVIOUS
<1>3. Pick({o}) = o
  OBVIOUS
<1>4. Iterates([s \in SUBSET {o} |-> IF s = {} THEN 0 ELSE published[o]])
  BY <1>2, <1>3
<1>5. Iterates(iter)
  BY <1>4
<1> HIDE DEF iter, Pick
<1>6. iter[{}] = 0
  BY <1>2, <1>5
<1>7. iter[{o}] = published[o] + iter[{}]
  BY <1>2, <1>3, <1>5
<1> QED
  BY <1>1, <1>6, <1>7

\* A cart publishes what its only order does.
THEOREM OneMessageEach == Spec => []OneMessagePerCart
<1>1. IInv => OneMessagePerCart
  <2> SUFFICES ASSUME IInv PROVE OneMessagePerCart
    OBVIOUS
  <2>1. \A o \in Requests : published[o] \in 0 .. 1
    BY DEF IInv, Messages
  <2>2. ASSUME NEW c \in Requests
        PROVE  MapThenSumSet(LAMBDA o : published[o], OrdersOf(c)) <= 1
    <3>1. CASE OrdersOf(c) = {}
      BY <3>1, SumOfNone
    <3>2. CASE OrdersOf(c) # {}
      <4>1. PICK o : o \in OrdersOf(c)
        BY <3>2
      <4>2. OrdersOf(c) = {o}
        BY <4>1, NoIdAssumption DEF IInv, RowsInv, OneOrderPerCart, OrdersOf
      <4>3. o \in Requests /\ published[o] \in 0 .. 1 /\ published[o] \in Nat
        BY <2>1, <4>1 DEF OrdersOf
      <4>4. MapThenSumSet(LAMBDA i : published[i], {o}) = published[o]
        BY <4>3, SumOfOne
      <4>5. published[o] <= 1
        BY <4>3
      <4> QED
        BY <4>2, <4>4, <4>5
    <3> QED
      BY <3>1, <3>2
  <2>3. \A o \in Requests : published[o] > 0 => orders[o].cart # NoId
    BY DEF IInv, Messages
  <2> QED
    BY <2>2, <2>3 DEF OneMessagePerCart
<1> QED
  BY <1>1, Invariant, PTL

-----------------------------------------------------------------------------
\* The service with its channel, whose requests publish or drop their message
\* as the channel has it, is the service of Checkout.
THEOREM FlowIsCheckout == FlowSpec => Spec
<1>1. FlowInit => Init
  BY DEF FlowInit
<1>2. ASSUME [FlowNext]_flowVars
      PROVE  [Next]_vars
  <2>1. ASSUME NEW r \in Requests, Request(r)
        PROVE  Begin(r) \/ Statement(r) \/ Fail(r)
    BY <2>1 DEF Request, FlowBegin, FlowStatement, FlowFail
  <2>2. Connect \/ LoseChannel \/ Restart => UNCHANGED vars
    BY DEF Connect, LoseChannel, Restart, SetChannel
  <2>3. FlowFinished => Finished
    BY DEF FlowFinished
  <2>4. UNCHANGED flowVars => UNCHANGED vars
    BY DEF flowVars
  <2> QED
    BY <1>2, <2>1, <2>2, <2>3, <2>4 DEF FlowNext, Next
<1>3. [FlowNext]_flowVars => [Next]_vars
  BY <1>2
<1> QED
  BY <1>1, <1>3, PTL DEF FlowSpec, Spec

\* So whatever becomes of the process and its channel, a cart has one order and
\* one message, neither it nor its order changes any more, no request waits for
\* ever, and carts and orders are those of CartOrders.
THEOREM FlowIsSafe ==
  FlowSpec => /\ []IInv
              /\ []OneOrderPerCart
              /\ []OneMessagePerCart
              /\ []NoEndlessWait
              /\ FinalizedStays
              /\ ImplementsCartOrders
BY FlowIsCheckout, Invariant, NoSecondOrder, OneMessageEach, NobodyWaitsForEver,
   FinalizedForever, ImplementsAbstract, PTL
-----------------------------------------------------------------------------
(* The sum of the subtotals: a number that is at least each of them. *)

\* Induction over the numbers, for a set of them instead of a predicate.
LEMMA NumberInduction ==
  ASSUME NEW T, 0 \in T, \A n \in Nat : n \in T => n + 1 \in T
  PROVE  Nat \subseteq T
<1> DEFINE R == OpToRel(<, Nat)
           B == Nat \ T
<1>1. IsWellFoundedOn(R, Nat)
  BY NatLessThanWellFounded
<1>2. ASSUME NEW x \in Nat, NEW y \in Nat, y < x
      PROVE  <<y, x>> \in R
  BY <1>2 DEF OpToRel
<1> SUFFICES ASSUME B # {}
             PROVE  FALSE
  OBVIOUS
<1> HIDE DEF R
<1>3. PICK x \in B : \A y \in B : ~ (<<y, x>> \in R)
  BY <1>1, WFMin
<1>4. x - 1 \in Nat /\ x - 1 < x
  BY <1>3
<1>5. x - 1 \in T
  BY <1>2, <1>3, <1>4
<1> QED
  BY <1>3, <1>4, <1>5

PickOf(s) == CHOOSE i \in s : TRUE

\* The fold that SumFunction is, over the subsets of at most n requests.
SumsUpTo(f, D, g) ==
  g = [s \in D |-> IF s = {} THEN 0 ELSE f[PickOf(s)] + g[s \ {PickOf(s)}]]

Small(n) == {s \in SUBSET Requests : Cardinality(s) <= n}

LEMMA SmallerSet ==
  ASSUME NEW n \in Nat, NEW s \in Small(n + 1), s # {}
  PROVE  PickOf(s) \in s /\ s \ {PickOf(s)} \in Small(n)
<1>1. PickOf(s) \in s
  BY DEF PickOf
<1>2. s \subseteq Requests /\ IsFiniteSet(s) /\ Cardinality(s) <= n + 1
  BY RequestsAssumption, FS_Subset DEF Small
<1>3. Cardinality(s \ {PickOf(s)}) = Cardinality(s) - 1
  BY <1>1, <1>2, FS_RemoveElement
<1>4. Cardinality(s) \in Nat
  BY <1>2, FS_CardinalityType
<1>5. Cardinality(s \ {PickOf(s)}) <= n
  BY <1>2, <1>3, <1>4
<1> QED
  BY <1>1, <1>2, <1>5 DEF Small

LEMMA SmallSets ==
  /\ Small(0) = {{}}
  /\ \A n \in Nat : Small(n) \subseteq Small(n + 1) /\ {} \in Small(n)
  /\ \E n \in Nat : SUBSET Requests = Small(n)
<1>1. Cardinality({}) = 0
  BY FS_EmptySet
<1>2. ASSUME NEW s \in SUBSET Requests
      PROVE  /\ Cardinality(s) \in Nat /\ (Cardinality(s) = 0 <=> s = {})
             /\ Cardinality(s) <= Cardinality(Requests)
  BY RequestsAssumption, FS_Subset, FS_EmptySet, FS_CardinalityType
<1>3. Small(0) = {{}}
  BY <1>1, <1>2 DEF Small
<1>4. ASSUME NEW n \in Nat
      PROVE  Small(n) \subseteq Small(n + 1) /\ {} \in Small(n)
  BY <1>1, <1>2 DEF Small
<1>5. Cardinality(Requests) \in Nat
  BY RequestsAssumption, FS_CardinalityType
<1>6. SUBSET Requests = Small(Cardinality(Requests))
  BY <1>2 DEF Small
<1> QED
  BY <1>3, <1>4, <1>5, <1>6

LEMMA SumsExist ==
  ASSUME NEW f
  PROVE  \E g : SumsUpTo(f, SUBSET Requests, g)
<1> DEFINE T == {n \in Nat : \E g : SumsUpTo(f, Small(n), g)}
<1>1. 0 \in T
  <2>1. SumsUpTo(f, Small(0), [s \in Small(0) |-> 0])
    BY SmallSets DEF SumsUpTo
  <2> QED
    BY <2>1
<1>2. ASSUME NEW n \in Nat, n \in T
      PROVE  n + 1 \in T
  <2>1. PICK g : SumsUpTo(f, Small(n), g)
    BY <1>2
  <2> DEFINE h == [s \in Small(n + 1) |->
                     IF s = {} THEN 0 ELSE f[PickOf(s)] + g[s \ {PickOf(s)}]]
  <2>2. \A s \in Small(n) : h[s] = g[s]
    <3>1. Small(n) \subseteq Small(n + 1)
      BY SmallSets
    <3> QED
      BY <2>1, <3>1 DEF SumsUpTo
  <2>3. ASSUME NEW s \in Small(n + 1)
        PROVE  h[s] = IF s = {} THEN 0 ELSE f[PickOf(s)] + h[s \ {PickOf(s)}]
    <3>1. CASE s = {}
      BY <3>1
    <3>2. CASE s # {}
      <4>1. s \ {PickOf(s)} \in Small(n)
        BY <3>2, SmallerSet
      <4>2. h[s \ {PickOf(s)}] = g[s \ {PickOf(s)}]
        BY <2>2, <4>1
      <4> QED
        BY <3>2, <4>2
    <3> QED
      BY <3>1, <3>2
  <2>4. DOMAIN h = Small(n + 1) /\ h = [s \in Small(n + 1) |-> h[s]]
    OBVIOUS
  <2> HIDE DEF h
  <2>5. SumsUpTo(f, Small(n + 1), h)
    BY <2>3, <2>4 DEF SumsUpTo
  <2> QED
    BY <2>5
<1> HIDE DEF T
<1>3. Nat \subseteq T
  BY <1>1, <1>2, NumberInduction
<1> USE DEF T
<1>4. PICK n \in Nat : SUBSET Requests = Small(n)
  BY SmallSets
<1>5. n \in T
  BY <1>3
<1> QED
  BY <1>4, <1>5

\* A sum of amounts is an amount, and none of them exceeds it.
LEMMA SumBounds ==
  ASSUME NEW f \in [Requests -> Nat]
  PROVE  /\ SumFunction(f) \in Nat
         /\ \A i \in Requests : f[i] <= SumFunction(f)
<1> DEFINE sums == CHOOSE g : SumsUpTo(f, SUBSET Requests, g)
           T == {n \in Nat : \A s \in Small(n) :
                   sums[s] \in Nat /\ \A i \in s : f[i] <= sums[s]}
<1>1. SumFunction(f) = sums[Requests]
  <2>1. DOMAIN f = Requests
    OBVIOUS
  <2> QED
    BY <2>1 DEF SumFunction, SumFunctionOnSet, FoldFunctionOnSet, MapThenFoldSet,
                SumsUpTo, PickOf
<1>2. SumsUpTo(f, SUBSET Requests, sums)
  BY SumsExist
<1> HIDE DEF sums
<1>3. sums[{}] = 0
  BY <1>2 DEF SumsUpTo
<1>4. 0 \in T
  <2>1. ASSUME NEW s \in Small(0)
        PROVE  sums[s] \in Nat /\ \A i \in s : f[i] <= sums[s]
    <3>1. s = {}
      BY SmallSets
    <3> QED
      BY <1>3, <3>1
  <2> QED
    BY <2>1
<1>5. ASSUME NEW n \in Nat, n \in T
      PROVE  n + 1 \in T
  <2>1. ASSUME NEW s \in Small(n + 1)
        PROVE  sums[s] \in Nat /\ \A i \in s : f[i] <= sums[s]
    <3>1. CASE s = {}
      BY <1>3, <3>1
    <3>2. CASE s # {}
      <4> DEFINE p == PickOf(s)
                 q == s \ {p}
      <4>1. p \in s /\ q \in Small(n) /\ s \in SUBSET Requests
        BY <3>2, SmallerSet DEF Small
      <4>2. sums[s] = f[p] + sums[q]
        BY <1>2, <3>2, <4>1 DEF SumsUpTo
      <4>3. sums[q] \in Nat /\ \A i \in q : f[i] <= sums[q]
        BY <1>5, <4>1
      <4>4. f[p] \in Nat /\ \A i \in s : f[i] \in Nat
        BY <4>1
      <4>5. \A i \in s : i = p \/ i \in q
        OBVIOUS
      <4> HIDE DEF p, q
      <4> QED
        BY <4>2, <4>3, <4>4, <4>5
    <3> QED
      BY <3>1, <3>2
  <2> QED
    BY <2>1
<1> HIDE DEF T
<1>6. Nat \subseteq T
  BY <1>4, <1>5, NumberInduction
<1> USE DEF T
<1>7. PICK n \in Nat : SUBSET Requests = Small(n)
  BY SmallSets
<1>8. n \in T /\ Requests \in Small(n)
  BY <1>6, <1>7
<1> QED
  BY <1>1, <1>8

-----------------------------------------------------------------------------
(* Requests that do not overlap *)

\* A finite set without two elements.
LEMMA AtMostOne ==
  ASSUME NEW S, IsFiniteSet(S)
  PROVE  ~(Cardinality(S) > 1) <=> \A q, r \in S : q = r
<1>1. Cardinality(S) \in Nat
  BY FS_CardinalityType
<1>2. ASSUME NEW q \in S, NEW r \in S, q # r, ~(Cardinality(S) > 1)
      PROVE  FALSE
  <2>1. IsFiniteSet({q}) /\ Cardinality({q}) = 1
    BY FS_Singleton
  <2>2. Cardinality({q} \cup {r}) = 2
    BY <1>2, <2>1, FS_AddElement
  <2>3. Cardinality({q} \cup {r}) <= Cardinality(S)
    <3>1. {q} \cup {r} \in SUBSET S
      OBVIOUS
    <3> QED
      BY <3>1, FS_Subset
  <2> QED
    BY <1>1, <1>2, <2>2, <2>3
<1>3. ASSUME \A q, r \in S : q = r, S # {}
      PROVE  Cardinality(S) = 1
  <2>1. PICK q \in S : S = {q}
    BY <1>3
  <2> QED
    BY <2>1, FS_Singleton
<1>4. S = {} => Cardinality(S) = 0
  BY FS_EmptySet
<1> QED
  BY <1>1, <1>2, <1>3, <1>4

LEMMA SerialImpliesRules == SerialInv => SerialCartRules /\ PublishedUnlessFault
<1> SUFFICES ASSUME SerialInv, ~overlapped
             PROVE  /\ TotalIsSum /\ OneActiveCart /\ ProductOnce /\ AdditionsSum
                    /\ OrderMatchesCart /\ AmountMatchesItems
                    /\ PublishedUnlessFault
  BY DEF SerialCartRules, PublishedUnlessFault
<1>1. RowsAgree /\ AdditionsSum /\ PublishedUnlessFault
  BY DEF SerialInv, AddedAgree
<1>2. OneActiveCart
  <2>1. IsFiniteSet(ActiveCarts)
    <3>1. ActiveCarts \in SUBSET Requests
      BY DEF ActiveCarts
    <3> QED
      BY <3>1, RequestsAssumption, FS_Subset
  <2>2. ~(Cardinality(ActiveCarts) > 1)
    BY <1>1, <2>1, AtMostOne DEF RowsAgree
  <2>3. Cardinality(ActiveCarts) \in Nat
    BY <2>1, FS_CardinalityType
  <2> QED
    BY <2>2, <2>3 DEF OneActiveCart
<1>3. TotalIsSum
  BY <1>1 DEF RowsAgree, TotalIsSum
<1> QED
  BY <1>1, <1>2, <1>3 DEF RowsAgree

LEMMA InitSerial == FlowInit => SerialInv
<1> SUFFICES ASSUME FlowInit PROVE SerialInv
  OBVIOUS
<1>1. \A q, r \in InFlight : q = r
  BY DEF FlowInit, Init, InFlight
<1>2. RowsAgree
  BY NoIdAssumption
     DEF FlowInit, Init, RowsAgree, NoItem, NoOrder, Exists, ActiveCarts, Ids,
         ItemRows, ProductOnce, OrderMatchesCart, AmountMatchesItems
<1>3. \A r \in Requests : Progress(r)
  BY DEF FlowInit, Init, Progress, AddSteps, RemoveSteps, CartKnown
<1>4. PublishedUnlessFault
  BY DEF FlowInit, Init, PublishedUnlessFault, NoOrder
<1>5. AddedAgree
  BY DEF FlowInit, Init, AddedAgree, AdditionsSum, NoItem
<1> QED
  BY <1>1, <1>2, <1>3, <1>4, <1>5 DEF SerialInv

\* A row of tx has its fields, so that a step changes those it names.
LEMMA TxFields ==
  ASSUME Typed, NEW r \in Requests
  PROVE  /\ DOMAIN tx = Requests
         /\ tx[r] = [product |-> tx[r].product, cart |-> tx[r].cart,
                     item |-> tx[r].item, quantity |-> tx[r].quantity,
                     total |-> tx[r].total, sum |-> tx[r].sum,
                     cartWrite |-> tx[r].cartWrite,
                     itemWrite |-> tx[r].itemWrite]
<1>1. Shape(tx[r]) /\ DOMAIN tx = Requests
  BY DEF Typed
<1> QED
  BY <1>1 DEF Shape

\* A step that leaves the rows leaves what is said of them and of the others.
LEMMA RowsStay ==
  ASSUME Typed, RowsAgree, UNCHANGED <<status, total, items, orders>>,
         NEW r \in Requests, pc[r] # "done",
         \A q \in Requests \ {r} : pc'[q] = pc[q]
  PROVE  RowsAgree'
BY DEF RowsAgree, Exists, CommittedSum, ActiveCarts, ProductOnce,
       OrderMatchesCart, AmountMatchesItems, Subtotal

LEMMA OthersStay ==
  ASSUME NEW q \in Requests, Progress(q), UNCHANGED rows,
         pc'[q] = pc[q], tx'[q] = tx[q]
  PROVE  Progress(q)'
<1>1. SumFor(q, tx[q].cart)' = SumFor(q, tx[q].cart)
  <2>1. items' = items
    BY DEF rows
  <2> QED
    BY <2>1 DEF SumFor, Seen, Subtotal
<1> QED
  BY <1>1 DEF Progress, rows, OnActiveCart, Written, SameProduct, Exists, ActiveCarts,
         CommittedSum, IsEmpty, Subtotal

LEMMA Idle ==
  ASSUME NEW q \in Requests, pc'[q] \in {"new", "done"}
  PROVE  Progress(q)'
BY DEF Progress, AddSteps, RemoveSteps, CartKnown

\* The progress of the request that takes a step, action by action.
LEMMA EndProgress ==
  ASSUME Typed, NEW r \in Requests, End(r)
  PROVE  Progress(r)'
<1>1. pc'[r] = "done"
  BY DEF End, Goto, Typed
<1> QED
  BY <1>1 DEF Progress, AddSteps, RemoveSteps, CartKnown

LEMMA BeginProgress ==
  ASSUME Typed, NEW r \in Requests, Begin(r)
  PROVE  Progress(r)'
<1> USE DEF Progress, AddSteps, RemoveSteps, CartKnown
<1>1. ASSUME NEW p \in Products, StartAdd(r, p)
      PROVE  Progress(r)'
  <2>1. pc'[r] = "addCart" /\ tx'[r].product = p
    BY <1>1, TxFields DEF StartAdd, Goto, Typed
  <2> QED
    BY <2>1
<1>2. CASE RefuseAdd(r)
  BY <1>2, EndProgress DEF RefuseAdd
<1>3. ASSUME NEW i \in Requests, StartRemove(r, i)
      PROVE  Progress(r)'
  <2>1. pc'[r] = "removeCart" /\ tx'[r].item = i
    BY <1>3, TxFields DEF StartRemove, Goto, Typed
  <2> QED
    BY <2>1
<1>4. CASE StartCheckout(r)
  <2>1. pc'[r] = "readCart"
    BY <1>4 DEF StartCheckout, Goto, Typed
  <2> QED
    BY <2>1
<1> QED
  BY <1>1, <1>2, <1>3, <1>4 DEF Begin

LEMMA FindCartProgress ==
  ASSUME Typed, HasCart, NEW r \in Requests, Progress(r),
         AddFindCart(r) \/ RemoveFindCart(r)
  PROVE  Progress(r)'
<1>1. ASSUME NEW c \in ActiveCarts, tx' = [tx EXCEPT ![r].cart = c], UNCHANGED rows
      PROVE  /\ status'[tx'[r].cart] = "active" /\ tx'[r].cartWrite = tx[r].cartWrite
             /\ tx'[r].product = tx[r].product /\ tx'[r].item = tx[r].item
  <2>1. /\ tx'[r].cart = c /\ tx'[r].cartWrite = tx[r].cartWrite
        /\ tx'[r].product = tx[r].product /\ tx'[r].item = tx[r].item
    <3>1. tx'[r] = [tx[r] EXCEPT !.cart = c]
      BY <1>1, TxFields
    <3> QED
      BY <3>1, TxFields
  <2> QED
    BY <1>1, <2>1 DEF ActiveCarts, rows
<1>4. ASSUME tx' = [tx EXCEPT ![r].cart = r, ![r].cartWrite = "create"]
      PROVE  tx'[r].cartWrite = "create" /\ tx'[r].product = tx[r].product
  <2>1. tx'[r] = [tx[r] EXCEPT !.cart = r, !.cartWrite = "create"]
    BY <1>4, TxFields
  <2> QED
    BY <2>1, TxFields
<1> USE DEF Progress, AddSteps, RemoveSteps, CartKnown
<1>2. CASE AddFindCart(r)
  <2>1. /\ pc[r] = "addCart" /\ pc'[r] = "addItem" /\ UNCHANGED rows
        /\ tx[r].cartWrite = "none" /\ tx[r].product \in Products
    BY <1>2 DEF AddFindCart, Goto, Typed, HasCart, NoCartSteps
  <2>2. ASSUME NEW c \in ActiveCarts, tx' = [tx EXCEPT ![r].cart = c]
        PROVE  Progress(r)'
    BY <1>1, <2>1, <2>2 DEF OnActiveCart
  <2>3. ASSUME ActiveCarts = {},
               tx' = [tx EXCEPT ![r].cart = r, ![r].cartWrite = "create"]
        PROVE  Progress(r)'
    <3>1. tx'[r].cartWrite = "create" /\ tx'[r].product = tx[r].product
      BY <1>4, <2>3
    <3>2. ActiveCarts' = {}
      BY <2>1, <2>3 DEF ActiveCarts, rows
    <3> QED
      BY <2>1, <3>1, <3>2 DEF OnActiveCart
  <2> QED
    BY <1>2, <2>2, <2>3 DEF AddFindCart
<1>3. CASE RemoveFindCart(r)
  <2>1. /\ pc[r] = "removeCart" /\ UNCHANGED rows
        /\ tx[r].cartWrite = "none" /\ tx[r].item \in Requests
    BY <1>3 DEF RemoveFindCart, HasCart, NoCartSteps
  <2>2. ASSUME NEW c \in ActiveCarts, tx' = [tx EXCEPT ![r].cart = c],
               Goto(r, "removeItem")
        PROVE  Progress(r)'
    <3>1. pc'[r] = "removeItem"
      BY <2>2 DEF Goto, Typed
    <3> QED
      BY <1>1, <2>1, <2>2, <3>1 DEF OnActiveCart
  <2> QED
    BY <1>3, <2>2, EndProgress DEF RemoveFindCart
<1> QED
  BY <1>2, <1>3

LEMMA ItemProgress ==
  ASSUME Typed, RowsAgree, NEW r \in Requests, Progress(r),
         \/ AddFindItem(r) \/ Reload(r) \/ UpdateItem(r) \/ ReinsertItem(r)
         \/ RemoveFindItem(r) \/ DeleteItem(r)
  PROVE  Progress(r)'
<1> USE DEF Progress, AddSteps, RemoveSteps, CartKnown
<1>1. UNCHANGED <<status, items>>
  BY DEF AddFindItem, Reload, UpdateItem, ReinsertItem, RemoveFindItem, DeleteItem,
         rows
<1>2. /\ tx'[r].cart = tx[r].cart /\ tx'[r].cartWrite = tx[r].cartWrite
           => (OnActiveCart(r) => OnActiveCart(r)')
      /\ tx'[r].cart = tx[r].cart /\ tx'[r].product = tx[r].product
           => SameProduct(r)' = SameProduct(r)
  BY <1>1 DEF OnActiveCart, ActiveCarts, SameProduct, Exists
<1>3. CASE AddFindItem(r)
  <2>1. /\ pc[r] = "addItem" /\ tx[r].product \in Products /\ OnActiveCart(r)
    BY <1>3 DEF AddFindItem
  <2>2. ASSUME NEW i \in SameProduct(r), Goto(r, "reload"),
               tx' = [tx EXCEPT ![r].item = i,
                                ![r].quantity = items[i].quantity + 1]
        PROVE  Progress(r)'
    <3>1. /\ pc'[r] = "reload" /\ tx'[r].item = i
          /\ tx'[r].quantity = items[i].quantity + 1
          /\ tx'[r].cart = tx[r].cart /\ tx'[r].cartWrite = tx[r].cartWrite
          /\ tx'[r].product = tx[r].product
      BY <2>2, TxFields DEF Goto, Typed
    <3>2. SameProduct(r) = {i}
      BY DEF RowsAgree, ProductOnce, SameProduct
    <3> QED
      BY <1>1, <1>2, <2>1, <3>1, <3>2
  <2>3. ASSUME SameProduct(r) = {}, Goto(r, "sum"),
               tx' = [tx EXCEPT ![r].item = r, ![r].quantity = 1,
                                ![r].itemWrite = "save"]
        PROVE  Progress(r)'
    <3>1. /\ pc'[r] = "sum" /\ tx'[r].item = r /\ tx'[r].quantity = 1
          /\ tx'[r].itemWrite = "save"
          /\ tx'[r].cart = tx[r].cart /\ tx'[r].cartWrite = tx[r].cartWrite
          /\ tx'[r].product = tx[r].product
      BY <2>3, TxFields DEF Goto, Typed
    <3>2. ~Exists(r) /\ items[r].quantity \in Nat
      BY <2>1 DEF RowsAgree, ItemRows
    <3>3. items'[r].quantity + 1 = 1
      BY <1>1, <3>2 DEF Exists
    <3>4. Written(r)'
      BY <1>2, <2>1, <2>3, <3>1, <3>3 DEF Written
    <3> QED
      BY <1>1, <1>2, <2>1, <3>1, <3>4
  <2> QED
    BY <1>3, <2>2, <2>3 DEF AddFindItem
<1>4. CASE Reload(r)
  <2>1. /\ pc[r] = "reload" /\ tx' = tx /\ tx[r].product \in Products
        /\ OnActiveCart(r) /\ SameProduct(r) = {tx[r].item}
        /\ tx[r].quantity = items[tx[r].item].quantity + 1
    BY <1>4 DEF Reload
  <2>2. /\ tx[r].item \in Requests /\ Exists(tx[r].item)
        /\ items[tx[r].item].quantity \in Nat
    BY <2>1 DEF SameProduct, RowsAgree, ItemRows
  <2>3. tx[r].quantity # items[tx[r].item].quantity
    BY <2>1, <2>2
  <2>4. pc'[r] = "update"
    BY <1>4, <2>2, <2>3 DEF Reload, Goto, Typed
  <2> QED
    BY <1>1, <1>2, <2>1, <2>4
<1>5. CASE UpdateItem(r)
  <2>1. /\ pc[r] = "update" /\ tx[r].product \in Products
        /\ OnActiveCart(r) /\ SameProduct(r) = {tx[r].item}
        /\ tx[r].quantity = items[tx[r].item].quantity + 1
    BY <1>5 DEF UpdateItem
  <2>2. /\ tx[r].item \in Requests /\ Exists(tx[r].item)
        /\ items[tx[r].item].quantity \in Nat
    BY <2>1 DEF SameProduct, RowsAgree, ItemRows
  <2>3. /\ pc'[r] = "sum" /\ tx'[r].item = tx[r].item
        /\ tx'[r].itemWrite = "save"
        /\ tx'[r].quantity = tx[r].quantity
        /\ tx'[r].cart = tx[r].cart /\ tx'[r].cartWrite = tx[r].cartWrite
        /\ tx'[r].product = tx[r].product
    BY <1>5, <2>2, TxFields DEF UpdateItem, Goto, Typed
  <2>4. Written(r)'
    BY <1>1, <1>2, <2>1, <2>2, <2>3 DEF Written
  <2> QED
    BY <1>1, <1>2, <2>1, <2>3, <2>4
<1>6. CASE ReinsertItem(r)
  BY <1>6 DEF ReinsertItem
<1>7. CASE RemoveFindItem(r)
  <2>1. CASE End(r)
    BY <2>1, EndProgress
  <2>2. CASE /\ Exists(tx[r].item) /\ items[tx[r].item].cart = tx[r].cart
             /\ Goto(r, "delete") /\ tx' = tx
    <3>1. pc[r] = "removeItem" /\ pc'[r] = "delete"
      BY <1>7, <2>2 DEF RemoveFindItem, Goto, Typed
    <3> QED
      BY <1>1, <1>2, <2>2, <3>1 DEF Exists
  <2> QED
    BY <1>7, <2>1, <2>2 DEF RemoveFindItem
<1>8. CASE DeleteItem(r)
  <2>1. /\ pc[r] = "delete" /\ OnActiveCart(r) /\ tx[r].item \in Requests
        /\ Exists(tx[r].item) /\ items[tx[r].item].cart = tx[r].cart
    BY <1>8 DEF DeleteItem
  <2>2. /\ pc'[r] = "sum" /\ tx'[r].item = tx[r].item
        /\ tx'[r].itemWrite = "delete"
        /\ tx'[r].cart = tx[r].cart /\ tx'[r].cartWrite = tx[r].cartWrite
    BY <1>8, <2>1, TxFields DEF DeleteItem, Goto, Typed
  <2>3. Written(r)'
    BY <1>1, <2>1, <2>2 DEF Written, Exists
  <2> QED
    BY <1>1, <1>2, <2>1, <2>2, <2>3
<1> QED
  BY <1>3, <1>4, <1>5, <1>6, <1>7, <1>8

LEMMA TotalProgress ==
  ASSUME Typed, NEW r \in Requests, Progress(r), SumItems(r) \/ SetTotal(r)
  PROVE  Progress(r)'
<1>1. /\ UNCHANGED rows /\ pc[r] \in {"sum", "setTotal"}
      /\ OnActiveCart(r) /\ Written(r)
  BY DEF SumItems, SetTotal, Progress, CartKnown
<1>2. /\ tx'[r].item = tx[r].item /\ tx'[r].itemWrite = tx[r].itemWrite
      /\ tx'[r].cart = tx[r].cart /\ tx'[r].product = tx[r].product
      /\ tx'[r].quantity = tx[r].quantity
      /\ tx'[r].cartWrite = "create" <=> tx[r].cartWrite = "create"
      /\ SumItems(r) => tx'[r].total = SumFor(r, tx[r].cart)
      /\ SetTotal(r) => tx'[r].total = tx[r].total
  <2>1. CASE SumItems(r)
    <3>1. tx'[r] = [tx[r] EXCEPT !.total = SumFor(r, tx[r].cart)]
      BY <2>1, TxFields DEF SumItems
    <3>2. ~SetTotal(r)
      BY <2>1 DEF SumItems, SetTotal
    <3> QED
      BY <3>1, <3>2, TxFields
  <2>2. CASE SetTotal(r)
    <3>1. tx'[r] = [tx[r] EXCEPT !.cartWrite =
                      IF tx[r].cartWrite = "create" THEN "create" ELSE "total"]
      BY <2>2, TxFields DEF SetTotal
    <3>2. ~SumItems(r)
      BY <2>2 DEF SumItems, SetTotal
    <3> QED
      BY <3>1, <3>2, TxFields
  <2> QED
    BY <2>1, <2>2
<1>3. pc'[r] \in {"setTotal", "commit"}
  BY DEF SumItems, SetTotal, Goto, Typed
<1>4. tx'[r].total = SumFor(r, tx[r].cart)
  BY <1>2 DEF SetTotal, Progress
<1>5. SumFor(r, tx[r].cart)' = SumFor(r, tx[r].cart)
  <2>1. items' = items
    BY <1>1 DEF rows
  <2>2. \A i \in Requests :
          Subtotal(Seen(r, i), tx[r].cart)' = Subtotal(Seen(r, i), tx[r].cart)
    BY <1>2, <2>1 DEF Seen, Subtotal
  <2> QED
    BY <2>2 DEF SumFor
<1>6. Written(r)' /\ OnActiveCart(r)'
  BY <1>1, <1>2 DEF Written, OnActiveCart, SameProduct, Exists, ActiveCarts, rows
<1> QED
  BY <1>2, <1>3, <1>4, <1>5, <1>6 DEF Progress, AddSteps, RemoveSteps, CartKnown

\* A serial checkout reads a cart whose total is the sum of its items, and finds
\* it as it read it.
LEMMA CheckoutProgress ==
  ASSUME Typed, RowsAgree, NEW r \in Requests, Progress(r),
         ReadCart(r) \/ CompleteCart(r)
  PROVE  Progress(r)'
<1>1. UNCHANGED rows
  BY DEF ReadCart, CompleteCart
<1>2. ASSUME NEW c \in Requests
      PROVE  IsEmpty(c)' = IsEmpty(c) /\ CommittedSum(c)' = CommittedSum(c)
  BY <1>1 DEF rows, IsEmpty, Exists, CommittedSum, Subtotal
<1>3. CASE End(r)
  BY <1>3, EndProgress
<1>4. ASSUME NEW c \in ActiveCarts, ~IsEmpty(c), Goto(r, "complete"),
             tx' = [tx EXCEPT ![r].cart = c, ![r].total = total[c],
                              ![r].sum = CommittedSum(c)]
      PROVE  Progress(r)'
  <2>1. pc'[r] = "complete" /\ c \in Requests /\ status[c] = "active"
    BY <1>4 DEF Goto, Typed, ActiveCarts
  <2>2. tx'[r] = [tx[r] EXCEPT !.cart = c, !.total = total[c],
                               !.sum = CommittedSum(c)]
    BY <1>4, TxFields
  <2>3. tx'[r].cart = c /\ tx'[r].total = total[c] /\ tx'[r].sum = CommittedSum(c)
    BY <2>2, TxFields
  <2>4. status' = status /\ total' = total
    BY <1>1 DEF rows
  <2> QED
    BY <1>2, <1>4, <2>1, <2>3, <2>4 DEF Progress, AddSteps, RemoveSteps, CartKnown
<1>5. CASE CompleteCart(r) /\ ~End(r)
  <2>1. /\ pc[r] = "complete" /\ pc'[r] = "saveOrder"
        /\ tx' = [tx EXCEPT ![r].cartWrite = "complete"]
        /\ status[tx[r].cart] = "active"
    BY <1>5 DEF CompleteCart, Goto, Typed
  <2>2. tx'[r] = [tx[r] EXCEPT !.cartWrite = "complete"]
    BY <2>1, TxFields
  <2>3. tx'[r].cart = tx[r].cart /\ tx'[r].total = tx[r].total
        /\ tx'[r].sum = tx[r].sum
    BY <2>2, TxFields
  <2>4. /\ ~IsEmpty(tx[r].cart) /\ tx[r].total = total[tx[r].cart]
        /\ tx[r].sum = CommittedSum(tx[r].cart)
    BY <2>1 DEF Progress
  <2>5. IsEmpty(tx[r].cart)' = IsEmpty(tx[r].cart)
        /\ CommittedSum(tx[r].cart)' = CommittedSum(tx[r].cart)
    BY <1>1, <2>3 DEF rows, IsEmpty, Exists, CommittedSum, Subtotal
  <2>6. status' = status /\ total' = total
    BY <1>1 DEF rows
  <2> QED
    BY <2>1, <2>3, <2>4, <2>5, <2>6 DEF Progress, AddSteps, RemoveSteps, CartKnown
<1> QED
  BY <1>3, <1>4, <1>5 DEF ReadCart

\* The subtotals of rows with their types are amounts, and so are their sums.
LEMMA SumOfRows ==
  ASSUME NEW T \in [Requests -> ItemRows], NEW c,
         \A i \in Requests : T[i].quantity > 0 => T[i].product \in Products
  PROVE  LET f == [i \in Requests |-> Subtotal(T[i], c)]
         IN  /\ f \in [Requests -> Nat]
             /\ SumFunction(f) \in Nat
             /\ \A i \in Requests :
                  T[i].cart = c /\ T[i].quantity > 0 => SumFunction(f) > 0
<1> DEFINE f == [i \in Requests |-> Subtotal(T[i], c)]
<1>1. ASSUME NEW i \in Requests
      PROVE  /\ Subtotal(T[i], c) \in Nat
             /\ T[i].cart = c /\ T[i].quantity > 0 => Subtotal(T[i], c) > 0
  <2>1. T[i].quantity \in Nat
    BY DEF ItemRows
  <2>2. CASE T[i].cart = c /\ T[i].quantity > 0
    <3>1. Price[T[i].product] \in Nat /\ Price[T[i].product] > 0
      BY <2>2, PriceAssumption
    <3>2. \A m, n \in Nat : m > 0 /\ n > 0 => m * n \in Nat /\ m * n > 0
      OBVIOUS
    <3>3. Subtotal(T[i], c) = Price[T[i].product] * T[i].quantity
      BY <2>2 DEF Subtotal
    <3> QED
      BY <2>1, <2>2, <3>1, <3>2, <3>3
  <2>3. CASE ~(T[i].cart = c /\ T[i].quantity > 0)
    BY <2>3 DEF Subtotal
  <2> QED
    BY <2>2, <2>3
<1>2. f \in [Requests -> Nat]
  BY <1>1
<1>3. \A i \in Requests : f[i] = Subtotal(T[i], c)
  OBVIOUS
<1> HIDE DEF f
<1>4. SumFunction(f) \in Nat /\ \A i \in Requests : f[i] <= SumFunction(f)
  BY <1>2, SumBounds
<1>5. ASSUME NEW i \in Requests, T[i].cart = c, T[i].quantity > 0
      PROVE  SumFunction(f) > 0
  <2>1. f[i] > 0 /\ f[i] \in Nat
    BY <1>1, <1>2, <1>3, <1>5
  <2>2. f[i] <= SumFunction(f)
    BY <1>4
  <2> QED
    BY <1>4, <2>1, <2>2
<1> QED
  BY <1>2, <1>4, <1>5 DEF f

\* What a commit does to the items: it writes one row of its cart.
LEMMA CommitItems ==
  ASSUME RowsInv, RowsAgree, NEW r \in Requests, Progress(r), Commit(r)
  PROVE  /\ tx[r].cart \in Requests /\ tx[r].item \in Requests
         /\ items' \in [Requests -> ItemRows]
         /\ \A i \in Requests \ {tx[r].item} : items'[i] = items[i]
         /\ items[tx[r].item].quantity \in Nat
         /\ items'[tx[r].item].quantity =
              IF tx[r].itemWrite = "delete" THEN 0
              ELSE items[tx[r].item].quantity + 1
         /\ tx[r].itemWrite = "delete" \/ tx[r].product \in Products
         /\ Exists(tx[r].item) => items[tx[r].item].cart = tx[r].cart
         /\ LET row == items'[tx[r].item]
            IN  \/ row.quantity = 0
                \/ /\ row.cart = tx[r].cart /\ row.product \in Products
                   /\ Exists(tx[r].item) \/ tx[r].item = r
                   /\ \A i \in Requests \ {tx[r].item} :
                        ~(/\ Exists(i) /\ items[i].cart = tx[r].cart
                          /\ items[i].product = row.product)
<1>1. pc[r] = "commit" /\ Written(r) /\ tx[r].cart \in Requests
  BY DEF Commit, Progress, RowsInv, HasCart, CartSteps
<1>2. items \in [Requests -> ItemRows]
  BY DEF RowsAgree
<1>3. items' = [i \in Requests |-> Seen(r, i)]
  BY DEF Commit
<1>4. tx[r].item \in Requests /\ tx[r].itemWrite \in {"save", "delete"}
  BY <1>1 DEF Written
<1>5. /\ \A i \in Requests \ {tx[r].item} : items'[i] = items[i]
      /\ items[tx[r].item].quantity \in Nat
  BY <1>2, <1>3, <1>4 DEF Seen, ItemRows
<1>6. CASE tx[r].itemWrite = "delete"
  <2>1. items'[tx[r].item] = NoItem
    BY <1>3, <1>4, <1>6 DEF Seen
  <2>2. NoItem \in ItemRows /\ NoItem.quantity = 0
    BY DEF NoItem, ItemRows, Ids
  <2>3. \A i \in Requests : items'[i] \in ItemRows
    BY <1>2, <1>5, <2>1, <2>2
  <2>4. items' \in [Requests -> ItemRows]
    BY <1>3, <2>3
  <2>5. items[tx[r].item].cart = tx[r].cart
    BY <1>1, <1>6 DEF Written
  <2> QED
    BY <1>1, <1>4, <1>5, <1>6, <2>1, <2>2, <2>4, <2>5
<1>7. CASE tx[r].itemWrite = "save"
  <2> DEFINE row == [cart |-> tx[r].cart, product |-> tx[r].product,
                     quantity |-> tx[r].quantity]
  <2>1. items'[tx[r].item] = row
    BY <1>3, <1>4, <1>7 DEF Seen
  <2>2. /\ tx[r].product \in Products /\ tx[r].quantity \in Nat
        /\ tx[r].quantity = items[tx[r].item].quantity + 1
        /\ \/ SameProduct(r) = {tx[r].item}
           \/ SameProduct(r) = {} /\ tx[r].item = r
    BY <1>1, <1>5, <1>7 DEF Written
  <2>3. row \in ItemRows
    BY <1>1, <2>2 DEF ItemRows, Ids
  <2>4. \A i \in Requests : items'[i] \in ItemRows
    BY <1>2, <1>5, <2>1, <2>3
  <2>5. items' \in [Requests -> ItemRows]
    BY <1>3, <2>4
  <2>6. SameProduct(r) = {tx[r].item} \/ ~Exists(tx[r].item)
    BY <1>1, <2>2 DEF RowsAgree
  <2>7. Exists(tx[r].item) => items[tx[r].item].cart = tx[r].cart
    BY <2>6 DEF SameProduct
  <2>8. Exists(tx[r].item) \/ tx[r].item = r
    BY <2>2 DEF SameProduct
  <2>9. \A i \in Requests \ {tx[r].item} : i \notin SameProduct(r)
    BY <2>2
  <2>10. \A i \in Requests \ {tx[r].item} :
           ~(/\ Exists(i) /\ items[i].cart = tx[r].cart
             /\ items[i].product = tx[r].product)
    BY <2>9 DEF SameProduct
  <2> QED
    BY <1>1, <1>4, <1>5, <1>7, <2>1, <2>2, <2>5, <2>7, <2>8, <2>10
<1> QED
  BY <1>4, <1>6, <1>7

\* A commit leaves every cart with the sum of its items: its own gets the sum it
\* saw, which its item write makes that of the rows, and the others keep theirs.
LEMMA CommitAgree ==
  ASSUME RowsInv, RowsAgree, NEW r \in Requests, Progress(r), Commit(r)
  PROVE  RowsAgree'
<1> DEFINE c == tx[r].cart
           w == tx[r].item
           after(d) == [i \in Requests |-> Subtotal(items'[i], d)]
<1>1. /\ pc[r] = "commit" /\ OnActiveCart(r)
      /\ tx[r].total = SumFor(r, c)
  BY DEF Commit, Progress, CartKnown
<1>2. /\ DOMAIN pc = Requests /\ DOMAIN status = Requests
      /\ total \in [Requests -> Nat] /\ items \in [Requests -> ItemRows]
      /\ \A i \in Requests : Exists(i) => pc[i] = "done" /\ items[i].product \in Products
      /\ \A d \in Requests : status[d] # "none" => total[d] = CommittedSum(d)
      /\ \A d, e \in ActiveCarts : d = e
  BY DEF RowsInv, Typed, RowsAgree
<1>3. /\ pc' = [pc EXCEPT ![r] = "done"]
      /\ status' = [status EXCEPT ![c] =
                      IF tx[r].cartWrite = "create" THEN "active" ELSE @]
      /\ total' = [total EXCEPT ![c] = tx[r].total]
      /\ orders' = orders
  BY DEF Commit, End, Goto
<1>4. /\ c \in Requests /\ w \in Requests
      /\ items' \in [Requests -> ItemRows]
      /\ \A i \in Requests \ {w} : items'[i] = items[i]
      /\ Exists(w) => items[w].cart = c
      /\ \/ items'[w].quantity = 0
         \/ /\ items'[w].cart = c /\ items'[w].product \in Products
            /\ Exists(w) \/ w = r
            /\ \A i \in Requests \ {w} :
                 ~(/\ Exists(i) /\ items[i].cart = c
                   /\ items[i].product = items'[w].product)
  BY CommitItems
<1> HIDE DEF c, w, after
<1>5. \A i \in Requests :
        items'[i].quantity > 0 => pc'[i] = "done" /\ items'[i].product \in Products
  BY <1>2, <1>3, <1>4 DEF Exists
<1>6. ASSUME NEW d \in Requests
      PROVE  SumFunction(after(d)) \in Nat
  BY <1>4, <1>5, SumOfRows DEF after
<1>7. SumFunction(after(c)) = SumFor(r, c)
  <2>1. items' = [i \in Requests |-> Seen(r, i)]
    BY DEF Commit
  <2>2. \A i \in Requests : Subtotal(items'[i], c) = Subtotal(Seen(r, i), c)
    BY <2>1
  <2>3. after(c) = [i \in Requests |-> Subtotal(Seen(r, i), c)]
    BY <2>2 DEF after
  <2> QED
    BY <2>3 DEF SumFor
<1>8. ASSUME NEW d \in Requests, d # c
      PROVE  SumFunction(after(d)) = CommittedSum(d)
  <2>1. \A i \in Requests : items[i].quantity \in Nat
    BY <1>2 DEF ItemRows
  <2>2. Subtotal(items'[w], d) = 0 /\ Subtotal(items[w], d) = 0
    BY <1>4, <1>8, <2>1 DEF Subtotal, Exists
  <2>3. \A i \in Requests : Subtotal(items'[i], d) = Subtotal(items[i], d)
    BY <1>4, <2>2
  <2>4. after(d) = [i \in Requests |-> Subtotal(items[i], d)]
    BY <2>3 DEF after
  <2> QED
    BY <2>4 DEF CommittedSum
<1>9. total' \in [Requests -> Nat]
  <2>1. tx[r].total \in Nat
    BY <1>1, <1>4, <1>6, <1>7
  <2> QED
    BY <1>2, <1>3, <2>1
<1>10. \A d \in Requests : status'[d] # "none" => total'[d] = SumFunction(after(d))
  BY <1>1, <1>2, <1>3, <1>4, <1>7, <1>8
<1>11. \A d, e \in Requests : status'[d] = "active" /\ status'[e] = "active" => d = e
  <2>1. CASE status[c] = "active" /\ tx[r].cartWrite # "create"
    BY <1>2, <1>3, <1>4, <2>1 DEF ActiveCarts
  <2>2. CASE ActiveCarts = {} /\ tx[r].cartWrite = "create"
    BY <1>2, <1>3, <1>4, <2>2 DEF ActiveCarts
  <2> QED
    BY <1>1, <2>1, <2>2 DEF OnActiveCart, c
<1>12. \A i, j \in Requests :
         /\ items'[i].quantity > 0 /\ items'[j].quantity > 0
         /\ items'[i].cart = items'[j].cart /\ items'[i].product = items'[j].product
         => i = j
  <2>1. \A i, j \in Requests :
          /\ Exists(i) /\ Exists(j)
          /\ items[i].cart = items[j].cart /\ items[i].product = items[j].product
          => i = j
    BY DEF RowsAgree, ProductOnce
  <2>2. \A i, j \in Requests : i # w /\ j # w =>
          (/\ items'[i].quantity > 0 /\ items'[j].quantity > 0
           /\ items'[i].cart = items'[j].cart
           /\ items'[i].product = items'[j].product
           => i = j)
    BY <1>4, <2>1 DEF Exists
  <2>3. \A i \in Requests \ {w} :
          ~(/\ items'[i].quantity > 0 /\ items'[w].quantity > 0
            /\ items'[i].cart = items'[w].cart
            /\ items'[i].product = items'[w].product)
    BY <1>4 DEF Exists
  <2> QED
    BY <2>2, <2>3
<1>13. status[c] # "completed"
  BY <1>1 DEF OnActiveCart, RowsInv, Created, c
<1>14. \A o \in Requests : orders[o].cart # NoId =>
         /\ orders[o].total = total[orders[o].cart]
         /\ total'[orders[o].cart] = total[orders[o].cart]
  <2> SUFFICES ASSUME NEW o \in Requests, orders[o].cart # NoId
               PROVE  /\ orders[o].total = total[orders[o].cart]
                      /\ total'[orders[o].cart] = total[orders[o].cart]
    OBVIOUS
  <2>1. orders[o].cart \in Requests /\ o \in OrdersOf(orders[o].cart)
    BY DEF RowsInv, Typed, Ids, OrdersOf
  <2>2. status[orders[o].cart] = "completed"
    BY <2>1 DEF RowsInv, OneOrderPerCart
  <2>3. orders[o].total = total[orders[o].cart]
    BY DEF RowsAgree, OrderMatchesCart
  <2> QED
    BY <1>2, <1>3, <1>13, <2>1, <2>2, <2>3
<1>15. OrderMatchesCart' /\ AmountMatchesItems'
  BY <1>3, <1>14 DEF OrderMatchesCart, AmountMatchesItems, RowsAgree
<1>16. ProductOnce'
  BY <1>12 DEF ProductOnce, Exists
<1>17. \A d, e \in ActiveCarts' : d = e
  BY <1>11 DEF ActiveCarts
<1>18. \A d \in Requests : CommittedSum(d)' = SumFunction(after(d))
  BY DEF CommittedSum, after, Subtotal
<1> QED
  BY <1>4, <1>5, <1>9, <1>10, <1>15, <1>16, <1>17, <1>18 DEF RowsAgree, Exists

\* The item of a commit has one unit more when it was an addition, and none
\* when it was a removal: the additions counted for it.
LEMMA CommitAdds ==
  ASSUME RowsInv, RowsAgree, AddedAgree, NEW r \in Requests, Progress(r),
         FlowStatement(r), Commit(r)
  PROVE  AddedAgree'
<1> DEFINE w == tx[r].item
           n == IF tx[r].itemWrite = "delete" THEN 0 ELSE items[w].quantity + 1
<1>1. /\ w \in Requests /\ items[w].quantity \in Nat
      /\ \A i \in Requests \ {w} : items'[i] = items[i]
      /\ items'[w].quantity = n
      /\ tx[r].itemWrite = "delete" \/ tx[r].product \in Products
  BY CommitItems
<1>2. added \in [Requests -> Nat] /\ \A i \in Requests : items[i].quantity = added[i]
  BY DEF AddedAgree, AdditionsSum
<1>3. Counted(r) = n
  <2>1. NoId \notin Products
    BY NoIdAssumption
  <2> QED
    BY <1>1, <1>2, <2>1 DEF Counted
<1>4. added' = [added EXCEPT ![w] = n] /\ n \in Nat
  BY <1>1, <1>3 DEF FlowStatement, Commit
<1> HIDE DEF w, n
<1>5. added' \in [Requests -> Nat] /\ \A i \in Requests : items'[i].quantity = added'[i]
  BY <1>1, <1>2, <1>4
<1> QED
  BY <1>5 DEF AddedAgree, AdditionsSum

\* The order of a serial checkout takes the total of its cart, the sum of its
\* items, which is positive.
LEMMA SaveOrderAgree ==
  ASSUME RowsInv, RowsAgree, NEW r \in Requests, Progress(r), SaveOrder(r)
  PROVE  RowsAgree' /\ Progress(r)'
<1> DEFINE c == tx[r].cart
<1>1. /\ pc[r] = "saveOrder" /\ c \in Requests
      /\ status[c] = "active" /\ ~IsEmpty(c)
      /\ tx[r].total = total[c] /\ tx[r].sum = CommittedSum(c)
  BY DEF SaveOrder, Progress, RowsInv, HasCart, CartSteps
<1>2. /\ DOMAIN pc = Requests /\ DOMAIN status = Requests /\ DOMAIN orders = Requests
      /\ total \in [Requests -> Nat] /\ items \in [Requests -> ItemRows]
      /\ \A i \in Requests : Exists(i) => pc[i] = "done" /\ items[i].product \in Products
      /\ \A d \in Requests : status[d] # "none" => total[d] = CommittedSum(d)
      /\ \A d, e \in ActiveCarts : d = e
  BY DEF RowsInv, Typed, RowsAgree
<1>3. /\ pc' = [pc EXCEPT ![r] = "publish"]
      /\ status' = [status EXCEPT ![c] = "completed"]
      /\ orders' = [orders EXCEPT ![r] =
           [cart |-> c, total |-> tx[r].total, sum |-> tx[r].sum]]
      /\ tx' = [tx EXCEPT ![r].cartWrite = "none"]
      /\ total' = total /\ items' = items
  BY DEF SaveOrder, Goto
<1>4. tx'[r].total = tx[r].total
  <2>1. Typed
    BY DEF RowsInv
  <2>2. tx'[r] = [tx[r] EXCEPT !.cartWrite = "none"]
    BY <1>3, <2>1, TxFields
  <2> QED
    BY <2>1, <2>2, TxFields
<1> HIDE DEF c
<1>5. total[c] = CommittedSum(c) /\ total[c] > 0
  <2>1. PICK i \in Requests : Exists(i) /\ items[i].cart = c
    BY <1>1 DEF IsEmpty
  <2>2. CommittedSum(c) > 0
    BY <1>2, <2>1, SumOfRows DEF CommittedSum, Exists
  <2> QED
    BY <1>1, <1>2, <2>2
<1>6. Progress(r)'
  <2>1. pc'[r] = "publish" /\ tx'[r].total > 0
    BY <1>1, <1>2, <1>3, <1>4, <1>5
  <2> QED
    BY <2>1 DEF Progress, AddSteps, RemoveSteps, CartKnown
<1>7. OrderMatchesCart' /\ AmountMatchesItems'
  <2>1. \A o \in Requests \ {r} : orders'[o] = orders[o]
    BY <1>3
  <2>2. /\ orders'[r].cart = c /\ orders'[r].total = tx[r].total
        /\ orders'[r].sum = tx[r].sum
    BY <1>2, <1>3
  <2>3. OrderMatchesCart /\ AmountMatchesItems
    BY DEF RowsAgree
  <2> QED
    BY <1>1, <1>3, <1>5, <2>1, <2>2, <2>3 DEF OrderMatchesCart, AmountMatchesItems
<1>8. \A d \in Requests : CommittedSum(d)' = CommittedSum(d)
  BY <1>3 DEF CommittedSum, Subtotal
<1>9. \A d \in Requests : status'[d] # "none" => status[d] # "none"
  BY <1>1, <1>2, <1>3
<1>10. \A d, e \in ActiveCarts' : d = e
  BY <1>2, <1>3 DEF ActiveCarts
<1>11. ProductOnce'
  BY <1>3 DEF RowsAgree, ProductOnce, Exists
<1>12. \A i \in Requests :
         Exists(i)' => pc'[i] = "done" /\ items'[i].product \in Products
  BY <1>1, <1>2, <1>3 DEF Exists
<1>13. RowsAgree'
  BY <1>2, <1>3, <1>7, <1>8, <1>9, <1>10, <1>11, <1>12 DEF RowsAgree
<1> QED
  BY <1>6, <1>13

\* An order whose checkout is over has sent its message, or is excused.
LEMMA SentStays ==
  ASSUME RowsInv, ~overlapped, ~overlapped', PublishedUnlessFault,
         NEW r \in Requests, NEW s, Goto(r, s),
         pc[r] # "done", pc[r] = "publish" => r \in excused',
         orders' = orders \/ SaveOrder(r),
         published' = published, excused \subseteq excused'
  PROVE  PublishedUnlessFault'
<1>1. ASSUME NEW o \in Requests \ excused', orders'[o].cart # NoId, pc'[o] = "done"
      PROVE  published'[o] = 1
  <2>1. CASE o # r
    <3>1. orders'[o] = orders[o]
      BY <1>1, <2>1, SaveOrderRows
    <3>2. pc'[o] = pc[o]
      BY <2>1 DEF Goto, RowsInv, Typed
    <3> QED
      BY <1>1, <3>1, <3>2 DEF PublishedUnlessFault
  <2>2. CASE o = r
    <3>1. ~SaveOrder(r)
      BY <1>1, <2>2 DEF SaveOrder, Goto, RowsInv, Typed
    <3>2. orders[r].cart = NoId
      BY <1>1, <2>2 DEF RowsInv, OrderIsLast
    <3> QED
      BY <1>1, <2>2, <3>1, <3>2
  <2> QED
    BY <2>1, <2>2
<1> QED
  BY <1>1 DEF PublishedUnlessFault

LEMMA SentByLastStep ==
  ASSUME IInv, ~overlapped, ~overlapped', PublishedUnlessFault,
         NEW r \in Requests, Progress(r), FlowStatement(r), Publish(r)
  PROVE  PublishedUnlessFault'
<1>1. Typed /\ published \in [Requests -> 0 .. 1]
  BY DEF IInv, RowsInv, Messages
<1>2. /\ pc[r] = "publish" /\ pc' = [pc EXCEPT ![r] = "done"] /\ orders' = orders
      /\ published' = published \/ published' = [published EXCEPT ![r] = @ + 1]
  BY DEF Publish, End, Goto
<1>3. /\ published'[r] > published[r] <=> channel = "open" /\ tx[r].total > 0
      /\ excused \subseteq excused' /\ (channel # "open" => r \in excused')
  BY <1>2 DEF FlowStatement, Publishes
<1>4. ASSUME NEW o \in Requests \ excused', orders'[o].cart # NoId, pc'[o] = "done"
      PROVE  published'[o] = 1
  <2>1. CASE o # r
    <3>1. pc'[o] = pc[o] /\ published'[o] = published[o]
      BY <1>1, <1>2, <2>1 DEF Typed
    <3> QED
      BY <1>2, <1>3, <1>4, <3>1 DEF PublishedUnlessFault
  <2>2. CASE o = r
    <3>1. published'[r] > published[r]
      BY <1>2, <1>3, <1>4, <2>2 DEF Progress
    <3>2. published[r] = 0
      BY <1>2 DEF IInv, Messages
    <3> QED
      BY <1>1, <1>2, <2>2, <3>1, <3>2
  <2> QED
    BY <2>1, <2>2
<1> QED
  BY <1>4 DEF PublishedUnlessFault

\* A step of a request is its own, and none of a request that is over.
LEMMA OneMoves ==
  ASSUME Typed, NEW r \in Requests, Begin(r) \/ Statement(r) \/ Fail(r)
  PROVE  /\ pc[r] # "done" /\ \E s : Goto(r, s)
         /\ \A q \in Requests \ {r} : pc'[q] = pc[q] /\ tx'[q] = tx[q]
<1>1. pc[r] # "done"
  BY DEF Begin, Statement, Fail, StartAdd, RefuseAdd, StartRemove, StartCheckout,
         AddFindCart, AddFindItem, Reload, UpdateItem, ReinsertItem,
         RemoveFindCart, RemoveFindItem, DeleteItem, SumItems, SetTotal, Commit,
         ReadCart, CompleteCart, SaveOrder, Publish, InFlight
<1>2. \E s : Goto(r, s)
  <2>1. ~Reload(r) => \E s : Goto(r, s)
    BY DEF Begin, Statement, Fail, StartAdd, RefuseAdd, StartRemove, StartCheckout,
           AddFindCart, AddFindItem, UpdateItem, ReinsertItem,
           RemoveFindCart, RemoveFindItem, DeleteItem, SumItems, SetTotal, Commit,
           ReadCart, CompleteCart, SaveOrder, Publish, End
  <2>2. Reload(r) => \E s : Goto(r, s)
    BY DEF Reload
  <2> QED
    BY <2>1, <2>2
<1>3. tx' = tx \/ \E t : tx' = [tx EXCEPT ![r] = t]
  BY DEF Begin, Statement, Fail, StartAdd, RefuseAdd, StartRemove, StartCheckout,
         AddFindCart, AddFindItem, Reload, UpdateItem, ReinsertItem,
         RemoveFindCart, RemoveFindItem, DeleteItem, SumItems, SetTotal, Commit,
         ReadCart, CompleteCart, SaveOrder, Publish, End
<1>4. \A q \in Requests \ {r} : pc'[q] = pc[q] /\ tx'[q] = tx[q]
  BY <1>2, <1>3 DEF Goto, Typed
<1> QED
  BY <1>1, <1>2, <1>4

LEMMA RequestSerial ==
  ASSUME IInv, SerialInv, NEW r \in Requests, Request(r), ~overlapped'
  PROVE  SerialInv'
<1>1. ~overlapped /\ ~(Cardinality(InFlight') > 1)
  BY DEF Request
<1>2. /\ \A p, q \in InFlight : p = q
      /\ RowsAgree /\ AddedAgree /\ PublishedUnlessFault
      /\ \A q \in Requests : Progress(q)
  BY <1>1 DEF SerialInv
<1>3. \A p, q \in InFlight' : p = q
  <2>1. InFlight' \in SUBSET Requests
    BY DEF InFlight
  <2>2. IsFiniteSet(InFlight')
    BY <2>1, RequestsAssumption, FS_Subset
  <2> HIDE DEF InFlight
  <2> QED
    BY <1>1, <2>2, AtMostOne
<1>4. Typed /\ HasCart /\ RowsInv
  BY DEF IInv, RowsInv
<1>5. Begin(r) \/ Statement(r) \/ Fail(r)
  BY DEF Request, FlowBegin, FlowStatement, FlowFail
<1>6. /\ pc[r] # "done" /\ \E s : Goto(r, s)
      /\ \A q \in Requests \ {r} : pc'[q] = pc[q] /\ tx'[q] = tx[q]
  BY <1>4, <1>5, OneMoves
<1>7. excused \subseteq excused'
  BY DEF Request, FlowBegin, FlowStatement, FlowFail
<1>8. AddedAgree'
  <2>1. CASE FlowStatement(r) /\ Commit(r)
    BY <1>2, <1>4, <2>1, CommitAdds
  <2>2. CASE ~(FlowStatement(r) /\ Commit(r))
    <3>1. items' = items /\ added' = added
      BY <2>2
         DEF Request, FlowBegin, FlowStatement, FlowFail, Begin, Statement, Fail,
             StartAdd, RefuseAdd, StartRemove, StartCheckout,
             AddFindCart, AddFindItem, Reload, UpdateItem, ReinsertItem,
             RemoveFindCart, RemoveFindItem, DeleteItem, SumItems, SetTotal,
             ReadCart, CompleteCart, SaveOrder, Publish, rows
    <3> QED
      BY <1>2, <3>1 DEF AddedAgree, AdditionsSum
  <2> QED
    BY <2>1, <2>2
<1> SUFFICES RowsAgree' /\ PublishedUnlessFault' /\ \A q \in Requests : Progress(q)'
  BY <1>3, <1>8 DEF SerialInv
<1>9. ASSUME UNCHANGED rows, Progress(r)', pc[r] = "publish" => r \in excused'
      PROVE  RowsAgree' /\ PublishedUnlessFault' /\ \A q \in Requests : Progress(q)'
  <2>1. RowsAgree'
    BY <1>2, <1>4, <1>6, <1>9, RowsStay DEF rows
  <2>2. \A q \in Requests \ {r} : Progress(q)'
    BY <1>2, <1>6, <1>9, OthersStay
  <2>3. orders' = orders /\ published' = published
    BY <1>9 DEF rows
  <2>4. PublishedUnlessFault'
    BY <1>1, <1>2, <1>4, <1>6, <1>7, <1>9, <2>3, SentStays
  <2> QED
    BY <1>9, <2>1, <2>2, <2>4
<1>10. ASSUME pc[r] \notin {"new", "done"}, NEW q \in Requests \ {r}
      PROVE  Progress(q)'
  <2>1. pc'[q] \in {"new", "done"}
    BY <1>2, <1>6, <1>10 DEF InFlight
  <2> QED
    BY <2>1, Idle
<1>11. CASE Begin(r)
  <2>1. UNCHANGED rows /\ pc[r] # "publish"
    BY <1>11 DEF Begin, StartAdd, RefuseAdd, StartRemove, StartCheckout
  <2> QED
    BY <1>4, <1>9, <1>11, <2>1, BeginProgress
<1>12. CASE AddFindCart(r) \/ RemoveFindCart(r)
  <2>1. UNCHANGED rows /\ pc[r] # "publish"
    BY <1>12 DEF AddFindCart, RemoveFindCart
  <2> QED
    BY <1>2, <1>4, <1>9, <1>12, <2>1, FindCartProgress
<1>13. CASE \/ AddFindItem(r) \/ Reload(r) \/ UpdateItem(r) \/ ReinsertItem(r)
            \/ RemoveFindItem(r) \/ DeleteItem(r)
  <2>1. UNCHANGED rows /\ pc[r] # "publish"
    BY <1>13 DEF AddFindItem, Reload, UpdateItem, ReinsertItem, RemoveFindItem,
                 DeleteItem
  <2> QED
    BY <1>2, <1>4, <1>9, <1>13, <2>1, ItemProgress
<1>14. CASE SumItems(r) \/ SetTotal(r)
  <2>1. UNCHANGED rows /\ pc[r] # "publish"
    BY <1>14 DEF SumItems, SetTotal
  <2> QED
    BY <1>2, <1>4, <1>9, <1>14, <2>1, TotalProgress
<1>15. CASE ReadCart(r) \/ CompleteCart(r)
  <2>1. UNCHANGED rows /\ pc[r] # "publish"
    BY <1>15 DEF ReadCart, CompleteCart
  <2> QED
    BY <1>2, <1>4, <1>9, <1>15, <2>1, CheckoutProgress
<1>16. CASE Commit(r)
  <2>1. /\ pc[r] = "commit" /\ End(r)
        /\ orders' = orders /\ published' = published
    BY <1>16 DEF Commit
  <2>2. PublishedUnlessFault'
    BY <1>1, <1>2, <1>4, <1>6, <1>7, <2>1, SentStays
  <2> QED
    BY <1>2, <1>4, <1>10, <1>16, <2>1, <2>2, CommitAgree, EndProgress
<1>17. CASE SaveOrder(r)
  <2>1. pc[r] = "saveOrder" /\ published' = published
    BY <1>17 DEF SaveOrder
  <2>2. PublishedUnlessFault'
    BY <1>1, <1>2, <1>4, <1>6, <1>7, <1>17, <2>1, SentStays
  <2> QED
    BY <1>2, <1>4, <1>10, <1>17, <2>1, <2>2, SaveOrderAgree
<1>18. CASE FlowStatement(r) /\ Publish(r)
  <2>1. /\ pc[r] = "publish" /\ End(r)
        /\ UNCHANGED <<status, total, items, orders>>
    BY <1>18 DEF Publish
  <2>2. PublishedUnlessFault'
    BY <1>1, <1>2, <1>4, <1>18, SentByLastStep
  <2>3. RowsAgree'
    BY <1>2, <1>4, <1>6, <2>1, RowsStay
  <2> QED
    BY <1>4, <1>10, <2>1, <2>2, <2>3, EndProgress
<1>19. CASE FlowFail(r)
  <2>1. UNCHANGED rows /\ End(r) /\ r \in excused'
    BY <1>19 DEF FlowFail, Fail
  <2>2. Progress(r)'
    BY <1>4, <2>1, EndProgress
  <2> QED
    BY <1>9, <2>1, <2>2
<1> QED
  BY <1>11, <1>12, <1>13, <1>14, <1>15, <1>16, <1>17, <1>18, <1>19
     DEF Request, FlowBegin, FlowStatement, Statement

\* Outside the steps of the requests nothing said of them changes.
LEMMA StepSerial == IInv /\ SerialInv /\ [FlowNext]_flowVars => SerialInv'
<1> SUFFICES ASSUME IInv, SerialInv, [FlowNext]_flowVars
             PROVE  SerialInv'
  OBVIOUS
<1>1. ASSUME NEW r \in Requests, Request(r)
      PROVE  SerialInv'
  <2>1. CASE overlapped'
    BY <2>1 DEF SerialInv
  <2> QED
    BY <1>1, <2>1, RequestSerial
<1>2. ASSUME UNCHANGED <<vars, history>>
      PROVE  SerialInv'
  <2>1. /\ \A q \in Requests : SumFor(q, tx[q].cart)' = SumFor(q, tx[q].cart)
        /\ \A c \in Requests : CommittedSum(c)' = CommittedSum(c)
    BY <1>2 DEF vars, SumFor, Seen, CommittedSum, Subtotal
  <2>2. RowsAgree' <=> RowsAgree
    BY <1>2, <2>1 DEF vars, RowsAgree, Exists, ActiveCarts, ProductOnce,
                      OrderMatchesCart, AmountMatchesItems, CommittedSum, Subtotal
  <2>3. \A q \in Requests : Progress(q)' <=> Progress(q)
    BY <1>2, <2>1 DEF vars, Progress, OnActiveCart, Written, SameProduct, Exists,
                      ActiveCarts, CommittedSum, IsEmpty, Subtotal
  <2>4. AddedAgree' <=> AddedAgree
    BY <1>2 DEF vars, history, AddedAgree, AdditionsSum
  <2> QED
    BY <1>2, <2>2, <2>3, <2>4
       DEF vars, history, SerialInv, InFlight, PublishedUnlessFault
<1>3. Connect \/ LoseChannel \/ Restart \/ FlowFinished \/ UNCHANGED flowVars
        => UNCHANGED <<vars, history>>
  BY DEF Connect, LoseChannel, Restart, SetChannel, FlowFinished, Finished, flowVars,
         vars
<1> QED
  BY <1>1, <1>2, <1>3 DEF FlowNext

\* What the service holds to while its process starts and restarts and its channel
\* opens and is lost: the invariant of Checkout, and as long as no two requests
\* have been handled at once, that the rows agree with each other and that what
\* a request has read of them is still so.
THEOREM FlowInvariant == FlowSpec => []FlowInv
<1>1. IInv /\ SerialInv /\ [FlowNext]_flowVars => SerialInv'
  BY StepSerial
<1> QED
  BY <1>1, InitSerial, FlowIsSafe, PTL DEF FlowSpec, FlowInv

\* Requests that do not overlap, whichever of their statements fail, leave what
\* the documents say of carts and orders: the total of a cart is the sum of its
\* items, a user has one active cart, a product is in it once with a unit for
\* each of its additions, and the amount of an order is the total of its cart
\* and what its items add up to.
THEOREM SerialRules == FlowSpec => []SerialCartRules
<1>1. FlowInv => SerialCartRules
  BY SerialImpliesRules DEF FlowInv
<1> QED
  BY <1>1, FlowInvariant, PTL

\* And an order whose checkout neither failed nor found its channel missing has
\* sent its message: publishMessage never refuses the amount of such an order.
THEOREM SentUnlessFault == FlowSpec => []PublishedUnlessFault
<1>1. FlowInv => PublishedUnlessFault
  BY SerialImpliesRules DEF FlowInv
<1> QED
  BY <1>1, FlowInvariant, PTL

=============================================================================
