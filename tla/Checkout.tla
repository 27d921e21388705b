------------------------------ MODULE Checkout ------------------------------
(***************************************************************************)
(* CartService.addItem and removeItem and OrdersService.checkout of the    *)
(* checkout service, as the PostgreSQL transactions they run: every        *)
(* statement is a step under READ COMMITTED, the default the service       *)
(* keeps.  A statement reads the last committed rows and those its own     *)
(* transaction wrote; a written row is locked until the commit.            *)
(*                                                                         *)
(* The model follows the requests of one user, since no statement touches  *)
(* a row of another.  A cart, an item and an order are named by the        *)
(* request that created them.                                              *)
(***************************************************************************)
EXTENDS Naturals, FiniteSets, FiniteSetsExt

CONSTANTS Requests,   \* the HTTP requests of the user, each made once
          Products,   \* the products of products-service
          Price,      \* their prices in cents, the snapshot an item keeps
          NoId,       \* an identifier of no row
          MaxInFlight \* how many requests are handled at the same time

ASSUME RequestsAssumption == IsFiniteSet(Requests)
ASSUME PriceAssumption == Price \in [Products -> Nat \ {0}]
ASSUME NoIdAssumption == NoId \notin Requests \cup Products

VARIABLES status,    \* status[c]: column status of cart c, "none": no row
          total,     \* total[c]: column total of cart c
          items,     \* items[i]: the row of cart_items, quantity 0: no row
          orders,    \* orders[o]: the row of orders, cart NoId: no row
          published, \* published[o]: payment messages published for order o
          pc,        \* pc[r]: the statement request r runs next
          tx         \* tx[r]: its local variables and uncommitted writes

vars == <<status, total, items, orders, published, pc, tx>>

Ids == Requests \cup {NoId}
CartStatuses == {"none", "active", "completed"}
AddSteps == {"addCart", "addItem", "reload", "update", "reinsert"}
RemoveSteps == {"removeCart", "removeItem", "delete"}
CheckoutSteps == {"readCart", "complete", "saveOrder", "publish"}
Steps == AddSteps \cup RemoveSteps \cup CheckoutSteps
           \cup {"new", "sum", "setTotal", "commit", "done"}

\* cart, item: the rows the request works on, with what it wrote to them.
\* quantity: the quantity it writes; total, sum: the amounts it computed.
NewTx ==
  [product |-> NoId, cart |-> NoId, item |-> NoId, quantity |-> 0,
   total |-> 0, sum |-> 0, cartWrite |-> "none", itemWrite |-> "none"]
CartWrites == {"none", "create", "total", "complete"}
ItemWrites == {"none", "save", "delete"}

NoItem == [cart |-> NoId, product |-> NoId, quantity |-> 0]
NoOrder == [cart |-> NoId, total |-> 0, sum |-> 0]

Init ==
  /\ status = [c \in Requests |-> "none"]
  /\ total = [c \in Requests |-> 0]
  /\ items = [i \in Requests |-> NoItem]
  /\ orders = [o \in Requests |-> NoOrder]
  /\ published = [o \in Requests |-> 0]
  /\ pc = [r \in Requests |-> "new"]
  /\ tx = [r \in Requests |-> NewTx]

rows == <<status, total, items, orders, published>>

Goto(r, s) == pc' = [pc EXCEPT ![r] = s]

\* The request ends and its transaction with it, committed or rolled back.
End(r) == Goto(r, "done") /\ tx' = [tx EXCEPT ![r] = NewTx]

-----------------------------------------------------------------------------
(* What a statement of request r sees, and the locks that make it wait *)

Exists(i) == items[i].quantity > 0
ActiveCarts == {c \in Requests : status[c] = "active"}

\* The subtotal of item i in the eyes of the transaction of r.
Seen(r, i) ==
  IF tx[r].item = i /\ tx[r].itemWrite = "save"
  THEN [cart |-> tx[r].cart, product |-> tx[r].product,
        quantity |-> tx[r].quantity]
  ELSE IF tx[r].item = i /\ tx[r].itemWrite = "delete" THEN NoItem
  ELSE items[i]

Subtotal(row, c) ==
  IF row.cart = c /\ row.quantity > 0 THEN Price[row.product] * row.quantity
  ELSE 0

SumFor(r, c) == SumFunction([i \in Requests |-> Subtotal(Seen(r, i), c)])
CommittedSum(c) == SumFunction([i \in Requests |-> Subtotal(items[i], c)])

ItemHolders(r) ==
  {q \in Requests \ {r} :
     tx[q].itemWrite # "none" /\ tx[q].item = tx[r].item}
CartHolders(r) ==
  {q \in Requests \ {r} :
     tx[q].cartWrite # "none" /\ tx[q].cart = tx[r].cart}

ItemLocked(r) == ItemHolders(r) # {}
CartLocked(r) == CartHolders(r) # {}

InFlight == {r \in Requests : pc[r] \notin {"new", "done"}}

-----------------------------------------------------------------------------
(* POST /cart/items *)

\* The product was fetched and is active: the transaction begins.
StartAdd(r, p) ==
  /\ pc[r] = "new" /\ Cardinality(InFlight) < MaxInFlight
  /\ Goto(r, "addCart")
  /\ tx' = [tx EXCEPT ![r].product = p]
  /\ UNCHANGED rows

\* The product is unknown or inactive, or products-service does not answer.
RefuseAdd(r) == pc[r] = "new" /\ End(r) /\ UNCHANGED rows

\* findOrCreateActiveCart: nothing prevents two carts from being active.
AddFindCart(r) ==
  /\ pc[r] = "addCart"
  /\ \/ \E c \in ActiveCarts : tx' = [tx EXCEPT ![r].cart = c]
     \/ /\ ActiveCarts = {}
        /\ tx' = [tx EXCEPT ![r].cart = r, ![r].cartWrite = "create"]
  /\ Goto(r, "addItem")
  /\ UNCHANGED rows

SameProduct(r) ==
  {i \in Requests : /\ Exists(i)
                    /\ items[i].cart = tx[r].cart
                    /\ items[i].product = tx[r].product}

\* Mutant: the quantity asked for replaces the one of the item.
ReplaceQuantity(r) ==
  /\ pc[r] = "addItem"
  /\ \/ \E i \in SameProduct(r) :
          /\ tx' = [tx EXCEPT ![r].item = i, ![r].quantity = 1]
          /\ Goto(r, "reload")
     \/ /\ SameProduct(r) = {}
        /\ tx' = [tx EXCEPT ![r].item = r, ![r].quantity = 1,
                            ![r].itemWrite = "save"]
        /\ Goto(r, "sum")
  /\ UNCHANGED rows

\* One more of the product: the quantity is computed from the row just read.
AddFindItem(r) ==
  /\ pc[r] = "addItem"
  /\ \/ \E i \in SameProduct(r) :
          /\ tx' = [tx EXCEPT ![r].item = i,
                              ![r].quantity = items[i].quantity + 1]
          /\ Goto(r, "reload")
     \/ /\ SameProduct(r) = {}
        /\ tx' = [tx EXCEPT ![r].item = r, ![r].quantity = 1,
                            ![r].itemWrite = "save"]
        /\ Goto(r, "sum")
  /\ UNCHANGED rows

\* save of a known id selects the row again: it updates what differs, writes
\* nothing when nothing does, and inserts the row again when it is gone.
Reload(r) ==
  /\ pc[r] = "reload"
  /\ Goto(r, CASE ~Exists(tx[r].item) -> "reinsert"
               [] items[tx[r].item].quantity = tx[r].quantity -> "sum"
               [] OTHER -> "update")
  /\ UNCHANGED <<rows, tx>>

\* The UPDATE waits for the lock of the row; a deleted row matches nothing.
UpdateItem(r) ==
  /\ pc[r] = "update" /\ ~ItemLocked(r)
  /\ tx' = [tx EXCEPT ![r].itemWrite =
              IF Exists(tx[r].item) THEN "save" ELSE "none"]
  /\ Goto(r, "sum")
  /\ UNCHANGED rows

\* The INSERT of an id that came back meanwhile violates the primary key.
ReinsertItem(r) ==
  /\ pc[r] = "reinsert" /\ ~ItemLocked(r)
  /\ \/ /\ ~Exists(tx[r].item)
        /\ tx' = [tx EXCEPT ![r].itemWrite = "save"]
        /\ Goto(r, "sum")
     \/ Exists(tx[r].item) /\ End(r)
  /\ UNCHANGED rows

-----------------------------------------------------------------------------
(* DELETE /cart/items/:itemId, and the total both operations rebuild *)

StartRemove(r, i) ==
  /\ pc[r] = "new" /\ Cardinality(InFlight) < MaxInFlight
  /\ Exists(i)
  /\ Goto(r, "removeCart")
  /\ tx' = [tx EXCEPT ![r].item = i]
  /\ UNCHANGED rows

RemoveFindCart(r) ==
  /\ pc[r] = "removeCart"
  /\ \/ \E c \in ActiveCarts :
          tx' = [tx EXCEPT ![r].cart = c] /\ Goto(r, "removeItem")
     \/ ActiveCarts = {} /\ End(r)
  /\ UNCHANGED rows

RemoveFindItem(r) ==
  /\ pc[r] = "removeItem"
  /\ \/ /\ Exists(tx[r].item) /\ items[tx[r].item].cart = tx[r].cart
        /\ Goto(r, "delete")
        /\ UNCHANGED tx
     \/ /\ ~Exists(tx[r].item) \/ items[tx[r].item].cart # tx[r].cart
        /\ End(r)
  /\ UNCHANGED rows

DeleteItem(r) ==
  /\ pc[r] = "delete" /\ ~ItemLocked(r)
  /\ tx' = [tx EXCEPT ![r].itemWrite =
              IF Exists(tx[r].item) THEN "delete" ELSE "none"]
  /\ Goto(r, "sum")
  /\ UNCHANGED rows

\* Mutant: the total of an add is the committed items plus the new price.
SumCommitted(r) ==
  /\ pc[r] = "sum"
  /\ tx' = [tx EXCEPT ![r].total = CommittedSum(tx[r].cart)]
  /\ Goto(r, "setTotal")
  /\ UNCHANGED rows

\* saveRecalculatedTotal reads the items of the cart ...
SumItems(r) ==
  /\ pc[r] = "sum"
  /\ tx' = [tx EXCEPT ![r].total = SumFor(r, tx[r].cart)]
  /\ Goto(r, "setTotal")
  /\ UNCHANGED rows

\* ... and writes their sum, once no other transaction holds the cart.
SetTotal(r) ==
  /\ pc[r] = "setTotal" /\ ~CartLocked(r)
  /\ tx' = [tx EXCEPT ![r].cartWrite =
              IF tx[r].cartWrite = "create" THEN "create" ELSE "total"]
  /\ Goto(r, "commit")
  /\ UNCHANGED rows

\* Mutant: the cart that was read active is saved whole, status included.
CommitWholeCart(r) ==
  /\ pc[r] = "commit"
  /\ status' = [status EXCEPT ![tx[r].cart] = "active"]
  /\ total' = [total EXCEPT ![tx[r].cart] = tx[r].total]
  /\ items' = [i \in Requests |-> Seen(r, i)]
  /\ End(r)
  /\ UNCHANGED <<orders, published>>

\* Mutant: a removal is answered while its transaction stays open.
RemovalLeftOpen(r) ==
  /\ pc[r] = "commit"
  /\ \/ /\ tx[r].itemWrite = "delete"
        /\ Goto(r, "done")
        /\ UNCHANGED <<rows, tx>>
     \/ /\ tx[r].itemWrite # "delete"
        /\ status' = [status EXCEPT ![tx[r].cart] = "active"]
        /\ total' = [total EXCEPT ![tx[r].cart] = tx[r].total]
        /\ items' = [i \in Requests |-> Seen(r, i)]
        /\ End(r)
        /\ UNCHANGED <<orders, published>>

Commit(r) ==
  /\ pc[r] = "commit"
  /\ status' = [status EXCEPT ![tx[r].cart] =
                  IF tx[r].cartWrite = "create" THEN "active" ELSE @]
  /\ total' = [total EXCEPT ![tx[r].cart] = tx[r].total]
  /\ items' = [i \in Requests |-> Seen(r, i)]
  /\ End(r)
  /\ UNCHANGED <<orders, published>>

-----------------------------------------------------------------------------
(* POST /cart/checkout *)

StartCheckout(r) ==
  /\ pc[r] = "new" /\ Cardinality(InFlight) < MaxInFlight
  /\ Goto(r, "readCart")
  /\ UNCHANGED <<rows, tx>>

IsEmpty(c) == ~\E i \in Requests : Exists(i) /\ items[i].cart = c

\* The cart and its items are read once: the order and the message use this
\* copy, whatever happens to the cart before it is completed.
ReadCart(r) ==
  /\ pc[r] = "readCart"
  /\ \/ \E c \in ActiveCarts :
          /\ ~IsEmpty(c)
          /\ tx' = [tx EXCEPT ![r].cart = c, ![r].total = total[c],
                              ![r].sum = CommittedSum(c)]
          /\ Goto(r, "complete")
     \/ (ActiveCarts = {} \/ \E c \in ActiveCarts : IsEmpty(c)) /\ End(r)
  /\ UNCHANGED rows

\* Mutant: the update is not conditional on the cart being active.
CompleteAnyway(r) ==
  /\ pc[r] = "complete" /\ ~CartLocked(r)
  /\ tx' = [tx EXCEPT ![r].cartWrite = "complete"]
  /\ Goto(r, "saveOrder")
  /\ UNCHANGED rows

\* The conditional update waits for the lock, then checks the status again.
CompleteCart(r) ==
  /\ pc[r] = "complete" /\ ~CartLocked(r)
  /\ \/ /\ status[tx[r].cart] = "active"
        /\ tx' = [tx EXCEPT ![r].cartWrite = "complete"]
        /\ Goto(r, "saveOrder")
     \/ status[tx[r].cart] # "active" /\ End(r)
  /\ UNCHANGED rows

\* The order is inserted and the transaction commits.
SaveOrder(r) ==
  /\ pc[r] = "saveOrder"
  /\ status' = [status EXCEPT ![tx[r].cart] = "completed"]
  /\ orders' = [orders EXCEPT ![r] =
       [cart |-> tx[r].cart, total |-> tx[r].total, sum |-> tx[r].sum]]
  /\ tx' = [tx EXCEPT ![r].cartWrite = "none"]
  /\ Goto(r, "publish")
  /\ UNCHANGED <<total, items, published>>

\* publishPaymentOrder validates that the amount is positive; what it throws
\* is logged, and the broker's publishMessage only warns without a channel.
Publish(r) ==
  /\ pc[r] = "publish"
  /\ \/ tx[r].total > 0 /\ published' = [published EXCEPT ![r] = @ + 1]
     \/ UNCHANGED published
  /\ End(r)
  /\ UNCHANGED <<status, total, items, orders>>

-----------------------------------------------------------------------------
\* A query or the process fails: the transaction rolls back, and a request
\* that was about to publish its message never does.
Fail(r) == r \in InFlight /\ End(r) /\ UNCHANGED rows

\* The next statement of request r.
Statement(r) ==
  \/ AddFindCart(r) \/ AddFindItem(r) \/ Reload(r) \/ UpdateItem(r)
  \/ ReinsertItem(r) \/ RemoveFindCart(r) \/ RemoveFindItem(r)
  \/ DeleteItem(r) \/ SumItems(r) \/ SetTotal(r) \/ Commit(r)
  \/ ReadCart(r) \/ CompleteCart(r) \/ SaveOrder(r) \/ Publish(r)

Begin(r) ==
  \/ \E p \in Products : StartAdd(r, p)
  \/ RefuseAdd(r)
  \/ \E i \in Requests : StartRemove(r, i)
  \/ StartCheckout(r)

\* Every request is over: the only state where nothing more happens.
Finished == (\A r \in Requests : pc[r] = "done") /\ UNCHANGED vars

Next == (\E r \in Requests : Begin(r) \/ Statement(r) \/ Fail(r)) \/ Finished

Spec == Init /\ [][Next]_vars

-----------------------------------------------------------------------------
(* Properties that hold under any interleaving *)

OrdersOf(c) == {o \in Requests : orders[o].cart = c}

\* A cart is completed exactly when it has its order, and it never has two:
\* concurrent checkouts of the cart, and adds and removes that write the cart
\* meanwhile, neither duplicate nor lose the transition.
OneOrderPerCart ==
  /\ \A o, p \in Requests :
       orders[o].cart = orders[p].cart /\ orders[o].cart # NoId => o = p
  /\ \A c \in Requests : status[c] = "completed" <=> OrdersOf(c) # {}

\* Two checkouts of a cart publish at most one message, and a message always
\* names an order that was committed (03-order-checkout.md:195).
OneMessagePerCart ==
  /\ \A c \in Requests :
       MapThenSumSet(LAMBDA o : published[o], OrdersOf(c)) <= 1
  /\ \A o \in Requests : published[o] > 0 => orders[o].cart # NoId

\* A completed cart is never reopened, nor is an order rewritten, whatever a
\* transaction that read the cart while it was active still writes.
FinalizedStays ==
  [][\A r \in Requests :
       /\ status[r] = "completed" => status'[r] = "completed"
       /\ orders[r].cart # NoId => orders'[r] = orders[r]]_vars

\* The checkout implements the abstract carts and orders.
Abstract == INSTANCE CartOrders WITH
  Carts <- Requests, Orders <- Requests,
  placed <- [c \in Requests |-> OrdersOf(c)]
ImplementsCartOrders == Abstract!Spec

\* The requests whose commit the next statement of r waits for.
WaitsFor(r) ==
  CASE pc[r] \in {"update", "reinsert", "delete"} -> ItemHolders(r)
    [] pc[r] \in {"setTotal", "complete"} -> CartHolders(r)
    [] OTHER -> {}

\* No request waits for ever: it waits only for requests that still run, and
\* never in a ring, since items are always locked before their cart.
NoEndlessWait ==
  /\ \A r \in InFlight : WaitsFor(r) \subseteq InFlight
  /\ \A waiting \in (SUBSET InFlight) \ {{}} :
       \E r \in waiting : WaitsFor(r) \cap waiting = {}

-----------------------------------------------------------------------------
(* Properties of the cart that hold when requests do not overlap *)

Quiet == InFlight = {}

\* cart.service.ts:145: the total can not drift away from the cart contents.
TotalIsSum ==
  Quiet => \A c \in Requests : status[c] # "none" => total[c] = CommittedSum(c)

\* 02-cart-management.md:155: a user has at most one active cart.
OneActiveCart == Cardinality(ActiveCarts) <= 1

\* 02-cart-management.md:158: a product is at most once in a cart.
ProductOnce ==
  \A i, j \in Requests :
    /\ Exists(i) /\ Exists(j)
    /\ items[i].cart = items[j].cart /\ items[i].product = items[j].product
    => i = j

\* 03-order-checkout.md:189: the total of an order is that of its cart when
\* it was finalized; the cart changes no more, so it is its total ever after.
OrderMatchesCart ==
  \A o \in Requests :
    orders[o].cart # NoId => orders[o].total = total[orders[o].cart]

\* The amount of the payment message is what its items add up to.
AmountMatchesItems ==
  \A o \in Requests : orders[o].cart # NoId => orders[o].total = orders[o].sum

-----------------------------------------------------------------------------
(* The invariant.  Amounts do not matter to it, so the records of tx are   *)
(* only said to have their fields (a singleton stands for any value).      *)

Shape(t) ==
  t \in [product : {t.product}, cart : Ids, item : {t.item},
         quantity : {t.quantity}, total : {t.total}, sum : {t.sum},
         cartWrite : CartWrites, itemWrite : {t.itemWrite}]

Typed ==
  /\ status \in [Requests -> CartStatuses]
  /\ pc \in [Requests -> Steps]
  /\ DOMAIN orders = Requests /\ \A o \in Requests : orders[o].cart \in Ids
  /\ DOMAIN tx = Requests /\ \A r \in Requests : Shape(tx[r])

\* The steps at which a request has found, or written, its cart.
CartSteps == {"sum", "setTotal", "commit", "complete", "saveOrder", "addItem",
              "reload", "update", "reinsert", "removeItem", "delete"}

NoCartSteps == {"new", "addCart", "removeCart", "readCart"}

HasCart ==
  \A r \in Requests :
    /\ pc[r] \in CartSteps => tx[r].cart \in Requests
    /\ pc[r] \in NoCartSteps =>
         tx[r].cart = NoId /\ tx[r].cartWrite = "none"
    /\ tx[r].cartWrite # "none" => tx[r].cart \in Requests

\* The row locks: no two transactions wrote the same cart.
OneWriter ==
  \A q, r \in Requests :
    /\ tx[q].cartWrite # "none" /\ tx[r].cartWrite # "none"
    /\ tx[q].cart = tx[r].cart
    => q = r

\* A cart exists from the commit of the request that names it.
Created ==
  \A r \in Requests :
    /\ status[r] # "none" => pc[r] = "done"
    /\ \A q \in Requests \ {r} : tx[q].cart = r => status[r] # "none"
    /\ tx[r].cartWrite = "create" => tx[r].cart = r

\* A transaction about to insert its order holds the lock of an active cart.
Completing ==
  \A r \in Requests :
    pc[r] = "saveOrder" =>
      tx[r].cartWrite = "complete" /\ status[tx[r].cart] = "active"

OrderIsLast ==
  \A o \in Requests : orders[o].cart # NoId => pc[o] \in {"publish", "done"}

\* What the orders need.
RowsInv ==
  /\ Typed
  /\ HasCart
  /\ OneWriter
  /\ Created
  /\ Completing
  /\ OrderIsLast
  /\ OneOrderPerCart

\* A request holds the row it wrote only at the steps that follow the write.
Locks ==
  \A r \in Requests :
    /\ tx[r].itemWrite # "none" => pc[r] \in {"sum", "setTotal", "commit"}
    /\ tx[r].cartWrite \in {"total", "complete"} => pc[r] \in {"commit", "saveOrder"}
    /\ tx[r].cartWrite # "none" => pc[r] \notin {"publish", "done"}

\* A message is published once its order is committed, by its last step.
Messages ==
  /\ published \in [Requests -> 0 .. 1]
  /\ \A o \in Requests :
       /\ pc[o] = "publish" => orders[o].cart # NoId
       /\ published[o] > 0 => pc[o] = "done" /\ orders[o].cart # NoId

IInv == RowsInv /\ Locks /\ Messages
=============================================================================
