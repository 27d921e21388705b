---------------------------- MODULE CheckoutFlow ----------------------------
(***************************************************************************)
(* Checkout with the connection its messages go through: RabbitmqService   *)
(* of the checkout service connects once, when the process starts, and     *)
(* never again; without its channel a message is dropped with a warning.   *)
(* Every step is one of Checkout or leaves its rows alone.                 *)
(***************************************************************************)
EXTENDS Checkout

VARIABLES channel,    \* the connection of the process, with its channel
          overlapped, \* two requests were handled at the same time
          excused,    \* the checkouts that failed, or found no open channel
          added       \* added[i]: additions committed for item i since it is there

history == <<overlapped, excused, added>>
flowVars == <<vars, channel, history>>

\* starting: onModuleInit has not returned, no request is served yet.
\* none: the connection failed.  closed: it is lost, but still held.
FlowInit ==
  /\ Init
  /\ channel = "starting"
  /\ overlapped = FALSE /\ excused = {} /\ added = [i \in Requests |-> 0]

SetChannel(c) == channel' = c /\ UNCHANGED <<vars, history>>

\* onModuleInit connects once; a failure is logged and the service starts.
Connect == channel = "starting" /\ \E c \in {"open", "none"} : SetChannel(c)

\* The channel closes, which is only logged.
LoseChannel == channel = "open" /\ SetChannel("closed")

\* The process starts again, on purpose or after an error of the connection that
\* nobody listens to; the requests it had in flight have failed.
Restart ==
  channel # "starting" /\ InFlight = {} /\ SetChannel("starting")

\* publishMessage hands a message to an open channel; without one, or with a
\* closed one whose calls throw, it is dropped.  A message whose amount is not
\* positive is refused before.
Publishes(r) ==
  pc[r] = "publish" =>
    (published'[r] > published[r] <=> channel = "open" /\ tx[r].total > 0)

\* What a commit of r makes of the additions to its item.
Counted(r) ==
  IF tx[r].itemWrite = "delete" THEN 0
  ELSE IF tx[r].product # NoId THEN added[tx[r].item] + 1
  ELSE added[tx[r].item]

\* A statement runs.  Publish is the only one that needs the channel.
FlowStatement(r) ==
  /\ Statement(r)
  /\ Publishes(r)
  /\ excused' = IF pc[r] = "publish" /\ channel # "open"
                THEN excused \cup {r} ELSE excused
  /\ added' = IF pc[r] = "commit"
              THEN [added EXCEPT ![tx[r].item] = Counted(r)] ELSE added

FlowFail(r) == Fail(r) /\ excused' = excused \cup {r} /\ UNCHANGED added

FlowBegin(r) ==
  channel # "starting" /\ Begin(r) /\ UNCHANGED <<excused, added>>

Request(r) ==
  /\ FlowBegin(r) \/ FlowStatement(r) \/ FlowFail(r)
  /\ overlapped' = (overlapped \/ Cardinality(InFlight') > 1)
  /\ UNCHANGED channel

FlowFinished == Finished /\ UNCHANGED <<channel, history>>

FlowNext ==
  \/ \E r \in Requests : Request(r)
  \/ Connect \/ LoseChannel \/ Restart
  \/ FlowFinished

FlowSpec == FlowInit /\ [][FlowNext]_flowVars

-----------------------------------------------------------------------------
\* 02-cart-management.md:158: repeated additions of a product sum up in its
\* item, so an item has one unit for each addition that was confirmed.
AdditionsSum == \A i \in Requests : items[i].quantity = added[i]

\* The rules of the documents for carts and orders hold as long as the
\* requests of the user do not overlap, whichever of them fail: the total is
\* the sum of the items (cart.service.ts:146), a user has one active cart
\* (02-cart-management.md:155), a product is once in it and its additions sum
\* up (:158), and an order takes the total of its cart
\* (03-order-checkout.md:189), which is what its items add up to.
SerialCartRules ==
  ~overlapped => /\ TotalIsSum /\ OneActiveCart /\ ProductOnce /\ AdditionsSum
                 /\ OrderMatchesCart /\ AmountMatchesItems

\* Without overlapping requests an order whose checkout neither failed nor found
\* its channel missing has sent its message: the amount computed along the adds
\* and removes is never one the message refuses.
PublishedUnlessFault ==
  ~overlapped =>
    \A o \in Requests \ excused :
      orders[o].cart # NoId /\ pc[o] = "done" => published[o] = 1

-----------------------------------------------------------------------------
(* The invariant while requests have not overlapped.  The rows change only *)
(* at a commit, so what a request read or computed still holds of them.    *)

ItemRows == [cart : Ids, product : Products \cup {NoId}, quantity : Nat]

RowsAgree ==
  /\ total \in [Requests -> Nat] /\ items \in [Requests -> ItemRows]
  /\ \A i \in Requests :
       Exists(i) => pc[i] = "done" /\ items[i].product \in Products
  /\ \A c \in Requests : status[c] # "none" => total[c] = CommittedSum(c)
  /\ \A c, d \in ActiveCarts : c = d
  /\ ProductOnce /\ OrderMatchesCart /\ AmountMatchesItems

AddedAgree == added \in [Requests -> Nat] /\ AdditionsSum

\* The cart of a request is the active one, or the one it creates.
OnActiveCart(r) ==
  \/ status[tx[r].cart] = "active" /\ tx[r].cartWrite # "create"
  \/ ActiveCarts = {} /\ tx[r].cartWrite = "create"

\* What an item write leaves: one row of the product in the cart, or no row.
Written(r) ==
  /\ tx[r].item \in Requests
  /\ \/ /\ tx[r].itemWrite = "save"
        /\ tx[r].product \in Products
        /\ tx[r].quantity = items[tx[r].item].quantity + 1
        /\ \/ SameProduct(r) = {tx[r].item}
           \/ SameProduct(r) = {} /\ tx[r].item = r
     \/ /\ tx[r].itemWrite = "delete"
        /\ Exists(tx[r].item) /\ items[tx[r].item].cart = tx[r].cart

\* The steps of an addition or a removal that has found or created its cart.
CartKnown == {"addItem", "reload", "update", "reinsert", "removeItem", "delete",
              "sum", "setTotal", "commit"}

Progress(r) ==
  /\ pc[r] \in AddSteps => tx[r].product \in Products /\ pc[r] # "reinsert"
  /\ pc[r] \in RemoveSteps => tx[r].item \in Requests
  /\ pc[r] \in CartKnown => OnActiveCart(r)
  /\ pc[r] \in {"reload", "update"} =>
       /\ SameProduct(r) = {tx[r].item}
       /\ tx[r].quantity = items[tx[r].item].quantity + 1
  /\ pc[r] = "delete" =>
       Exists(tx[r].item) /\ items[tx[r].item].cart = tx[r].cart
  /\ pc[r] \in {"sum", "setTotal", "commit"} => Written(r)
  /\ pc[r] \in {"setTotal", "commit"} => tx[r].total = SumFor(r, tx[r].cart)
  /\ pc[r] \in {"complete", "saveOrder"} =>
       /\ status[tx[r].cart] = "active" /\ ~IsEmpty(tx[r].cart)
       /\ tx[r].total = total[tx[r].cart]
       /\ tx[r].sum = CommittedSum(tx[r].cart)
  /\ pc[r] = "publish" => tx[r].total > 0

SerialInv ==
  ~overlapped =>
    /\ \A q, r \in InFlight : q = r
    /\ RowsAgree /\ AddedAgree
    /\ \A r \in Requests : Progress(r)
    /\ PublishedUnlessFault

FlowInv == IInv /\ SerialInv
=============================================================================
