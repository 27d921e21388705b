----------------------------- MODULE CartOrders -----------------------------
(***************************************************************************)
(* What the checkout promises about carts and orders: a cart is finalized  *)
(* once, at the moment its single order appears, and stays finalized.      *)
(* Checkout implements it.                                                 *)
(***************************************************************************)
CONSTANTS Carts,  \* the identifiers of carts
          Orders  \* the identifiers of orders

VARIABLES status, \* the status of each cart, "none" before it exists
          placed  \* the orders placed for each cart

vars == <<status, placed>>

Init ==
  /\ status = [c \in Carts |-> "none"]
  /\ placed = [c \in Carts |-> {}]

Open(c) ==
  /\ status[c] = "none"
  /\ status' = [status EXCEPT ![c] = "active"]
  /\ UNCHANGED placed

Finalize(c, o) ==
  /\ status[c] = "active"
  /\ placed[c] = {}
  /\ status' = [status EXCEPT ![c] = "completed"]
  /\ placed' = [placed EXCEPT ![c] = {o}]

Next == \E c \in Carts : Open(c) \/ \E o \in Orders : Finalize(c, o)

Spec == Init /\ [][Next]_vars
=============================================================================
