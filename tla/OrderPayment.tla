---------------------------- MODULE OrderPayment ----------------------------
(***************************************************************************)
(* What the payments service promises for an order, without instances,     *)
(* messages or a database: a payment is registered as pending, the order   *)
(* is charged once, and the payment ends with the outcome its amount       *)
(* determines.  PaymentsService implements it.                             *)
(***************************************************************************)
EXTENDS Naturals

CONSTANTS Orders,   \* the orders a payment message may name
          Outcome   \* the outcome, approved or rejected, decided for each order

VARIABLES payments, \* the row of the order: "none", "pending" or its outcome
          charges   \* how many times the gateway charged the order

vars == <<payments, charges>>

Init ==
  /\ payments = [o \in Orders |-> "none"]
  /\ charges = [o \in Orders |-> 0]

Register(o) ==
  /\ payments[o] = "none"
  /\ payments' = [payments EXCEPT ![o] = "pending"]
  /\ UNCHANGED charges

\* A charge needs a registered payment and is the only one of its order.
ChargeOnce(o) ==
  /\ payments[o] = "pending"
  /\ charges[o] = 0
  /\ charges' = [charges EXCEPT ![o] = 1]
  /\ UNCHANGED payments

Conclude(o) ==
  /\ payments[o] = "pending"
  /\ charges[o] = 1
  /\ payments' = [payments EXCEPT ![o] = Outcome[o]]
  /\ UNCHANGED charges

Next == \E o \in Orders : Register(o) \/ ChargeOnce(o) \/ Conclude(o)

Spec == Init /\ [][Next]_vars
=============================================================================
