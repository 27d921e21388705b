--------------------------- MODULE PaymentsService ---------------------------
(***************************************************************************)
(* PaymentConsumerService.processPaymentOrder and                          *)
(* PaymentsService.processPayment, run by several instances of the         *)
(* payments service over one PostgreSQL table.  Each await is a step of    *)
(* its own, so instances interleave between the lookup, the insert, the    *)
(* charge and the final save, and any of them can crash in between.        *)
(*                                                                         *)
(* Money is an integer number of cents (payment-money.ts: toCents); a      *)
(* message is named by the order it carries.                               *)
(***************************************************************************)
EXTENDS Naturals

CONSTANTS Instances, \* the processes of the payments service
          Orders,    \* the orders the messages name
          Valid,     \* those whose message parses and satisfies the schema
          Amount,    \* the amount of each order, in cents
          NoOrder    \* an instance that handles no message

ASSUME ValidAssumption == Valid \subseteq Orders
ASSUME AmountAssumption == Amount \in [Orders -> Nat]
ASSUME NoOrderAssumption == NoOrder \notin Orders

VARIABLES payments, \* payments[o]: the row of table payments with that orderId
          charges,  \* charges[o]: calls of charge that took effect
          step,     \* step[i]: the await instance i is at
          order     \* order[i]: the order of the message instance i handles

vars == <<payments, charges, step, order>>

Statuses == {"none", "pending", "approved", "rejected"}
Working == {"lookup", "insert", "charge", "update"}
Steps == Working \cup {"idle", "returned", "failed", "down"}

TypeOK ==
  /\ payments \in [Orders -> Statuses]
  /\ charges \in [Orders -> Nat]
  /\ step \in [Instances -> Steps]
  /\ order \in [Instances -> Orders \cup {NoOrder}]

-----------------------------------------------------------------------------
(* The simulated gateway: the decision depends on the amount alone. *)

AmountLimit == 1000000

LimitExceeded(cents) == cents > AmountLimit
CardDeclined(cents) == cents % 100 = 99

Decision(o) ==
  IF LimitExceeded(Amount[o]) \/ CardDeclined(Amount[o])
  THEN "rejected" ELSE "approved"

-----------------------------------------------------------------------------
Init ==
  /\ payments = [o \in Orders |-> "none"]
  /\ charges = [o \in Orders |-> 0]
  /\ step = [i \in Instances |-> "idle"]
  /\ order = [i \in Instances |-> NoOrder]

Goto(i, s) == step' = [step EXCEPT ![i] = s]

\* A message that does not parse or breaks the schema throws at once.
Receive(i, o) ==
  /\ step[i] = "idle"
  /\ Goto(i, IF o \in Valid THEN "lookup" ELSE "failed")
  /\ order' = [order EXCEPT ![i] = o]
  /\ UNCHANGED <<payments, charges>>

\* Mutant: a pending payment is charged again instead of being returned.
LookupResumes(i) ==
  /\ step[i] = "lookup"
  /\ Goto(i, CASE payments[order[i]] = "none" -> "insert"
               [] payments[order[i]] = "pending" -> "charge"
               [] OTHER -> "returned")
  /\ UNCHANGED <<payments, charges, order>>

\* findOneBy: an existing payment is returned whatever its status.
Lookup(i) ==
  /\ step[i] = "lookup"
  /\ Goto(i, IF payments[order[i]] = "none" THEN "insert" ELSE "returned")
  /\ UNCHANGED <<payments, charges, order>>

\* Mutant: orderId has no unique constraint, so the second insert succeeds.
InsertAnyway(i) ==
  /\ step[i] = "insert"
  /\ Goto(i, "charge")
  /\ payments' = [payments EXCEPT ![order[i]] = "pending"]
  /\ UNCHANGED <<charges, order>>

\* Inserts the pending row; the unique orderId makes a second insert throw.
SavePending(i) ==
  /\ step[i] = "insert"
  /\ \/ /\ payments[order[i]] = "none"
        /\ payments' = [payments EXCEPT ![order[i]] = "pending"]
        /\ Goto(i, "charge")
     \/ /\ payments[order[i]] # "none"
        /\ Goto(i, "failed")
        /\ UNCHANGED payments
  /\ UNCHANGED <<charges, order>>

Charge(i) ==
  /\ step[i] = "charge"
  /\ charges' = [charges EXCEPT ![order[i]] = @ + 1]
  /\ Goto(i, "update")
  /\ UNCHANGED <<payments, order>>

\* Mutant: the reason of a rejection is saved where its status belongs.
SaveReason(i) ==
  /\ step[i] = "update"
  /\ payments' = [payments EXCEPT ![order[i]] =
                    IF LimitExceeded(Amount[order[i]]) THEN "limit_exceeded"
                    ELSE IF CardDeclined(Amount[order[i]]) THEN "card_declined"
                    ELSE "approved"]
  /\ Goto(i, "returned")
  /\ UNCHANGED <<charges, order>>

SaveOutcome(i) ==
  /\ step[i] = "update"
  /\ payments' = [payments EXCEPT ![order[i]] = Decision(order[i])]
  /\ Goto(i, "returned")
  /\ UNCHANGED <<charges, order>>

\* The row a failing statement may already have committed.
Written(i) ==
  IF step[i] = "update" THEN Decision(order[i])
  ELSE IF step[i] = "insert" /\ payments[order[i]] = "none" THEN "pending"
  ELSE payments[order[i]]

\* A query rejects: before it ran, or after its commit when the answer is lost.
DatabaseError(i) ==
  /\ step[i] \in {"lookup", "insert", "update"}
  /\ Goto(i, "failed")
  /\ \/ UNCHANGED payments
     \/ payments' = [payments EXCEPT ![order[i]] = Written(i)]
  /\ UNCHANGED <<charges, order>>

\* The handler is over and its message is acked or nacked.
Settle(i) ==
  /\ step[i] \in {"returned", "failed"}
  /\ Goto(i, "idle")
  /\ order' = [order EXCEPT ![i] = NoOrder]
  /\ UNCHANGED <<payments, charges>>

\* The process dies at any await; only the database and the charge survive.
Crash(i) ==
  /\ step[i] # "down"
  /\ Goto(i, "down")
  /\ order' = [order EXCEPT ![i] = NoOrder]
  /\ UNCHANGED <<payments, charges>>

Restart(i) ==
  /\ step[i] = "down"
  /\ Goto(i, "idle")
  /\ UNCHANGED <<payments, charges, order>>

\* One await of the handler of instance i.
Handle(i) ==
  Lookup(i) \/ SavePending(i) \/ Charge(i) \/ SaveOutcome(i) \/ DatabaseError(i)

Next ==
  \E i \in Instances :
    \/ \E o \in Orders : Receive(i, o)
    \/ Handle(i)
    \/ Settle(i)
    \/ Crash(i)
    \/ Restart(i)

Spec == Init /\ [][Next]_vars

-----------------------------------------------------------------------------
(* Properties *)

\* An order is never charged twice, whatever messages are redelivered and
\* whichever instances handle them (the promise of processPayment's comment).
ChargedAtMostOnce == \A o \in Orders : charges[o] <= 1

\* A decided payment was charged exactly once and an unregistered order never:
\* the table and the gateway agree on every order that is not pending.
LedgerAgrees ==
  \A o \in Orders :
    /\ payments[o] \in {"approved", "rejected"} => charges[o] = 1
    /\ payments[o] = "none" => charges[o] = 0

\* A row is registered before it is decided, and its decision is final: no
\* redelivery, concurrent instance or late save rewrites it.
OutcomeIsFinal ==
  [][\A o \in Orders :
       payments'[o] # payments[o] =>
         \/ payments[o] = "none" /\ payments'[o] = "pending"
         \/ payments[o] = "pending" /\ payments'[o] = Decision(o)]_vars

\* The service implements the abstract payment of each order.
Abstract == INSTANCE OrderPayment WITH Outcome <- [o \in Orders |-> Decision(o)]
ImplementsOrderPayment == Abstract!Spec

\* What docs/specs/01-payment-processing.md:88 asks: when a processing ends
\* normally and no other is under way for the order, its payment is decided.
DecidedAfterProcessing ==
  \A i \in Instances :
    /\ step[i] = "returned"
    /\ \A j \in Instances \ {i} : order[j] # order[i]
    => payments[order[i]] # "pending"

-----------------------------------------------------------------------------
(* The inductive invariant: an instance past the insert owns its order. *)

Owns(i, o) == step[i] \in {"charge", "update"} /\ order[i] = o

HandlesAnOrder == \A i \in Instances : step[i] \in Working => order[i] \in Orders

OwnerIsUnique ==
  \A i, j \in Instances : \A o \in Orders : Owns(i, o) /\ Owns(j, o) => i = j

OwnedIsPending ==
  \A i \in Instances : \A o \in Orders :
    Owns(i, o) =>
      /\ payments[o] = "pending"
      /\ charges[o] = IF step[i] = "charge" THEN 0 ELSE 1

IInv ==
  /\ TypeOK
  /\ HandlesAnOrder
  /\ OwnerIsUnique
  /\ OwnedIsPending
  /\ LedgerAgrees
  /\ ChargedAtMostOnce
=============================================================================
