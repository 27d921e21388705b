------------------------ MODULE PaymentsServiceProofs ------------------------
(***************************************************************************)
(* Proofs about PaymentsService for any number of instances and orders:    *)
(* the inductive invariant IInv, that an order is charged at most once,    *)
(* that a decision is final, and that the service implements OrderPayment. *)
(***************************************************************************)
EXTENDS PaymentsService, TLAPS

LEMMA DecisionIsFinalStatus ==
  ASSUME NEW o \in Orders
  PROVE  Decision(o) \in {"approved", "rejected"}
BY DEF Decision

\* The type invariant alone is inductive only together with HandlesAnOrder:
\* an instance that works has an order to index the table with.
Typed == TypeOK /\ HandlesAnOrder

LEMMA TypedStep == Typed /\ [Next]_vars => Typed'
<1> SUFFICES ASSUME Typed, [Next]_vars
             PROVE  Typed'
  OBVIOUS
<1> USE NoOrderAssumption, ValidAssumption
        DEF Typed, TypeOK, HandlesAnOrder, Goto, Steps, Working, Statuses
<1>1. ASSUME NEW i \in Instances, NEW o \in Orders, Receive(i, o)
      PROVE  Typed'
  BY <1>1 DEF Receive
<1>2. ASSUME NEW i \in Instances, Lookup(i)
      PROVE  Typed'
  BY <1>2 DEF Lookup
<1>3. ASSUME NEW i \in Instances, SavePending(i)
      PROVE  Typed'
  BY <1>3 DEF SavePending
<1>4. ASSUME NEW i \in Instances, Charge(i)
      PROVE  Typed'
  BY <1>4 DEF Charge
<1>5. ASSUME NEW i \in Instances, SaveOutcome(i)
      PROVE  Typed'
  BY <1>5, DecisionIsFinalStatus DEF SaveOutcome
<1>6. ASSUME NEW i \in Instances, DatabaseError(i)
      PROVE  Typed'
  BY <1>6, DecisionIsFinalStatus DEF DatabaseError, Written
<1>7. ASSUME NEW i \in Instances, Settle(i)
      PROVE  Typed'
  BY <1>7 DEF Settle
<1>8. ASSUME NEW i \in Instances, Crash(i)
      PROVE  Typed'
  BY <1>8 DEF Crash
<1>9. ASSUME NEW i \in Instances, Restart(i)
      PROVE  Typed'
  BY <1>9 DEF Restart
<1>10. CASE UNCHANGED vars
  BY <1>10 DEF vars
<1> QED
  BY <1>1, <1>2, <1>3, <1>4, <1>5, <1>6, <1>7, <1>8, <1>9, <1>10
     DEF Next, Handle

-----------------------------------------------------------------------------
\* What the invariant says of the owners and the ledger, without the types.
Ledger == OwnerIsUnique /\ OwnedIsPending /\ LedgerAgrees /\ ChargedAtMostOnce

LEMMA LedgerStep == Typed /\ Ledger /\ [Next]_vars => Ledger'
<1> SUFFICES ASSUME Typed, Ledger, [Next]_vars
             PROVE  Ledger'
  OBVIOUS
<1> USE NoOrderAssumption
        DEF Typed, TypeOK, HandlesAnOrder, Ledger, OwnerIsUnique,
            OwnedIsPending, LedgerAgrees, ChargedAtMostOnce, Owns, Goto,
            Steps, Working, Statuses
\* Steps that leave the table and the charges alone, and make no owner.
<1>1. ASSUME NEW i \in Instances, NEW o \in Orders, Receive(i, o)
      PROVE  Ledger'
  BY <1>1 DEF Receive
<1>2. ASSUME NEW i \in Instances, Lookup(i)
      PROVE  Ledger'
  BY <1>2 DEF Lookup
<1>3. ASSUME NEW i \in Instances, SavePending(i)
      PROVE  Ledger'
  BY <1>3 DEF SavePending
<1>4. ASSUME NEW i \in Instances, Charge(i)
      PROVE  Ledger'
  BY <1>4 DEF Charge
<1>5. ASSUME NEW i \in Instances, SaveOutcome(i)
      PROVE  Ledger'
  BY <1>5, DecisionIsFinalStatus DEF SaveOutcome
<1>6. ASSUME NEW i \in Instances, DatabaseError(i)
      PROVE  Ledger'
  BY <1>6, DecisionIsFinalStatus DEF DatabaseError, Written
<1>7. ASSUME NEW i \in Instances, Settle(i)
      PROVE  Ledger'
  BY <1>7 DEF Settle
<1>8. ASSUME NEW i \in Instances, Crash(i)
      PROVE  Ledger'
  BY <1>8 DEF Crash
<1>9. ASSUME NEW i \in Instances, Restart(i)
      PROVE  Ledger'
  BY <1>9 DEF Restart
<1>10. CASE UNCHANGED vars
  BY <1>10 DEF vars
<1> QED
  BY <1>1, <1>2, <1>3, <1>4, <1>5, <1>6, <1>7, <1>8, <1>9, <1>10
     DEF Next, Handle

-----------------------------------------------------------------------------
\* The invariant holds in every reachable state of the service: at most one
\* instance is past the insert of an order, and its row and charges say so.
THEOREM Invariant == Spec => []IInv
<1>1. Init => IInv
  BY NoOrderAssumption
     DEF Init, IInv, TypeOK, HandlesAnOrder, OwnerIsUnique, OwnedIsPending,
         LedgerAgrees, ChargedAtMostOnce, Owns, Steps, Working, Statuses
<1>2. IInv /\ [Next]_vars => IInv'
  BY TypedStep, LedgerStep DEF IInv, Typed, Ledger
<1> QED
  BY <1>1, <1>2, PTL DEF Spec

\* An order is never charged twice (processPayment's comment).
THEOREM NoDoubleCharge == Spec => []ChargedAtMostOnce
<1>1. IInv => ChargedAtMostOnce
  BY DEF IInv
<1> QED
  BY <1>1, Invariant, PTL

\* A decided payment was charged exactly once, an unregistered order never.
THEOREM LedgerIsConsistent == Spec => []LedgerAgrees
<1>1. IInv => LedgerAgrees
  BY DEF IInv
<1> QED
  BY <1>1, Invariant, PTL

-----------------------------------------------------------------------------
\* The only ways a step can change the row of an order: its registration, and
\* the decision of a row that is pending.
RowChange(o) ==
  \/ payments[o] = "none" /\ payments'[o] = "pending"
  \/ payments[o] = "pending" /\ payments'[o] = Decision(o)

LEMMA RowStep ==
  IInv /\ [Next]_vars =>
    \A o \in Orders : payments'[o] # payments[o] => RowChange(o)
<1> SUFFICES ASSUME IInv, [Next]_vars, NEW o \in Orders,
                    payments'[o] # payments[o]
             PROVE  RowChange(o)
  OBVIOUS
<1> USE DEF IInv, TypeOK, HandlesAnOrder, OwnedIsPending, Owns, Goto, Working,
            RowChange
<1>1. ASSUME NEW i \in Instances, SavePending(i)
      PROVE  RowChange(o)
  BY <1>1 DEF SavePending
<1>2. ASSUME NEW i \in Instances, SaveOutcome(i)
      PROVE  RowChange(o)
  BY <1>2 DEF SaveOutcome
<1>3. ASSUME NEW i \in Instances, DatabaseError(i)
      PROVE  RowChange(o)
  BY <1>3 DEF DatabaseError, Written
<1> QED
  BY <1>1, <1>2, <1>3
     DEF Next, Handle, vars, Receive, Lookup, Charge, Settle, Crash, Restart

\* A decision is final: no redelivery, no other instance and no late save
\* rewrites the status of a payment that is approved or rejected.
THEOREM DecisionIsFinal == Spec => OutcomeIsFinal
<1>1. IInv /\ [Next]_vars =>
        [\A o \in Orders : payments'[o] # payments[o] => RowChange(o)]_vars
  BY RowStep
<1> QED
  BY <1>1, Invariant, PTL DEF Spec, OutcomeIsFinal, RowChange

-----------------------------------------------------------------------------
\* Every step of the service is a step of the abstract payment or stutters.
LEMMA AbstractStep == IInv /\ [Next]_vars => [Abstract!Next]_(Abstract!vars)
<1> SUFFICES ASSUME IInv, [Next]_vars
             PROVE  [Abstract!Next]_(Abstract!vars)
  OBVIOUS
<1> USE DEF IInv, TypeOK, HandlesAnOrder, OwnedIsPending, Owns, Goto, Working,
            Abstract!Next, Abstract!vars, Abstract!Register,
            Abstract!ChargeOnce, Abstract!Conclude
<1>1. ASSUME NEW i \in Instances, SavePending(i)
      PROVE  [Abstract!Next]_(Abstract!vars)
  <2>1. CASE payments[order[i]] = "none"
    <3>1. Abstract!Register(order[i])
      BY <1>1, <2>1 DEF SavePending
    <3> QED
      BY <1>1, <3>1 DEF SavePending
  <2>2. CASE payments[order[i]] # "none"
    BY <1>1, <2>2 DEF SavePending
  <2> QED
    BY <2>1, <2>2
<1>2. ASSUME NEW i \in Instances, Charge(i)
      PROVE  [Abstract!Next]_(Abstract!vars)
  <2>1. order[i] \in Orders /\ Owns(i, order[i])
    BY <1>2 DEF Charge
  <2>2. payments[order[i]] = "pending" /\ charges[order[i]] = 0
    BY <1>2, <2>1 DEF Charge
  <2>3. Abstract!ChargeOnce(order[i])
    BY <1>2, <2>1, <2>2 DEF Charge
  <2> QED
    BY <2>1, <2>3
<1>3. ASSUME NEW i \in Instances, SaveOutcome(i)
      PROVE  [Abstract!Next]_(Abstract!vars)
  <2>1. order[i] \in Orders /\ Owns(i, order[i])
    BY <1>3 DEF SaveOutcome
  <2>2. Abstract!Conclude(order[i])
    BY <1>3, <2>1 DEF SaveOutcome
  <2> QED
    BY <2>1, <2>2
<1>4. ASSUME NEW i \in Instances, DatabaseError(i)
      PROVE  [Abstract!Next]_(Abstract!vars)
  <2>1. order[i] \in Orders
    BY <1>4 DEF DatabaseError
  <2>2. \/ UNCHANGED Abstract!vars
        \/ Abstract!Register(order[i])
        \/ Abstract!Conclude(order[i])
    BY <1>4, <2>1 DEF DatabaseError, Written
  <2> QED
    BY <2>1, <2>2
<1> QED
  BY <1>1, <1>2, <1>3, <1>4
     DEF Next, Handle, vars, Receive, Lookup, Settle, Crash, Restart

\* The payments service, with its instances, crashes and database errors,
\* implements the abstract payment of each order.
THEOREM ServiceImplementsOrderPayment == Spec => ImplementsOrderPayment
<1>1. Init => Abstract!Init
  BY DEF Init, Abstract!Init
<1>2. IInv /\ [Next]_vars => [Abstract!Next]_(Abstract!vars)
  BY AbstractStep
<1> QED
  BY <1>1, <1>2, Invariant, PTL DEF Spec, ImplementsOrderPayment, Abstract!Spec
=============================================================================
