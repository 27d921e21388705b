------------------------ MODULE PaymentPipelineProofs ------------------------
(***************************************************************************)
(* What is proved of one payments service carries over to the service with *)
(* its broker: PaymentPipeline drives PaymentsService by its own steps, so *)
(* redeliveries, lost channels and reprocessing never charge twice.        *)
(***************************************************************************)
EXTENDS PaymentPipeline, TLAPS

WorkerProofs == INSTANCE PaymentsServiceProofs
DlqProofs == INSTANCE DlqServiceProofs

LEMMA WorkerInit == Init => Worker!Init
BY DEF Init

LEMMA WorkerStep == [Next]_vars => [Worker!Next]_(Worker!vars)
<1> SUFFICES ASSUME [Next]_vars
             PROVE  [Worker!Next]_(Worker!vars)
  OBVIOUS
<1> USE DEF Worker!Next, Worker!vars, workerVars
<1>1. ASSUME NEW i \in Instances, Connection(i)
      PROVE  [Worker!Next]_(Worker!vars)
  BY <1>1 DEF Connection, Connect, GiveUp, ConnectLate, ConnectFails,
              LoseChannel, LoseSettlement, Crash, Restart
<1>2. ASSUME NEW i \in Instances, Deliver(i)
      PROVE  [Worker!Next]_(Worker!vars)
  BY <1>2 DEF Deliver
<1>3. ASSUME NEW i \in Instances, Consume(i)
      PROVE  [Worker!Next]_(Worker!vars)
  BY <1>3 DEF Consume, Handle, Ack, Nack, DeadLetter, SettleOnClosedChannel
<1>4. ASSUME NEW r \in Requests, DlqStep(r) \/ DlqRefused(r) \/ DlqUndeclared(r)
      PROVE  [Worker!Next]_(Worker!vars)
  BY <1>4 DEF DlqStep, DlqRefused, DlqUndeclared
<1>5. ASSUME NEW o \in Orders, Publish(o)
      PROVE  [Worker!Next]_(Worker!vars)
  BY <1>5 DEF Publish
<1>6. CASE Expire \/ ExpireDlq
  BY <1>6 DEF Expire, ExpireDlq
<1>7. CASE UNCHANGED vars
  BY <1>7 DEF vars
<1> QED
  BY <1>1, <1>2, <1>3, <1>4, <1>5, <1>6, <1>7 DEF Next

\* The broker and the operators only make the payments service take steps of
\* its own: every behaviour of the pipeline is one of PaymentsService.
THEOREM PipelineImplementsService == Spec => ImplementsPaymentsService
BY WorkerInit, WorkerStep, PTL
   DEF Spec, ImplementsPaymentsService, Worker!Spec

\* The instance the proofs are about is the one the pipeline drives.
LEMMA SameService ==
  /\ Worker!Init <=> WorkerProofs!Init
  /\ [Worker!Next]_(Worker!vars) <=> [WorkerProofs!Next]_(WorkerProofs!vars)
  /\ Worker!ChargedAtMostOnce <=> WorkerProofs!ChargedAtMostOnce
<1>1. Worker!Init <=> WorkerProofs!Init
  BY DEF Worker!Init, WorkerProofs!Init
<1>2. Worker!ChargedAtMostOnce <=> WorkerProofs!ChargedAtMostOnce
  BY DEF Worker!ChargedAtMostOnce, WorkerProofs!ChargedAtMostOnce
<1>3. ASSUME NEW i, NEW o
      PROVE  /\ Worker!Receive(i, o) <=> WorkerProofs!Receive(i, o)
             /\ Worker!Settle(i) <=> WorkerProofs!Settle(i)
             /\ Worker!Crash(i) <=> WorkerProofs!Crash(i)
             /\ Worker!Restart(i) <=> WorkerProofs!Restart(i)
  BY Zenon
     DEF Worker!Receive, Worker!Settle, Worker!Crash, Worker!Restart,
         Worker!Goto, WorkerProofs!Receive, WorkerProofs!Settle,
         WorkerProofs!Crash, WorkerProofs!Restart, WorkerProofs!Goto
<1>4. ASSUME NEW i
      PROVE  /\ Worker!Lookup(i) <=> WorkerProofs!Lookup(i)
             /\ Worker!SavePending(i) <=> WorkerProofs!SavePending(i)
             /\ Worker!Charge(i) <=> WorkerProofs!Charge(i)
  BY Zenon
     DEF Worker!Lookup, Worker!SavePending, Worker!Charge, Worker!Goto,
         WorkerProofs!Lookup, WorkerProofs!SavePending, WorkerProofs!Charge,
         WorkerProofs!Goto
<1>5. ASSUME NEW o
      PROVE  Worker!Decision(o) = WorkerProofs!Decision(o)
  BY DEF Worker!Decision, Worker!LimitExceeded, Worker!CardDeclined,
         Worker!AmountLimit, WorkerProofs!Decision, WorkerProofs!LimitExceeded,
         WorkerProofs!CardDeclined, WorkerProofs!AmountLimit
<1>6. ASSUME NEW i
      PROVE  /\ Worker!SaveOutcome(i) <=> WorkerProofs!SaveOutcome(i)
             /\ Worker!DatabaseError(i) <=> WorkerProofs!DatabaseError(i)
  <2>1. Worker!Written(i) = WorkerProofs!Written(i)
    BY <1>5 DEF Worker!Written, WorkerProofs!Written
  <2> QED
    BY <1>5, <2>1, Zenon
       DEF Worker!SaveOutcome, Worker!DatabaseError, Worker!Goto,
           WorkerProofs!SaveOutcome, WorkerProofs!DatabaseError,
           WorkerProofs!Goto
<1>7. Worker!Next <=> WorkerProofs!Next
  BY <1>3, <1>4, <1>6, Zenon
     DEF Worker!Next, WorkerProofs!Next, Worker!Handle, WorkerProofs!Handle
<1> QED
  BY <1>1, <1>2, <1>7 DEF Worker!vars, WorkerProofs!vars

\* No redelivery, lost channel, crash or reprocessing charges an order twice.
THEOREM PipelineChargesOnce == Spec => []ChargedAtMostOnce
<1>1. WorkerProofs!Spec => []WorkerProofs!ChargedAtMostOnce
  BY WorkerProofs!NoDoubleCharge, ValidAssumption, AmountAssumption,
     NoOrderAssumption
<1> QED
  BY <1>1, SameService, PipelineImplementsService, PTL
     DEF ImplementsPaymentsService, ChargedAtMostOnce, Worker!Spec,
         WorkerProofs!Spec

-----------------------------------------------------------------------------
(* The dead-letter service the proofs are about is the one the pipeline     *)
(* drives: its operators and actions are the same formulas.                 *)

LEMMA SameCardinality ==
  ASSUME NEW S
  PROVE  Dlq!Cardinality(S) = DlqProofs!Cardinality(S)
BY DEF Dlq!Cardinality, DlqProofs!Cardinality

LEMMA SameQueues ==
  ASSUME NEW q, NEW x, NEW y
  PROVE  /\ Dlq!Ready(q) = DlqProofs!Ready(q)
         /\ Dlq!FirstReady(q) = DlqProofs!FirstReady(q)
         /\ Dlq!Hold(q, x) = DlqProofs!Hold(q, x)
         /\ Dlq!Held(q, x) = DlqProofs!Held(q, x)
         /\ Dlq!Acked(q, x) = DlqProofs!Acked(q, x)
         /\ Dlq!Release(q, x) = DlqProofs!Release(q, x)
         /\ Dlq!Purged(q) = DlqProofs!Purged(q)
         /\ Dlq!RemoveAt(q, x) = DlqProofs!RemoveAt(q, x)
         /\ Dlq!Freed(q) = DlqProofs!Freed(q)
         /\ Dlq!Died(q, x) = DlqProofs!Died(q, x)
         /\ Dlq!InQueue(q, x) = DlqProofs!InQueue(q, x)
<1>1. /\ Dlq!Ready(q) = DlqProofs!Ready(q)
      /\ Dlq!FirstReady(q) = DlqProofs!FirstReady(q)
      /\ Dlq!RemoveAt(q, x) = DlqProofs!RemoveAt(q, x)
  BY DEF Dlq!Ready, DlqProofs!Ready, Dlq!FirstReady, DlqProofs!FirstReady,
         Dlq!Min, DlqProofs!Min, Dlq!RemoveAt, DlqProofs!RemoveAt
<1>2. /\ Dlq!Freed(q) = DlqProofs!Freed(q) /\ Dlq!Died(q, x) = DlqProofs!Died(q, x)
      /\ Dlq!InQueue(q, x) = DlqProofs!InQueue(q, x)
  BY DEF Dlq!Freed, DlqProofs!Freed, Dlq!Died, DlqProofs!Died,
         Dlq!InQueue, DlqProofs!InQueue
<1>3. Dlq!HeldAt(q, x) = DlqProofs!HeldAt(q, x)
  BY DEF Dlq!HeldAt, DlqProofs!HeldAt
<1>4. /\ Dlq!Held(q, x) = DlqProofs!Held(q, x)
      /\ Dlq!Acked(q, x) = DlqProofs!Acked(q, x)
  BY <1>3 DEF Dlq!Held, DlqProofs!Held, Dlq!Acked, DlqProofs!Acked,
              Dlq!RemoveAt, DlqProofs!RemoveAt
<1>5. Dlq!Hold(q, x) = DlqProofs!Hold(q, x)
  BY <1>1 DEF Dlq!Hold, DlqProofs!Hold
<1>6. Dlq!Release(q, x) = DlqProofs!Release(q, x)
  BY DEF Dlq!Release, DlqProofs!Release, Dlq!Freed, DlqProofs!Freed
<1>7. Dlq!Purged(q) = DlqProofs!Purged(q)
  BY DEF Dlq!Purged, DlqProofs!Purged
<1> QED
  BY <1>1, <1>2, <1>4, <1>5, <1>6, <1>7

LEMMA SamePublish ==
  ASSUME NEW o
  PROVE  Dlq!PublishMain(o) <=> DlqProofs!PublishMain(o)
BY SameCardinality, Zenon
   DEF Dlq!PublishMain, DlqProofs!PublishMain, Dlq!Entry, DlqProofs!Entry,
       Dlq!Ready, DlqProofs!Ready, Dlq!FirstReady, DlqProofs!FirstReady,
       Dlq!Min, DlqProofs!Min, Dlq!RemoveAt, DlqProofs!RemoveAt,
       Dlq!Died, DlqProofs!Died

LEMMA SameOperate ==
  ASSUME NEW r
  PROVE  /\ \A op, o : Dlq!Start(r, op, o) <=> DlqProofs!Start(r, op, o)
         /\ Dlq!Purge(r) <=> DlqProofs!Purge(r)
         /\ Dlq!Refuse(r) <=> DlqProofs!Refuse(r)
         /\ Dlq!Work(r) <=> DlqProofs!Work(r)
         /\ \A rs : Dlq!FailRequests(rs) <=> DlqProofs!FailRequests(rs)
<1> USE DEF Dlq!At, DlqProofs!At, Dlq!Goto, DlqProofs!Goto,
            Dlq!Iterate, DlqProofs!Iterate, Dlq!Conclude, DlqProofs!Conclude,
            Dlq!Op, DlqProofs!Op, Dlq!Active, DlqProofs!Active
<1>1. ASSUME NEW op, NEW o
      PROVE  Dlq!Start(r, op, o) <=> DlqProofs!Start(r, op, o)
  BY SameCardinality, Zenon
     DEF Dlq!Start, DlqProofs!Start, Dlq!TargetedOps, DlqProofs!TargetedOps,
         Dlq!Ready, DlqProofs!Ready, Dlq!InQueue, DlqProofs!InQueue
<1>2. Dlq!Purge(r) <=> DlqProofs!Purge(r)
  BY SameQueues, Zenon
     DEF Dlq!Purge, DlqProofs!Purge, Dlq!Ready, DlqProofs!Ready
<1>3. Dlq!Refuse(r) <=> DlqProofs!Refuse(r)
  BY Zenon DEF Dlq!Refuse, DlqProofs!Refuse
<1>4. ASSUME NEW rs
      PROVE  Dlq!FailRequests(rs) <=> DlqProofs!FailRequests(rs)
  BY Zenon DEF Dlq!FailRequests, DlqProofs!FailRequests
<1>5. Dlq!Message(r) = DlqProofs!Message(r)
  BY SameQueues DEF Dlq!Message, DlqProofs!Message
<1>6. Dlq!Matches(r) = DlqProofs!Matches(r)
  BY <1>5
     DEF Dlq!Matches, DlqProofs!Matches, Dlq!IsTarget, DlqProofs!IsTarget,
         Dlq!Parses, DlqProofs!Parses
<1>7. Dlq!Get(r) <=> DlqProofs!Get(r)
  BY SameQueues, Zenon DEF Dlq!Get, DlqProofs!Get
<1>8. Dlq!Finish(r) <=> DlqProofs!Finish(r)
  BY SameQueues, Zenon DEF Dlq!Finish, DlqProofs!Finish
<1>9. Dlq!PutBack(r) <=> DlqProofs!PutBack(r)
  BY <1>6, SameQueues, Zenon DEF Dlq!PutBack, DlqProofs!PutBack
<1>10. Dlq!Republish(r) <=> DlqProofs!Republish(r)
  BY <1>5, <1>6, SamePublish, Zenon DEF Dlq!Republish, DlqProofs!Republish
<1>11. Dlq!AckRepublished(r) <=> DlqProofs!AckRepublished(r)
  BY SameQueues, Zenon DEF Dlq!AckRepublished, DlqProofs!AckRepublished
<1>12. Dlq!Discard(r) <=> DlqProofs!Discard(r)
  BY <1>5, <1>6, SameQueues, Zenon DEF Dlq!Discard, DlqProofs!Discard
<1>13. Dlq!Work(r) <=> DlqProofs!Work(r)
  BY <1>7, <1>8, <1>9, <1>10, <1>11, <1>12 DEF Dlq!Work, DlqProofs!Work
<1> QED
  BY <1>1, <1>2, <1>3, <1>4, <1>13

LEMMA SameBroker ==
  /\ Dlq!MessageDies <=> DlqProofs!MessageDies
  /\ Dlq!DlqExpires <=> DlqProofs!DlqExpires
<1>1. Dlq!ExpireMain <=> DlqProofs!ExpireMain
  BY SameQueues, Zenon DEF Dlq!ExpireMain, DlqProofs!ExpireMain
<1>2. Dlq!ExpireRetry <=> DlqProofs!ExpireRetry
  BY Zenon DEF Dlq!ExpireRetry, DlqProofs!ExpireRetry
<1>3. Dlq!ExpireDlq <=> DlqProofs!ExpireDlq
  BY SameQueues, Zenon DEF Dlq!ExpireDlq, DlqProofs!ExpireDlq
<1> QED
  BY <1>1, <1>2, <1>3, SameQueues, Zenon
     DEF Dlq!MessageDies, DlqProofs!MessageDies, Dlq!DlqExpires, DlqProofs!DlqExpires


\* What the proofs about the dead-letter service assume of its constants.
LEMMA DlqAssumptions ==
  /\ MaxLength \in Nat \ {0} /\ Garbage \subseteq Orders /\ PeekLimit \in Nat
  /\ Free \notin Requests /\ Free \notin Instances
BY MaxLengthAssumption, GarbageAssumption, PeekLimitAssumption, FreeAssumption

-----------------------------------------------------------------------------
(* The invariant, as counts of kinds of messages *)

\* The messages of the main queue that instance i holds, and those of order o.
Mine(i) == DlqProofs!By(Orders, Instances, i)
Named(o) == DlqProofs!Of(Orders, Instances, o)

Busy(i) == link[i] = "consuming" /\ step[i] # "idle"

HandlersHold ==
  \A i \in Instances :
    /\ DlqProofs!Count(main, Mine(i)) = IF Busy(i) THEN 1 ELSE 0
    /\ Busy(i) => DlqProofs!Count(main, Named(order[i]) \cap Mine(i)) = 1

Stay(o) == DlqProofs!Lasts(Orders, Instances, o)

QueueInv ==
  /\ DlqProofs!Sound(sent, Instances)
  /\ removed \subseteq sent /\ sent \subseteq Orders
  /\ HandlersHold
  /\ \A o \in sent \ removed : Stay(o) >= 1 \/ payments[o] # "none"

\* What a step of the payments service never does.
PaymentsKept == \A o \in Orders : payments[o] # "none" => payments'[o] # "none"

\* A step after which the handlers are as busy as before, on the same orders.
SameHandlers ==
  \A i \in Instances : /\ Busy(i)' <=> Busy(i)
                       /\ Busy(i) => order'[i] = order[i]

LEMMA StayType ==
  ASSUME QueueInv
  PROVE  /\ DlqProofs!Sound(Orders, Instances)
         /\ \A o : Stay(o) \in Nat
<1>1. DlqProofs!Sound(Orders, Instances)
  BY DlqAssumptions, DlqProofs!SoundWiden DEF QueueInv
<1>2. DlqProofs!Queues(Orders, Instances)
  BY <1>1 DEF DlqProofs!Sound
<1>3. ASSUME NEW o
      PROVE  Stay(o) \in Nat
  BY <1>2, DlqAssumptions, DlqProofs!LastsType DEF Stay
<1> QED
  BY <1>1, <1>3

LEMMA NextStayType ==
  ASSUME NEW S, DlqProofs!Queues(S, Instances)', S \subseteq Orders, NEW o
  PROVE  Stay(o)' \in Nat
<1>1. DlqProofs!Queues(Orders, Instances)'
  <2>1. /\ main' \in Seq(DlqProofs!Messages(S, Instances))
        /\ retry' \in Seq(DlqProofs!Messages(S, {}))
        /\ dlq' \in Seq(DlqProofs!Messages(S, Requests))
    BY DEF DlqProofs!Queues
  <2>2. /\ main' \in Seq(DlqProofs!Messages(Orders, Instances))
        /\ retry' \in Seq(DlqProofs!Messages(Orders, {}))
        /\ dlq' \in Seq(DlqProofs!Messages(Orders, Requests))
    BY <2>1, DlqAssumptions, DlqProofs!WidenOrders
  <2> QED
    BY <2>2 DEF DlqProofs!Queues
<1> QED
  BY <1>1, DlqAssumptions, DlqProofs!NextLastsType DEF Stay

\* The handlers hold what they held when nobody else's message moves.
LEMMA HandlersKept ==
  ASSUME HandlersHold, SameHandlers, DlqProofs!KeepsHeld(Orders, Instances)
  PROVE  HandlersHold'
<1> SUFFICES ASSUME NEW i \in Instances
             PROVE  /\ DlqProofs!Count(main', Mine(i)) = IF Busy(i)' THEN 1 ELSE 0
                    /\ Busy(i)' =>
                         DlqProofs!Count(main', Named(order'[i]) \cap Mine(i)) = 1
  BY DEF HandlersHold, Mine, Named
<1> DEFINE K == DlqProofs!HeldKind(Orders, Instances)
           P == Named(order[i]) \cap Mine(i)
<1>1. Mine(i) \cap K = Mine(i) /\ P \cap K = P
  BY DlqAssumptions DEF Mine, DlqProofs!By, DlqProofs!HeldKind
<1>2. /\ DlqProofs!Count(main', Mine(i) \cap K) = DlqProofs!Count(main, Mine(i) \cap K)
      /\ DlqProofs!Count(main', P \cap K) = DlqProofs!Count(main, P \cap K)
  BY DEF DlqProofs!KeepsHeld
<1>3. /\ DlqProofs!Count(main', Mine(i)) = DlqProofs!Count(main, Mine(i))
      /\ DlqProofs!Count(main', P) = DlqProofs!Count(main, P)
  BY <1>1, <1>2
<1> QED
  BY <1>3 DEF HandlersHold, SameHandlers

\* A step of a request or of the broker.
LEMMA QueueStep ==
  ASSUME QueueInv, PaymentsKept, SameHandlers, NEW S, S = sent,
         DlqProofs!Sound(S, Instances)',
         DlqProofs!Keeps(Orders, Instances), DlqProofs!KeepsHeld(Orders, Instances),
         removed \subseteq removed', removed' \subseteq removed \cup S, sent' = sent
  PROVE  QueueInv'
<1>1. DlqProofs!Sound(sent, Instances)'
  <2>1. sent' = S
    OBVIOUS
  <2> QED
    BY <2>1 DEF DlqProofs!Sound, DlqProofs!Queues
<1>2. HandlersHold'
  BY HandlersKept DEF QueueInv
<1>3. ASSUME NEW o \in sent' \ removed'
      PROVE  Stay(o)' >= 1 \/ payments'[o] # "none"
  <2>1. Stay(o)' = Stay(o)
    BY <1>3 DEF DlqProofs!Keeps, Stay
  <2>2. Stay(o) >= 1 \/ payments[o] # "none"
    BY <1>3 DEF QueueInv
  <2> QED
    BY <1>3, <2>1, <2>2 DEF PaymentsKept, QueueInv
<1> QED
  BY <1>1, <1>2, <1>3 DEF QueueInv

\* A step of a handler or a connection that leaves the queues alone.
LEMMA QueueQuiet ==
  ASSUME QueueInv, PaymentsKept, SameHandlers, UNCHANGED queueVars
  PROVE  QueueInv'
<1>1. PICK S : S = sent
  OBVIOUS
<1>2. DlqProofs!Sound(S, Instances)'
  BY <1>1 DEF QueueInv, queueVars, DlqProofs!Sound, DlqProofs!Queues, DlqProofs!Holds
<1>3. DlqProofs!KeepsHeld(Orders, Instances)
  BY DEF queueVars, DlqProofs!KeepsHeld
<1>4. DlqProofs!Keeps(Orders, Instances)
  <2>1. \A o : Stay(o)' = Stay(o)
    BY DEF queueVars, Stay, DlqProofs!Lasts, DlqProofs!Waiting, DlqProofs!Stays,
           DlqProofs!Publishing, DlqProofs!At
  <2> QED
    BY <2>1, StayType DEF DlqProofs!Keeps, Stay
<1> QED
  BY <1>1, <1>2, <1>3, <1>4, QueueStep DEF queueVars


-----------------------------------------------------------------------------
(* Steps that move the message of an instance *)

\* The others hold what they held, and a message leaves the queues only when
\* its order has a payment.
LEMMA HandlerStep ==
  ASSUME QueueInv, PaymentsKept, NEW i \in Instances,
         UNCHANGED <<sent, removed>>,
         NEW S, S = sent, DlqProofs!Sound(S, Instances)',
         \A j \in Instances \ {i} :
           /\ Busy(j)' <=> Busy(j)
           /\ order'[j] = order[j]
           /\ DlqProofs!Count(main', Mine(j)) = DlqProofs!Count(main, Mine(j))
           /\ \A o : DlqProofs!Count(main', Named(o) \cap Mine(j)) =
                       DlqProofs!Count(main, Named(o) \cap Mine(j)),
         DlqProofs!Count(main', Mine(i)) = IF Busy(i)' THEN 1 ELSE 0,
         Busy(i)' => DlqProofs!Count(main', Named(order'[i]) \cap Mine(i)) = 1,
         \A o \in Orders : Stay(o)' >= Stay(o) \/ payments[o] # "none"
  PROVE  QueueInv'
<1>1. DlqProofs!Sound(sent, Instances)'
  <2>1. sent' = S
    OBVIOUS
  <2> QED
    BY <2>1 DEF DlqProofs!Sound, DlqProofs!Queues
<1>2. HandlersHold'
  <2>1. ASSUME NEW j \in Instances
        PROVE  /\ DlqProofs!Count(main', Mine(j)) = IF Busy(j)' THEN 1 ELSE 0
               /\ Busy(j)' =>
                    DlqProofs!Count(main', Named(order'[j]) \cap Mine(j)) = 1
    <3>1. CASE j = i
      BY <3>1
    <3>2. CASE j # i
      BY <3>2 DEF QueueInv, HandlersHold
    <3> QED
      BY <3>1, <3>2
  <2> QED
    BY <2>1 DEF HandlersHold, Mine, Named
<1>3. ASSUME NEW o \in sent \ removed
      PROVE  Stay(o)' >= 1 \/ payments'[o] # "none"
  <2>1. /\ Stay(o) >= 1 \/ payments[o] # "none"
        /\ o \in Orders
    BY DEF QueueInv
  <2>2. CASE payments[o] # "none"
    BY <2>1, <2>2 DEF PaymentsKept
  <2>3. CASE payments[o] = "none"
    <3>1. Stay(o)' >= Stay(o) /\ Stay(o) >= 1
      BY <2>1, <2>3
    <3>2. Stay(o) \in Nat
      BY StayType
    <3>3. DlqProofs!Queues(S, Instances)' /\ S \subseteq Orders
      BY DEF DlqProofs!Sound, QueueInv
    <3>4. Stay(o)' \in Nat
      BY <3>3, NextStayType
    <3> QED
      BY <3>1, <3>2, <3>4
  <2> QED
    BY <2>2, <2>3
<1> QED
  BY <1>1, <1>2, <1>3 DEF QueueInv

\* The message an instance holds while its handler runs.
LEMMA HandledMessage ==
  ASSUME QueueInv, NEW i \in Instances, Busy(i)
  PROVE  LET m == DlqProofs!Held(main, i)
         IN  /\ DlqProofs!Count(main, Mine(i)) = 1
             /\ m \in DlqProofs!Messages(sent, Instances)
             /\ m \in DlqProofs!Messages(Orders, Instances)
             /\ m.holder = i /\ m.order = order[i]
<1> DEFINE m == DlqProofs!Held(main, i)
           P == Named(order[i])
<1>1. /\ DlqProofs!Count(main, Mine(i)) = 1
      /\ DlqProofs!Count(main, P \cap Mine(i)) = 1
  BY DEF QueueInv, HandlersHold
<1>2. main \in Seq(DlqProofs!Messages(Orders, Instances))
  BY StayType DEF DlqProofs!Sound, DlqProofs!Queues
<1>3. /\ m \in DlqProofs!Messages(Orders, Instances) /\ m.holder = i
      /\ DlqProofs!HeldAt(main, i) \in DOMAIN main
      /\ m = main[DlqProofs!HeldAt(main, i)]
  BY <1>1, <1>2, DlqAssumptions, DlqProofs!HeldMessage DEF Mine
<1>4. DlqProofs!Count(main, P \cap Mine(i)) = IF m \in P THEN 1 ELSE 0
  BY <1>1, <1>2, DlqAssumptions, DlqProofs!OneHeld DEF Mine
<1>5. m.order = order[i]
  BY <1>1, <1>4 DEF Named, DlqProofs!Of
<1>6. main \in Seq(DlqProofs!Messages(sent, Instances))
  BY DEF QueueInv, DlqProofs!Sound, DlqProofs!Queues
<1>7. m \in DlqProofs!Messages(sent, Instances)
  BY <1>3, <1>6
<1> QED
  BY <1>1, <1>3, <1>5, <1>7


\* Types of the workers and their connections.
WorkerTypes == Worker!TypeOK /\ link \in [Instances -> Links]

\* The dead-letter queue and its requests stay while the main queue changes.
LEMMA MainStep ==
  ASSUME NEW O, DlqProofs!Sound(O, Instances), UNCHANGED <<dlq, request>>,
         main' \in Seq(DlqProofs!Messages(O, Instances)),
         retry' \in Seq(DlqProofs!Messages(O, {}))
  PROVE  /\ DlqProofs!Sound(O, Instances)'
         /\ \A o : DlqProofs!Count(dlq', DlqProofs!Stays(Orders, o)') =
                    DlqProofs!Count(dlq, DlqProofs!Stays(Orders, o))
<1>1. DlqProofs!Queues(O, Instances)'
  BY DEF DlqProofs!Sound, DlqProofs!Queues
<1>2. /\ DlqProofs!Sound(O, Instances)'
      /\ DlqProofs!Publishing' = DlqProofs!Publishing
  BY <1>1, DlqAssumptions, DlqProofs!QuietStep
<1> QED
  BY <1>2 DEF DlqProofs!Stays

LEMMA DeliverStep ==
  ASSUME QueueInv, PaymentsKept, WorkerTypes, NEW i \in Instances, Deliver(i)
  PROVE  QueueInv'
<1>1. PICK S : S = sent
  OBVIOUS
<1>2. DlqProofs!Sound(S, Instances) /\ S \subseteq Orders
  BY <1>1 DEF QueueInv
<1>3. /\ main \in Seq(DlqProofs!Messages(S, Instances))
      /\ main \in Seq(DlqProofs!Messages(Orders, Instances))
      /\ retry \in Seq(DlqProofs!Messages(S, {}))
  BY <1>2, StayType DEF DlqProofs!Sound, DlqProofs!Queues
<1> DEFINE k == DlqProofs!FirstReady(main)
           m == [main[k] EXCEPT !.holder = i]
<1>4. PICK o \in Orders : main[k].order = o /\ Worker!Receive(i, o)
  BY SameQueues DEF Deliver
<1>5. /\ main' = DlqProofs!Hold(main, i) /\ DlqProofs!Ready(main) # {}
      /\ UNCHANGED <<retry, dlq, request, removed, sent, link>>
      /\ link[i] = "consuming" /\ step[i] = "idle"
  BY <1>4, SameQueues DEF Deliver, linkVars, Worker!Receive
<1>6. /\ step'[i] # "idle" /\ order'[i] = o
      /\ \A j \in Instances \ {i} : step'[j] = step[j] /\ order'[j] = order[j]
  BY <1>4 DEF Worker!Receive, Worker!Goto, WorkerTypes, Worker!TypeOK
<1>7. main[k].holder = Free /\ main[k] \in DlqProofs!Messages(Orders, Instances)
  BY <1>3, <1>5, DlqAssumptions, DlqProofs!FirstReadyIsReady
<1>8. /\ m \in DlqProofs!Messages(Orders, Instances)
      /\ m.holder = i /\ m.order = main[k].order
      /\ main' \in Seq(DlqProofs!Messages(Orders, Instances))
      /\ \A P : DlqProofs!Count(main', P) =
                  DlqProofs!Count(main, P) - (IF main[k] \in P THEN 1 ELSE 0)
                                           + (IF m \in P THEN 1 ELSE 0)
  BY <1>3, <1>5, DlqAssumptions, DlqProofs!HoldMessage
<1>9. main' \in Seq(DlqProofs!Messages(S, Instances))
  BY <1>3, <1>5, DlqAssumptions, DlqProofs!HoldMessage
<1> HIDE DEF k, m
<1>10. /\ DlqProofs!Sound(S, Instances)'
       /\ \A p : DlqProofs!Count(dlq', DlqProofs!Stays(Orders, p)') =
                  DlqProofs!Count(dlq, DlqProofs!Stays(Orders, p))
  BY <1>2, <1>3, <1>5, <1>9, MainStep
<1>11. ASSUME NEW j \in Instances, NEW P, P \subseteq Mine(j)
       PROVE  DlqProofs!Count(main', P) =
                DlqProofs!Count(main, P) + IF m \in P THEN 1 ELSE 0
  <2>1. main[k] \notin P
    BY <1>7, <1>11, DlqAssumptions DEF Mine, DlqProofs!By
  <2>2. DlqProofs!Count(main, P) \in Nat
    BY <1>3, DlqAssumptions, DlqProofs!CountType
  <2> QED
    BY <1>8, <2>1, <2>2
<1>12. ASSUME NEW j \in Instances \ {i}
       PROVE  /\ Busy(j)' <=> Busy(j)
              /\ DlqProofs!Count(main', Mine(j)) = DlqProofs!Count(main, Mine(j))
              /\ \A p : DlqProofs!Count(main', Named(p) \cap Mine(j)) =
                          DlqProofs!Count(main, Named(p) \cap Mine(j))
  <2>1. m \notin Mine(j)
    BY <1>8 DEF Mine, DlqProofs!By
  <2>2. \A P : DlqProofs!Count(main, P) \in Nat
    BY <1>3, DlqAssumptions, DlqProofs!CountType
  <2>3. \A p : /\ Named(p) \cap Mine(j) \subseteq Mine(j)
               /\ m \notin Named(p) \cap Mine(j)
    BY <2>1
  <2>4. Busy(j)' <=> Busy(j)
    BY <1>5, <1>6 DEF Busy
  <2> QED
    BY <1>11, <2>1, <2>2, <2>3, <2>4
<1>13. /\ Busy(i)' /\ DlqProofs!Count(main', Mine(i)) = 1
       /\ DlqProofs!Count(main', Named(order'[i]) \cap Mine(i)) = 1
  <2> DEFINE P == Named(o) \cap Mine(i)
  <2>1. DlqProofs!Count(main, Mine(i)) = 0
    BY <1>5 DEF QueueInv, HandlersHold, Busy
  <2>2. m \in Mine(i) /\ m \in P
    BY <1>4, <1>8 DEF Mine, Named, DlqProofs!By, DlqProofs!Of, k
  <2>3. DlqProofs!Count(main, P) = 0
    <3>1. \A x \in DOMAIN main : main[x] \notin Mine(i)
      BY <1>3, <2>1, DlqAssumptions, DlqProofs!CountType
    <3>2. \A x \in DOMAIN main : main[x] \notin P
      BY <3>1
    <3> HIDE DEF P
    <3> QED
      BY <1>3, <3>2, DlqAssumptions, DlqProofs!CountType
  <2>4. P \subseteq Mine(i)
    OBVIOUS
  <2> HIDE DEF P
  <2>5. DlqProofs!Count(main', P) = 1 /\ DlqProofs!Count(main', Mine(i)) = 1
    BY <1>11, <2>1, <2>2, <2>3, <2>4
  <2> QED
    BY <1>5, <1>6, <2>5 DEF Busy, P
<1>14. ASSUME NEW p
       PROVE  Stay(p)' = Stay(p)
  <2>1. main[k] \in Named(p) <=> m \in Named(p)
    BY <1>7, <1>8 DEF Named, DlqProofs!Of
  <2>2. DlqProofs!Count(main, Named(p)) \in Nat
    BY <1>3, DlqAssumptions, DlqProofs!CountType
  <2>3. DlqProofs!Count(main', Named(p)) = DlqProofs!Count(main, Named(p))
    BY <1>8, <2>1, <2>2
  <2> QED
    BY <1>5, <1>10, <2>3 DEF Stay, Named, DlqProofs!Lasts, DlqProofs!Waiting
<1> QED
  BY <1>1, <1>5, <1>6, <1>10, <1>12, <1>13, <1>14, StayType, HandlerStep

\* The message of a settled handler leaves the main queue; the other handlers
\* hold what they held.
LEMMA SettledMessage ==
  ASSUME QueueInv, WorkerTypes, NEW i \in Instances, Busy(i), Worker!Settle(i),
         UNCHANGED link, main' = Dlq!Acked(main, i)
  PROVE  /\ main' \in Seq(DlqProofs!Messages(sent, Instances))
         /\ main' \in Seq(DlqProofs!Messages(Orders, Instances))
         /\ \A P : DlqProofs!Count(main', P) =
                     DlqProofs!Count(main, P)
                       - IF DlqProofs!Held(main, i) \in P THEN 1 ELSE 0
         /\ DlqProofs!Count(main', Mine(i)) = 0 /\ ~Busy(i)'
         /\ \A j \in Instances \ {i} :
              /\ Busy(j)' <=> Busy(j)
              /\ order'[j] = order[j]
              /\ DlqProofs!Count(main', Mine(j)) = DlqProofs!Count(main, Mine(j))
              /\ \A o : DlqProofs!Count(main', Named(o) \cap Mine(j)) =
                          DlqProofs!Count(main, Named(o) \cap Mine(j))
<1> DEFINE m == DlqProofs!Held(main, i)
<1>1. /\ main \in Seq(DlqProofs!Messages(Orders, Instances))
      /\ main \in Seq(DlqProofs!Messages(sent, Instances))
  BY StayType DEF QueueInv, DlqProofs!Sound, DlqProofs!Queues
<1>2. /\ DlqProofs!Count(main, Mine(i)) = 1 /\ m.holder = i
      /\ m \in DlqProofs!Messages(Orders, Instances)
  BY HandledMessage
<1>3. /\ main' = DlqProofs!Acked(main, i)
      /\ DlqProofs!Count(main, DlqProofs!By(Orders, Instances, i)) # 0
  BY <1>2, SameQueues DEF Mine
<1>4. /\ main' \in Seq(DlqProofs!Messages(Orders, Instances))
      /\ \A P : DlqProofs!Count(main', P) =
                  DlqProofs!Count(main, P) - IF m \in P THEN 1 ELSE 0
  BY <1>1, <1>3, DlqAssumptions, DlqProofs!AckMessage
<1>5. main' \in Seq(DlqProofs!Messages(sent, Instances))
  <2>1. DlqProofs!Count(main, DlqProofs!By(sent, Instances, i)) # 0
    <3>1. sent \subseteq Orders
      BY DEF QueueInv
    <3>2. DlqProofs!Count(main, DlqProofs!By(Orders, Instances, i)) =
            DlqProofs!Count(main, DlqProofs!By(sent, Instances, i))
      BY <1>1, <3>1, DlqAssumptions, DlqProofs!WidenOrders
    <3> QED
      BY <1>3, <3>2
  <2> QED
    BY <1>1, <1>3, <2>1, DlqAssumptions, DlqProofs!AckMessage
<1> HIDE DEF m
<1>6. DlqProofs!Count(main', Mine(i)) = 0
  <2>1. m \in Mine(i)
    BY <1>2 DEF Mine, DlqProofs!By
  <2> QED
    BY <1>2, <1>4, <2>1
<1>7. /\ step'[i] = "idle"
      /\ \A j \in Instances \ {i} : step'[j] = step[j] /\ order'[j] = order[j]
  BY DEF Worker!Settle, Worker!Goto, WorkerTypes, Worker!TypeOK
<1>8. ASSUME NEW j \in Instances \ {i}
      PROVE  /\ DlqProofs!Count(main', Mine(j)) = DlqProofs!Count(main, Mine(j))
             /\ \A o : DlqProofs!Count(main', Named(o) \cap Mine(j)) =
                         DlqProofs!Count(main, Named(o) \cap Mine(j))
  <2>1. m \notin Mine(j)
    BY <1>2 DEF Mine, DlqProofs!By
  <2>2. \A P : DlqProofs!Count(main, P) \in Nat
    BY <1>1, DlqAssumptions, DlqProofs!CountType
  <2>3. \A o : m \notin Named(o) \cap Mine(j)
    BY <2>1
  <2> QED
    BY <1>4, <2>1, <2>2, <2>3
<1>9. ~Busy(i)' /\ \A j \in Instances \ {i} : Busy(j)' <=> Busy(j)
  BY <1>7 DEF Busy
<1> QED
  BY <1>4, <1>5, <1>6, <1>7, <1>8, <1>9 DEF m

\* An acked message was handled to its end, so its order has a payment.
LEMMA AckStep ==
  ASSUME QueueInv, PaymentsKept, WorkerTypes, NEW i \in Instances, Ack(i),
         payments[order[i]] # "none"
  PROVE  QueueInv'
<1>1. PICK S : S = sent
  OBVIOUS
<1>2. DlqProofs!Sound(S, Instances) /\ S \subseteq Orders
  BY <1>1 DEF QueueInv
<1>3. /\ UNCHANGED <<retry, dlq, request, removed, sent, link>>
      /\ Busy(i) /\ Worker!Settle(i) /\ main' = Dlq!Acked(main, i)
  BY DEF Ack, Ended, Busy, linkVars, Dlq!AckMain
<1> DEFINE m == DlqProofs!Held(main, i)
<1>4. /\ main' \in Seq(DlqProofs!Messages(sent, Instances))
      /\ \A P : DlqProofs!Count(main', P) =
                  DlqProofs!Count(main, P) - IF m \in P THEN 1 ELSE 0
      /\ DlqProofs!Count(main', Mine(i)) = 0 /\ ~Busy(i)'
      /\ \A j \in Instances \ {i} :
           /\ Busy(j)' <=> Busy(j)
           /\ order'[j] = order[j]
           /\ DlqProofs!Count(main', Mine(j)) = DlqProofs!Count(main, Mine(j))
           /\ \A o : DlqProofs!Count(main', Named(o) \cap Mine(j)) =
                       DlqProofs!Count(main, Named(o) \cap Mine(j))
  BY <1>3, SettledMessage
<1>5. m.order = order[i]
  BY <1>3, HandledMessage
<1> HIDE DEF m
<1>6. retry \in Seq(DlqProofs!Messages(S, {}))
  BY <1>2 DEF DlqProofs!Sound, DlqProofs!Queues
<1>7. /\ DlqProofs!Sound(S, Instances)'
      /\ \A p : DlqProofs!Count(dlq', DlqProofs!Stays(Orders, p)') =
                  DlqProofs!Count(dlq, DlqProofs!Stays(Orders, p))
  BY <1>1, <1>2, <1>3, <1>4, <1>6, MainStep
<1>8. ASSUME NEW o \in Orders, payments[o] = "none"
      PROVE  Stay(o)' = Stay(o)
  <2>1. m \notin Named(o)
    BY <1>5, <1>8 DEF Named, DlqProofs!Of
  <2>2. main \in Seq(DlqProofs!Messages(Orders, Instances))
    BY StayType DEF DlqProofs!Sound, DlqProofs!Queues
  <2>3. DlqProofs!Count(main, Named(o)) \in Nat
    BY <2>2, DlqAssumptions, DlqProofs!CountType
  <2>4. DlqProofs!Count(main', Named(o)) = DlqProofs!Count(main, Named(o))
    BY <1>4, <2>1, <2>3
  <2> QED
    BY <1>3, <1>7, <2>4 DEF Stay, Named, DlqProofs!Lasts, DlqProofs!Waiting
<1>9. \A o \in Orders : Stay(o)' >= Stay(o) \/ payments[o] # "none"
  BY <1>8, StayType
<1> QED
  BY <1>1, <1>3, <1>4, <1>7, <1>9, HandlerStep

\* A rejected message dies into the retry queue.
LEMMA NackStep ==
  ASSUME QueueInv, PaymentsKept, WorkerTypes, NEW i \in Instances, Nack(i)
  PROVE  QueueInv'
<1>1. PICK S : S = sent
  OBVIOUS
<1>2. DlqProofs!Sound(S, Instances) /\ S \subseteq Orders
  BY <1>1 DEF QueueInv
<1> DEFINE m == DlqProofs!Held(main, i)
           d == DlqProofs!Died(m, "rejected")
<1>3. /\ UNCHANGED <<dlq, request, removed, sent, link>>
      /\ Busy(i) /\ Worker!Settle(i) /\ main' = Dlq!Acked(main, i)
      /\ retry' = Append(retry, d)
  BY SameQueues DEF Nack, Ended, Busy, linkVars, Dlq!RejectMain
<1>4. /\ main' \in Seq(DlqProofs!Messages(sent, Instances))
      /\ \A P : DlqProofs!Count(main', P) =
                  DlqProofs!Count(main, P) - IF m \in P THEN 1 ELSE 0
      /\ DlqProofs!Count(main', Mine(i)) = 0 /\ ~Busy(i)'
      /\ \A j \in Instances \ {i} :
           /\ Busy(j)' <=> Busy(j)
           /\ order'[j] = order[j]
           /\ DlqProofs!Count(main', Mine(j)) = DlqProofs!Count(main, Mine(j))
           /\ \A o : DlqProofs!Count(main', Named(o) \cap Mine(j)) =
                       DlqProofs!Count(main, Named(o) \cap Mine(j))
  BY <1>3, SettledMessage
<1>5. /\ m \in DlqProofs!Messages(Orders, Instances)
      /\ m \in DlqProofs!Messages(S, Instances)
  BY <1>1, <1>3, HandledMessage
<1>6. "rejected" \in DlqProofs!Reasons
  BY DEF DlqProofs!Reasons
<1>7. d \in DlqProofs!Messages(Orders, {}) /\ d.order = m.order
  BY <1>5, <1>6, DlqAssumptions, DlqProofs!DiedMessage
<1>8. d \in DlqProofs!Messages(S, {})
  BY <1>5, <1>6, DlqAssumptions, DlqProofs!DiedMessage
<1> HIDE DEF m, d
<1>9. /\ retry \in Seq(DlqProofs!Messages(S, {}))
      /\ retry \in Seq(DlqProofs!Messages(Orders, {}))
      /\ main \in Seq(DlqProofs!Messages(Orders, Instances))
  BY <1>2, StayType DEF DlqProofs!Sound, DlqProofs!Queues
<1>10. retry' \in Seq(DlqProofs!Messages(S, {}))
  BY <1>3, <1>8, <1>9
<1>11. /\ DlqProofs!Sound(S, Instances)'
       /\ \A p : DlqProofs!Count(dlq', DlqProofs!Stays(Orders, p)') =
                   DlqProofs!Count(dlq, DlqProofs!Stays(Orders, p))
  BY <1>1, <1>2, <1>3, <1>4, <1>10, MainStep
<1>12. \A P : DlqProofs!Count(retry', P) =
                DlqProofs!Count(retry, P) + IF d \in P THEN 1 ELSE 0
  BY <1>3, <1>7, <1>9, DlqAssumptions, DlqProofs!CountAppend
<1>13. ASSUME NEW o
       PROVE  Stay(o)' = Stay(o)
  <2> DEFINE W == DlqProofs!Of(Orders, {}, o)
  <2>1. m \in Named(o) <=> d \in W
    BY <1>5, <1>7 DEF Named, DlqProofs!Of
  <2>2. DlqProofs!Count(main, Named(o)) \in Nat /\ DlqProofs!Count(retry, W) \in Nat
    BY <1>9, DlqAssumptions, DlqProofs!CountType
  <2> HIDE DEF W
  <2>3. DlqProofs!Count(main', Named(o)) + DlqProofs!Count(retry', W) =
          DlqProofs!Count(main, Named(o)) + DlqProofs!Count(retry, W)
    <3>1. /\ DlqProofs!Count(main', Named(o)) = DlqProofs!Count(main, Named(o))
                                                  - IF m \in Named(o) THEN 1 ELSE 0
          /\ DlqProofs!Count(retry', W) = DlqProofs!Count(retry, W)
                                            + IF d \in W THEN 1 ELSE 0
      BY <1>4, <1>12
    <3> QED
      BY <2>1, <2>2, <3>1
  <2> QED
    BY <1>11, <2>3 DEF W, Stay, Named, DlqProofs!Lasts, DlqProofs!Waiting
<1>14. \A o \in Orders : Stay(o)' >= Stay(o) \/ payments[o] # "none"
  BY <1>13, StayType
<1> QED
  BY <1>1, <1>3, <1>4, <1>11, <1>14, HandlerStep

\* A message dead-lettered by its handler is ready in the dead-letter queue.
LEMMA DeadLetterStep ==
  ASSUME QueueInv, PaymentsKept, WorkerTypes, NEW i \in Instances, DeadLetter(i)
  PROVE  QueueInv'
<1>1. PICK S : S = sent
  OBVIOUS
<1>2. DlqProofs!Sound(S, Instances) /\ S \subseteq Orders
  BY <1>1 DEF QueueInv
<1> DEFINE m == DlqProofs!Held(main, i)
           f == DlqProofs!Freed(m)
<1>3. /\ UNCHANGED <<retry, request, removed, sent, link>>
      /\ Busy(i) /\ Worker!Settle(i) /\ main' = Dlq!Acked(main, i)
      /\ dlq' = Append(dlq, f)
  BY SameQueues DEF DeadLetter, Ended, Busy, linkVars, Dlq!MoveToDlq
<1>4. /\ main' \in Seq(DlqProofs!Messages(sent, Instances))
      /\ \A P : DlqProofs!Count(main', P) =
                  DlqProofs!Count(main, P) - IF m \in P THEN 1 ELSE 0
      /\ DlqProofs!Count(main', Mine(i)) = 0 /\ ~Busy(i)'
      /\ \A j \in Instances \ {i} :
           /\ Busy(j)' <=> Busy(j)
           /\ order'[j] = order[j]
           /\ DlqProofs!Count(main', Mine(j)) = DlqProofs!Count(main, Mine(j))
           /\ \A o : DlqProofs!Count(main', Named(o) \cap Mine(j)) =
                       DlqProofs!Count(main, Named(o) \cap Mine(j))
  BY <1>3, SettledMessage
<1>5. /\ m \in DlqProofs!Messages(Orders, Instances)
      /\ m \in DlqProofs!Messages(S, Instances)
  BY <1>1, <1>3, HandledMessage
<1>6. /\ f \in DlqProofs!Messages(Orders, Requests)
      /\ f \in DlqProofs!Messages(S, Requests)
      /\ f.order = m.order /\ f.holder = Free
  BY <1>5 DEF DlqProofs!Messages, DlqProofs!Freed
<1> HIDE DEF m, f
<1>7. /\ retry \in Seq(DlqProofs!Messages(S, {}))
      /\ dlq \in Seq(DlqProofs!Messages(S, Requests))
      /\ dlq \in Seq(DlqProofs!Messages(Orders, Requests))
      /\ main \in Seq(DlqProofs!Messages(Orders, Instances))
  BY <1>2, StayType DEF DlqProofs!Sound, DlqProofs!Queues
<1>8. /\ dlq' \in Seq(DlqProofs!Messages(S, Requests))
      /\ \A P : DlqProofs!Count(dlq', P) =
                  DlqProofs!Count(dlq, P) + IF f \in P THEN 1 ELSE 0
  BY <1>3, <1>6, <1>7, DlqAssumptions, DlqProofs!CountAppend
<1>9. DlqProofs!Sound(S, Instances)' /\ DlqProofs!Publishing' = DlqProofs!Publishing
  <2>1. DlqProofs!Queues(S, Instances)'
    BY <1>1, <1>3, <1>4, <1>7, <1>8 DEF DlqProofs!Queues
  <2>2. ASSUME NEW r \in Requests
        PROVE  DlqProofs!Count(dlq', DlqProofs!By(S, Requests, r)) =
                 DlqProofs!Count(dlq, DlqProofs!By(S, Requests, r))
    <3> DEFINE P == DlqProofs!By(S, Requests, r)
    <3>1. f \notin P
      BY <1>6, DlqAssumptions DEF DlqProofs!By
    <3>2. DlqProofs!Count(dlq, P) \in Nat
      BY <1>7, DlqAssumptions, DlqProofs!CountType
    <3> HIDE DEF P
    <3>3. DlqProofs!Count(dlq', P) = DlqProofs!Count(dlq, P)
      BY <1>8, <3>1, <3>2
    <3> QED
      BY <3>3 DEF P
  <2>3. UNCHANGED request
    BY <1>3
  <2> QED
    BY <1>2, <2>1, <2>2, <2>3, DlqAssumptions, DlqProofs!QuietStep
<1>10. ASSUME NEW o
       PROVE  Stay(o)' = Stay(o)
  <2> DEFINE R == DlqProofs!Stays(Orders, o)
             W == DlqProofs!Count(retry, DlqProofs!Of(Orders, {}, o))
  <2>1. m \in Named(o) <=> f \in R
    BY <1>5, <1>6, DlqAssumptions
       DEF Named, DlqProofs!Of, DlqProofs!Stays, DlqProofs!Publishing
  <2>2. /\ DlqProofs!Count(main, Named(o)) \in Nat
        /\ DlqProofs!Count(dlq, R) \in Nat
    BY <1>7, DlqAssumptions, DlqProofs!CountType
  <2>3. W \in Nat
    BY StayType, DlqAssumptions, DlqProofs!CountType
       DEF DlqProofs!Sound, DlqProofs!Queues
  <2>4. R' = R
    BY <1>9 DEF DlqProofs!Stays
  <2>5. W' = W
    BY <1>3
  <2> HIDE DEF R, W
  <2>6. DlqProofs!Count(main', Named(o)) + W + DlqProofs!Count(dlq', R) =
          DlqProofs!Count(main, Named(o)) + W + DlqProofs!Count(dlq, R)
    <3>1. /\ DlqProofs!Count(main', Named(o)) = DlqProofs!Count(main, Named(o))
                                                  - IF m \in Named(o) THEN 1 ELSE 0
          /\ DlqProofs!Count(dlq', R) = DlqProofs!Count(dlq, R)
                                          + IF f \in R THEN 1 ELSE 0
      BY <1>4, <1>8
    <3> QED
      BY <2>1, <2>2, <2>3, <3>1
  <2>7. Stay(o) = DlqProofs!Count(main, Named(o)) + W + DlqProofs!Count(dlq, R)
    BY DEF R, W, Stay, Named, DlqProofs!Lasts, DlqProofs!Waiting
  <2>8. Stay(o)' = DlqProofs!Count(main', Named(o)) + W + DlqProofs!Count(dlq', R)
    <3>1. Stay(o)' = DlqProofs!Count(main', Named(o)) + W' + DlqProofs!Count(dlq', R')
      BY DEF R, W, Stay, Named, DlqProofs!Lasts, DlqProofs!Waiting
    <3> QED
      BY <2>4, <2>5, <3>1
  <2> QED
    BY <2>6, <2>7, <2>8
<1>11. \A o \in Orders : Stay(o)' >= Stay(o) \/ payments[o] # "none"
  BY <1>10, StayType
<1> QED
  BY <1>1, <1>3, <1>4, <1>9, <1>11, HandlerStep

-----------------------------------------------------------------------------
(* Steps of a connection, of a request and of the broker *)

\* A lost channel or a crash: the message of the instance and those of the
\* requests it serves are ready again, and the requests fail.  The message of
\* the instance may have been published to the dead-letter queue as well.
LEMMA ReleaseStep ==
  ASSUME QueueInv, PaymentsKept, NEW i \in Instances, ~Busy(i)',
         main' = Dlq!Release(main, {i}), Dlq!FailRequests(HostedBy(i)),
         \/ dlq' = Dlq!Release(dlq, HostedBy(i))
         \/ /\ Busy(i)
            /\ dlq' = Append(Dlq!Release(dlq, HostedBy(i)), Dlq!Freed(Dlq!Held(main, i))),
         UNCHANGED retry,
         \A j \in Instances \ {i} :
           /\ Busy(j)' <=> Busy(j)
           /\ order'[j] = order[j]
  PROVE  QueueInv'
<1>1. PICK S : S = sent
  OBVIOUS
<1>2. DlqProofs!Sound(S, Instances) /\ DlqProofs!Sound(Orders, Instances)
  BY <1>1, StayType DEF QueueInv
<1>3. /\ main \in Seq(DlqProofs!Messages(S, Instances))
      /\ main \in Seq(DlqProofs!Messages(Orders, Instances))
      /\ retry \in Seq(DlqProofs!Messages(S, {}))
      /\ retry \in Seq(DlqProofs!Messages(Orders, {}))
  BY <1>2 DEF DlqProofs!Sound, DlqProofs!Queues
<1>4. /\ main' = DlqProofs!Release(main, {i})
      /\ DlqProofs!FailRequests(HostedBy(i)) /\ HostedBy(i) \subseteq Requests
      /\ UNCHANGED <<removed, sent>>
  BY SameQueues, SameOperate DEF HostedBy, Dlq!FailRequests
<1>5. Free \notin {i}
  BY DlqAssumptions
<1>6. /\ main' \in Seq(DlqProofs!Messages(Orders, Instances))
      /\ DOMAIN main' = DOMAIN main
      /\ \A k \in DOMAIN main :
           /\ main'[k].order = main[k].order
           /\ main[k].holder \notin {i} => main'[k] = main[k]
           /\ main[k].holder \in {i} => main'[k].holder = Free
  <2> DEFINE q == DlqProofs!Release(main, {i})
  <2>1. /\ q \in Seq(DlqProofs!Messages(Orders, Instances))
        /\ DOMAIN q = DOMAIN main
        /\ \A k \in DOMAIN main :
             /\ q[k].order = main[k].order
             /\ q[k] = main[k] \/ q[k].holder = Free
             /\ main[k].holder \notin {i} => q[k] = main[k]
             /\ main[k].holder \in {i} => q[k].holder = Free
    BY <1>3, DlqAssumptions, DlqProofs!ReleaseMessages
  <2> HIDE DEF q
  <2>2. main' = q
    BY <1>4 DEF q
  <2> QED
    BY <2>1, <2>2
<1>7. main' \in Seq(DlqProofs!Messages(S, Instances))
  BY <1>3, <1>4, DlqAssumptions, DlqProofs!ReleaseMessages
<1>8. \A o : DlqProofs!Waiting(Orders, Instances, o)' =
               DlqProofs!Waiting(Orders, Instances, o)
  <2>1. \A o : DlqProofs!Count(main', DlqProofs!Of(Orders, Instances, o)) =
                 DlqProofs!Count(main, DlqProofs!Of(Orders, Instances, o))
    BY <1>3, <1>4, <1>5, DlqAssumptions, DlqProofs!ReleaseCounts
  <2> QED
    BY <2>1 DEF DlqProofs!Waiting
<1>9. \A o : DlqProofs!Waiting(S, Instances, o)' =
               DlqProofs!Waiting(S, Instances, o)
  <2>1. \A o : DlqProofs!Count(main', DlqProofs!Of(S, Instances, o)) =
                 DlqProofs!Count(main, DlqProofs!Of(S, Instances, o))
    BY <1>3, <1>4, <1>5, DlqAssumptions, DlqProofs!ReleaseCounts
  <2> QED
    BY <2>1 DEF DlqProofs!Waiting
<1>10. /\ DlqProofs!Extends(S, DlqProofs!Release(dlq, HostedBy(i)))
       /\ DlqProofs!Extends(Orders, DlqProofs!Release(dlq, HostedBy(i)))
  <2> DEFINE f == DlqProofs!Freed(DlqProofs!Held(main, i))
             q == DlqProofs!Release(dlq, HostedBy(i))
  <2>1. Busy(i) => /\ f \in DlqProofs!Messages(S, Requests)
                   /\ f \in DlqProofs!Messages(Orders, Requests)
                   /\ f.holder = Free
    BY <1>1, HandledMessage DEF DlqProofs!Messages, DlqProofs!Freed
  <2>2. dlq' = q \/ (Busy(i) /\ dlq' = Append(q, f))
    BY SameQueues
  <2> HIDE DEF f, q
  <2>3. DlqProofs!Extends(S, q) /\ DlqProofs!Extends(Orders, q)
    BY <2>1, <2>2 DEF DlqProofs!Extends
  <2> QED
    BY <2>3 DEF q
<1>11. DlqProofs!Sound(S, Instances)'
  <2>1. retry' \in Seq(DlqProofs!Messages(S, {}))
    BY <1>3
  <2> QED
    BY <1>2, <1>4, <1>7, <1>9, <1>10, <2>1, DlqAssumptions, DlqProofs!AbortStep
<1>12. \A o : Stay(o) <= Stay(o)'
  <2>1. retry' \in Seq(DlqProofs!Messages(Orders, {}))
    BY <1>3
  <2>2. \A o : DlqProofs!Lasts(Orders, Instances, o) <=
                 DlqProofs!Lasts(Orders, Instances, o)'
    BY <1>2, <1>4, <1>6, <1>8, <1>10, <2>1, DlqAssumptions, DlqProofs!AbortStep
  <2> QED
    BY <2>2 DEF Stay
<1>13. DlqProofs!Count(main', Mine(i)) = 0
  BY <1>3, <1>4, <1>5, DlqAssumptions, DlqProofs!ReleaseCounts DEF Mine
<1>14. ASSUME NEW j \in Instances \ {i}
       PROVE  /\ DlqProofs!Count(main', Mine(j)) = DlqProofs!Count(main, Mine(j))
              /\ \A o : DlqProofs!Count(main', Named(o) \cap Mine(j)) =
                          DlqProofs!Count(main, Named(o) \cap Mine(j))
  <2>1. ASSUME NEW P, P \subseteq Mine(j)
        PROVE  DlqProofs!Count(main', P) = DlqProofs!Count(main, P)
    <3>1. \A k \in DOMAIN main' : main'[k] \in P <=> main[k] \in P
      BY <1>6, <1>14, <2>1, DlqAssumptions DEF Mine, DlqProofs!By
    <3>2. {k \in DOMAIN main' : main'[k] \in P} = {k \in DOMAIN main : main[k] \in P}
      BY <1>6, <3>1
    <3> QED
      BY <3>2 DEF DlqProofs!Count
  <2>2. \A o : Named(o) \cap Mine(j) \subseteq Mine(j)
    OBVIOUS
  <2> QED
    BY <2>1, <2>2
<1>15. \A o \in Orders : Stay(o)' >= Stay(o) \/ payments[o] # "none"
  <2>1. \A o : Stay(o)' \in Nat /\ Stay(o) \in Nat
    BY <1>1, <1>11, StayType, NextStayType DEF DlqProofs!Sound, QueueInv
  <2> QED
    BY <1>12, <2>1
<1> QED
  BY <1>1, <1>4, <1>11, <1>13, <1>14, <1>15, HandlerStep

\* A step of a request to the dlq controller.
LEMMA OperateStep ==
  ASSUME QueueInv, PaymentsKept, SameHandlers, NEW r \in Requests,
         DlqProofs!Operate(r)
  PROVE  QueueInv'
<1>1. PICK S : S = sent
  OBVIOUS
<1>2. DlqProofs!Sound(S, Instances) /\ DlqProofs!Sound(Orders, Instances)
  BY <1>1, StayType DEF QueueInv
<1>3. DlqProofs!Keeps(Orders, Instances) /\ DlqProofs!KeepsHeld(Orders, Instances)
  BY <1>2, DlqAssumptions, DlqProofs!RequestStep
<1>4. /\ DlqProofs!Sound(S, Instances)'
      /\ removed \subseteq removed' /\ removed' \subseteq removed \cup S
      /\ sent' = sent
  BY <1>2, DlqAssumptions, DlqProofs!RequestStep
<1> QED
  BY <1>1, <1>3, <1>4, QueueStep

LEMMA ExpiryStep ==
  ASSUME QueueInv, PaymentsKept, SameHandlers, Expire \/ ExpireDlq
  PROVE  QueueInv'
<1>1. PICK S : S = sent
  OBVIOUS
<1>2. DlqProofs!Sound(S, Instances) /\ DlqProofs!Sound(Orders, Instances)
  BY <1>1, StayType DEF QueueInv
<1>3. DlqProofs!MessageDies \/ DlqProofs!DlqExpires
  BY SameBroker DEF Expire, ExpireDlq
<1>4. DlqProofs!Keeps(Orders, Instances) /\ DlqProofs!KeepsHeld(Orders, Instances)
  BY <1>2, <1>3, DlqAssumptions, DlqProofs!BrokerStep
<1>5. /\ DlqProofs!Sound(S, Instances)'
      /\ removed \subseteq removed' /\ removed' \subseteq removed \cup S
      /\ sent' = sent
  BY <1>2, <1>3, DlqAssumptions, DlqProofs!BrokerStep
<1> QED
  BY <1>1, <1>4, <1>5, QueueStep

\* A published order has one lasting message more.
LEMMA PublicationStep ==
  ASSUME QueueInv, PaymentsKept, SameHandlers, NEW o \in Orders, Publish(o)
  PROVE  QueueInv'
<1>1. PICK T : T = sent \cup {o}
  OBVIOUS
<1>2. /\ o \in T /\ T \subseteq Orders /\ sent \subseteq T
      /\ removed \subseteq sent /\ sent \subseteq Orders
  BY <1>1 DEF QueueInv
<1>3. DlqProofs!Sound(Orders, Instances) /\ DlqProofs!Sound(T, Instances)
  BY <1>2, StayType, DlqAssumptions, DlqProofs!SoundWiden DEF QueueInv
<1>4. /\ DlqProofs!PublishMain(o) /\ UNCHANGED <<dlq, request, removed>>
      /\ sent' = T
  BY <1>1, SamePublish DEF Publish, Dlq!Publish
<1>5. DlqProofs!Sound(T, Instances)'
  BY <1>2, <1>3, <1>4, DlqAssumptions, DlqProofs!PublishStep
<1>6. /\ DlqProofs!KeepsHeld(Orders, Instances)
      /\ \A p : Stay(p)' = Stay(p) + IF p = o THEN 1 ELSE 0
  <2>1. /\ DlqProofs!KeepsHeld(Orders, Instances)
        /\ \A p : DlqProofs!Lasts(Orders, Instances, p)' =
                    DlqProofs!Lasts(Orders, Instances, p) + IF p = o THEN 1 ELSE 0
    BY <1>3, <1>4, DlqAssumptions, DlqProofs!PublishStep
  <2> QED
    BY <2>1 DEF Stay
<1>7. HandlersHold'
  BY <1>6, HandlersKept DEF QueueInv
<1>8. DlqProofs!Sound(sent, Instances)'
  BY <1>4, <1>5 DEF DlqProofs!Sound, DlqProofs!Queues
<1>9. ASSUME NEW p \in sent' \ removed'
      PROVE  Stay(p)' >= 1 \/ payments'[p] # "none"
  <2>1. Stay(p) \in Nat /\ Stay(p)' = Stay(p) + IF p = o THEN 1 ELSE 0
    BY <1>6, StayType
  <2>2. CASE p = o
    BY <2>1, <2>2
  <2>3. CASE p # o
    <3>1. p \in sent \ removed
      BY <1>1, <1>4, <2>3
    <3>2. Stay(p) >= 1 \/ payments[p] # "none"
      BY <3>1 DEF QueueInv
    <3> QED
      BY <1>2, <2>1, <2>3, <3>1, <3>2 DEF PaymentsKept
  <2> QED
    BY <2>2, <2>3
<1> QED
  BY <1>2, <1>4, <1>7, <1>8, <1>9 DEF QueueInv

-----------------------------------------------------------------------------
(* The workers *)

\* A payment that was registered stays registered.
LEMMA RowsStay ==
  ASSUME Worker!TypeOK, [Worker!Next]_(Worker!vars)
  PROVE  PaymentsKept
<1> USE DEF Worker!TypeOK, PaymentsKept
<1>1. CASE UNCHANGED Worker!vars
  BY <1>1 DEF Worker!vars
<1>2. ASSUME NEW i \in Instances, Worker!Handle(i)
      PROVE  PaymentsKept
  <2>1. \A o : Worker!Decision(o) # "none"
    BY DEF Worker!Decision
  <2> QED
    BY <1>2, <2>1
       DEF Worker!Handle, Worker!Lookup, Worker!SavePending, Worker!Charge,
           Worker!SaveOutcome, Worker!DatabaseError, Worker!Written
<1>3. ASSUME NEW i \in Instances,
             (\E o \in Orders : Worker!Receive(i, o)) \/ Worker!Settle(i)
               \/ Worker!Crash(i) \/ Worker!Restart(i)
      PROVE  PaymentsKept
  BY <1>3 DEF Worker!Receive, Worker!Settle, Worker!Crash, Worker!Restart
<1> QED
  BY <1>1, <1>2, <1>3 DEF Worker!Next

\* What a handler is at follows from its connection.
Linked ==
  /\ HandlersAgree
  /\ link \in [Instances -> Links]
  /\ bound \in BOOLEAN
  /\ faults \in 0 .. MaxFaults

\* A step that touches the handlers only as the payments service does.
LEMMA HandleKeepsLinked ==
  ASSUME Worker!TypeOK, Linked, PaymentsKept, NEW i \in Instances, Handle(i)
  PROVE  Linked'
<1> USE DEF Worker!TypeOK, Linked, HandlersAgree, Links, linkVars, Worker!Goto
<1>1. /\ UNCHANGED <<link, bound, faults, order>>
      /\ step[i] \in {"lookup", "insert", "charge", "update"}
      /\ \A j \in Instances \ {i} : step'[j] = step[j]
      /\ step'[i] \in {"insert", "charge", "update", "returned", "failed"}
  BY DEF Handle, Worker!Handle, Worker!Lookup, Worker!SavePending,
         Worker!Charge, Worker!SaveOutcome, Worker!DatabaseError
<1>2. step'[i] \in {"charge", "update", "returned"} => payments'[order[i]] # "none"
  <2>1. order[i] \in Orders /\ Worker!Decision(order[i]) # "none"
    BY <1>1 DEF Worker!Decision
  <2>2. CASE Worker!Lookup(i)
    BY <1>1, <2>1, <2>2 DEF Worker!Lookup
  <2>3. CASE Worker!SavePending(i)
    BY <1>1, <2>1, <2>3 DEF Worker!SavePending
  <2>4. CASE Worker!Charge(i)
    BY <1>1, <2>1, <2>4 DEF Worker!Charge
  <2>5. CASE Worker!SaveOutcome(i)
    BY <1>1, <2>1, <2>5 DEF Worker!SaveOutcome
  <2>6. CASE Worker!DatabaseError(i)
    BY <1>1, <2>6 DEF Worker!DatabaseError
  <2> QED
    BY <2>2, <2>3, <2>4, <2>5, <2>6 DEF Handle, Worker!Handle
<1>3. \A j \in Instances : step[j] \in {"charge", "update", "returned"} =>
                              order[j] \in Orders /\ payments'[order[j]] # "none"
  BY DEF PaymentsKept
<1> QED
  BY <1>1, <1>2, <1>3

LEMMA LinkedStep ==
  ASSUME Worker!TypeOK, Linked, [Next]_vars
  PROVE  Linked'
<1>1. PaymentsKept
  BY WorkerStep, RowsStay
<1>2. \A j \in Instances : step[j] \in {"charge", "update", "returned"} =>
                              order[j] \in Orders /\ payments'[order[j]] # "none"
  BY <1>1 DEF PaymentsKept, Linked, HandlersAgree
<1> USE MaxFaultsAssumption
        DEF Worker!TypeOK, Linked, HandlersAgree, Links, SetLink, Fault,
            workerVars, linkVars, Worker!Goto
<1>3. ASSUME NEW i \in Instances, Connection(i)
      PROVE  Linked'
  <2>1. CASE Connect(i)
    BY <2>1 DEF Connect
  <2>2. CASE GiveUp(i)
    BY <2>2 DEF GiveUp
  <2>3. CASE ConnectLate(i)
    BY <2>3 DEF ConnectLate
  <2>4. CASE ConnectFails(i)
    BY <2>4 DEF ConnectFails
  <2>5. CASE LoseChannel(i)
    BY <2>5 DEF LoseChannel
  <2>6. CASE Crash(i)
    BY <2>6 DEF Crash, Worker!Crash
  <2>7. CASE Restart(i)
    BY <2>7 DEF Restart, Worker!Restart
  <2>8. CASE LoseSettlement(i)
    BY <2>8 DEF LoseSettlement, Worker!Settle
  <2> QED
    BY <1>3, <2>1, <2>2, <2>3, <2>4, <2>5, <2>6, <2>7, <2>8 DEF Connection
<1>4. ASSUME NEW i \in Instances, Deliver(i)
      PROVE  Linked'
  BY <1>2, <1>4 DEF Deliver, Worker!Receive
<1>5. ASSUME NEW i \in Instances, Consume(i)
      PROVE  Linked'
  <2>1. CASE Handle(i)
    BY <1>1, <2>1, HandleKeepsLinked
  <2>2. CASE Ack(i) \/ Nack(i) \/ DeadLetter(i)
    BY <2>2 DEF Ack, Nack, DeadLetter, Ended, Worker!Settle
  <2>3. CASE SettleOnClosedChannel(i)
    BY <2>3 DEF SettleOnClosedChannel, Worker!Crash
  <2> QED
    BY <1>5, <2>1, <2>2, <2>3 DEF Consume
<1>6. ASSUME NEW r \in Requests, DlqStep(r) \/ DlqRefused(r)
      PROVE  Linked'
  BY <1>6 DEF DlqStep, DlqRefused
<1>7. ASSUME NEW r \in Requests, DlqUndeclared(r)
      PROVE  Linked'
  <2>1. Host[r] \in Instances
    BY HostAssumption
  <2>2. link[Host[r]] = "open"
    BY <1>7, <2>1 DEF DlqUndeclared, Reachable
  <2> QED
    BY <1>7, <2>1, <2>2 DEF DlqUndeclared
<1>8. CASE (\E o \in Orders : Publish(o)) \/ Expire \/ ExpireDlq \/ UNCHANGED vars
  BY <1>8 DEF Publish, Expire, ExpireDlq, vars
<1> QED
  BY <1>3, <1>4, <1>5, <1>6, <1>7, <1>8 DEF Next

-----------------------------------------------------------------------------
(* The invariant holds *)

LEMMA QueueInvStep ==
  ASSUME QueueInv, Worker!TypeOK, Linked, [Next]_vars
  PROVE  QueueInv'
<1>1. PaymentsKept
  BY WorkerStep, RowsStay
<1>2. WorkerTypes
  BY DEF WorkerTypes, Linked
\* What the handlers hold does not change with the link of an idle one.
<1>3. ASSUME UNCHANGED <<step, order, link>>
      PROVE  SameHandlers
  BY <1>3 DEF SameHandlers, Busy
<1>4. ASSUME NEW i \in Instances,
             Connect(i) \/ GiveUp(i) \/ ConnectLate(i) \/ ConnectFails(i)
               \/ Restart(i) \/ SettleOnClosedChannel(i)
      PROVE  QueueInv'
  <2>1. UNCHANGED queueVars
    BY <1>4 DEF Connect, GiveUp, ConnectLate, ConnectFails, Restart,
                SettleOnClosedChannel
  <2>2. SameHandlers
    <3> USE DEF SameHandlers, Busy, SetLink, WorkerTypes, Worker!TypeOK,
                Worker!Goto, workerVars, Linked, HandlersAgree
    <3>1. CASE Connect(i) \/ GiveUp(i) \/ ConnectLate(i) \/ ConnectFails(i)
      BY <1>2, <3>1 DEF Connect, GiveUp, ConnectLate, ConnectFails
    <3>2. CASE Restart(i)
      BY <1>2, <3>2 DEF Restart, Worker!Restart
    <3>3. CASE SettleOnClosedChannel(i)
      BY <1>2, <3>3 DEF SettleOnClosedChannel, Worker!Crash
    <3> QED
      BY <1>4, <3>1, <3>2, <3>3
  <2> QED
    BY <1>1, <2>1, <2>2, QueueQuiet
<1>5. ASSUME NEW i \in Instances, LoseChannel(i) \/ LoseSettlement(i) \/ Crash(i)
      PROVE  QueueInv'
  <2>1. /\ main' = Dlq!Release(main, {i}) /\ Dlq!FailRequests(HostedBy(i))
        /\ \/ dlq' = Dlq!Release(dlq, HostedBy(i))
           \/ /\ Busy(i)
              /\ dlq' = Append(Dlq!Release(dlq, HostedBy(i)),
                               Dlq!Freed(Dlq!Held(main, i)))
        /\ UNCHANGED retry
    BY <1>5 DEF LoseChannel, LoseSettlement, Crash, Dlq!Abort, Ended, Busy
  <2>2. /\ ~Busy(i)'
        /\ \A j \in Instances \ {i} : (Busy(j)' <=> Busy(j)) /\ order'[j] = order[j]
    BY <1>2, <1>5
       DEF LoseChannel, LoseSettlement, Crash, Worker!Crash, Worker!Settle,
           Worker!Goto, SetLink, workerVars, Busy, WorkerTypes, Worker!TypeOK
  <2> QED
    BY <1>1, <2>1, <2>2, ReleaseStep
<1>6. ASSUME NEW i \in Instances, Deliver(i)
      PROVE  QueueInv'
  BY <1>1, <1>2, <1>6, DeliverStep
<1>7. ASSUME NEW i \in Instances, Handle(i)
      PROVE  QueueInv'
  <2>1. SameHandlers
    BY <1>2, <1>7
       DEF Handle, Worker!Handle, Worker!Lookup, Worker!SavePending,
           Worker!Charge, Worker!SaveOutcome, Worker!DatabaseError,
           Worker!Goto, linkVars, SameHandlers, Busy, WorkerTypes, Worker!TypeOK
  <2>2. UNCHANGED queueVars
    BY <1>7 DEF Handle
  <2> QED
    BY <1>1, <2>1, <2>2, QueueQuiet
<1>8. ASSUME NEW i \in Instances, Ack(i)
      PROVE  QueueInv'
  <2>1. payments[order[i]] # "none"
    BY <1>8 DEF Ack, Ended, Linked, HandlersAgree
  <2> QED
    BY <1>1, <1>2, <1>8, <2>1, AckStep
<1>9. ASSUME NEW i \in Instances, Nack(i) \/ DeadLetter(i)
      PROVE  QueueInv'
  BY <1>1, <1>2, <1>9, NackStep, DeadLetterStep
<1>10. ASSUME NEW r \in Requests, DlqStep(r) \/ DlqRefused(r)
       PROVE  QueueInv'
  <2>1. SameHandlers
    BY <1>3, <1>10 DEF DlqStep, DlqRefused, workerVars, linkVars
  <2>2. DlqProofs!Operate(r)
    BY <1>10, SameOperate, Zenon
       DEF DlqStep, DlqRefused, DlqProofs!Operate, Dlq!TargetedOps, Dlq!QueueOps,
           DlqProofs!TargetedOps, DlqProofs!QueueOps
  <2> QED
    BY <1>1, <2>1, <2>2, OperateStep
<1>11. ASSUME NEW r \in Requests, DlqUndeclared(r)
       PROVE  QueueInv'
  <2>1. SameHandlers
    <3>1. Host[r] \in Instances
      BY HostAssumption
    <3>2. link[Host[r]] = "open"
      BY <1>11, <3>1 DEF DlqUndeclared, Reachable, Linked, HandlersAgree
    <3> QED
      BY <1>2, <1>11, <3>1, <3>2
         DEF DlqUndeclared, SetLink, workerVars, SameHandlers, Busy, WorkerTypes
  <2>2. DlqProofs!Operate(r)
    BY <1>11, SameOperate DEF DlqUndeclared, DlqProofs!Operate
  <2> QED
    BY <1>1, <2>1, <2>2, OperateStep
<1>12. ASSUME NEW o \in Orders, Publish(o)
       PROVE  QueueInv'
  <2>1. SameHandlers
    BY <1>3, <1>12 DEF Publish, workerVars, linkVars
  <2> QED
    BY <1>1, <1>12, <2>1, PublicationStep
<1>13. CASE Expire \/ ExpireDlq
  <2>1. SameHandlers
    BY <1>3, <1>13 DEF Expire, ExpireDlq, workerVars, linkVars
  <2> QED
    BY <1>1, <1>13, <2>1, ExpiryStep
<1>14. CASE UNCHANGED vars
  <2>1. SameHandlers /\ UNCHANGED queueVars
    BY <1>3, <1>14 DEF vars, queueVars
  <2> QED
    BY <1>1, <2>1, QueueQuiet
<1> QED
  BY <1>4, <1>5, <1>6, <1>7, <1>8, <1>9, <1>10, <1>11, <1>12, <1>13, <1>14
     DEF Next, Connection, Consume

PipelineInv == QueueInv /\ Linked

LEMMA PipelineInvInit == Init => PipelineInv
<1> SUFFICES ASSUME Init
             PROVE  PipelineInv
  OBVIOUS
<1>1. /\ main = <<>> /\ retry = <<>> /\ dlq = <<>> /\ removed = {} /\ sent = {}
      /\ request = [r \in Requests |-> Dlq!NewRequest]
      /\ step = [i \in Instances |-> "idle"] /\ link = [i \in Instances |-> "booting"]
      /\ bound = FALSE /\ faults = 0
  BY DEF Init, Dlq!Init, Dlq!InitQueues, Worker!Init
<1>2. Linked
  <2>1. link \in [Instances -> Links]
    BY <1>1 DEF Links
  <2>2. faults \in 0 .. MaxFaults /\ bound \in BOOLEAN
    <3>1. faults = 0 /\ bound = FALSE
      BY <1>1
    <3>2. bound \in BOOLEAN
      BY <3>1, Zenon
    <3>3. faults \in 0 .. MaxFaults
      BY <3>1, MaxFaultsAssumption, SMT
    <3> QED
      BY <3>2, <3>3
  <2>3. HandlersAgree
    <3>1. \A i \in Instances : step[i] = "idle" /\ link[i] = "booting"
      BY <1>1
    <3> QED
      BY <3>1 DEF HandlersAgree
  <2> QED
    BY <2>1, <2>2, <2>3 DEF Linked
<1>3. \A M, P : <<>> \in Seq(M) /\ DlqProofs!Count(<<>>, P) = 0
  <2>1. \A M : <<>> \in Seq(M) /\ DOMAIN <<>> = {}
    OBVIOUS
  <2>2. \A P : {k \in DOMAIN <<>> : <<>>[k] \in P} = {}
    BY <2>1
  <2>3. DlqProofs!Cardinality({}) = 0
    BY DlqAssumptions, DlqProofs!FS_EmptySet
  <2> QED
    BY <2>1, <2>2, <2>3 DEF DlqProofs!Count
<1>4. DlqProofs!Sound(sent, Instances)
  <2>1. /\ Dlq!NewRequest \in DlqProofs!RequestStates
        /\ Dlq!NewRequest.stage = "new"
    BY DEF Dlq!NewRequest, DlqProofs!RequestStates, DlqProofs!Stages,
           DlqProofs!TargetedOps, DlqProofs!QueueOps
  <2>2. request \in [Requests -> DlqProofs!RequestStates]
    BY <1>1, <2>1
  <2>3. \A r \in Requests : ~DlqProofs!Holds(r)
    BY <1>1, <2>1 DEF DlqProofs!Holds
  <2> QED
    BY <1>1, <1>3, <2>2, <2>3 DEF DlqProofs!Sound, DlqProofs!Queues
<1>5. HandlersHold
  BY <1>1, <1>3 DEF HandlersHold, Busy
<1> QED
  BY <1>1, <1>2, <1>4, <1>5 DEF PipelineInv, QueueInv

LEMMA PipelineInvStep ==
  PipelineInv /\ Worker!TypeOK /\ [Next]_vars => PipelineInv'
BY QueueInvStep, LinkedStep DEF PipelineInv

\* The types of the workers, as one payments service keeps them.
LEMMA WorkersTyped == Spec => []Worker!TypeOK
<1>1. WorkerProofs!Spec => []WorkerProofs!IInv
  BY WorkerProofs!Invariant, ValidAssumption, AmountAssumption,
     NoOrderAssumption
<1>2. WorkerProofs!IInv => Worker!TypeOK
  BY DEF WorkerProofs!IInv, WorkerProofs!TypeOK, Worker!TypeOK,
         WorkerProofs!Statuses, Worker!Statuses, WorkerProofs!Steps,
         Worker!Steps, WorkerProofs!Working, Worker!Working
<1> QED
  BY <1>1, <1>2, SameService, PipelineImplementsService, PTL
     DEF ImplementsPaymentsService, Worker!Spec, WorkerProofs!Spec

LEMMA PipelineInvHolds == Spec => [](PipelineInv /\ Worker!TypeOK)
<1>1. Spec => [](Worker!TypeOK)
  BY WorkersTyped
<1>2. Spec => []PipelineInv
  BY <1>1, PipelineInvInit, PipelineInvStep, PTL DEF Spec
<1> QED
  BY <1>1, <1>2, PTL

-----------------------------------------------------------------------------
(* What the invariant says of the properties of the pipeline *)

LEMMA PipelineQueues ==
  ASSUME QueueInv
  PROVE  /\ main \in Seq(DlqProofs!Messages(Orders, Instances))
         /\ retry \in Seq(DlqProofs!Messages(Orders, {}))
         /\ dlq \in Seq(DlqProofs!Messages(Orders, Requests))
         /\ \A k \in DOMAIN main : main[k] \in DlqProofs!Messages(Orders, Instances)
         /\ \A k \in DOMAIN dlq : dlq[k] \in DlqProofs!Messages(Orders, Requests)
<1>1. /\ main \in Seq(DlqProofs!Messages(Orders, Instances))
      /\ retry \in Seq(DlqProofs!Messages(Orders, {}))
      /\ dlq \in Seq(DlqProofs!Messages(Orders, Requests))
  BY StayType DEF DlqProofs!Sound, DlqProofs!Queues
<1> QED
  BY <1>1

LEMMA PipelineTyped == PipelineInv /\ Worker!TypeOK => TypeOK
<1> SUFFICES ASSUME PipelineInv, Worker!TypeOK
             PROVE  TypeOK
  OBVIOUS
<1>1. \A H : Dlq!MessagesHeldBy(H) = DlqProofs!Messages(Orders, H)
  BY DEF Dlq!MessagesHeldBy, DlqProofs!Messages, Dlq!Reasons, DlqProofs!Reasons
<1>2. Dlq!RequestStates = DlqProofs!RequestStates
  BY DEF Dlq!RequestStates, DlqProofs!RequestStates, Dlq!TargetedOps,
         DlqProofs!TargetedOps, Dlq!QueueOps, DlqProofs!QueueOps,
         Dlq!Stages, DlqProofs!Stages
<1>3. request \in [Requests -> Dlq!RequestStates]
  BY <1>2 DEF PipelineInv, QueueInv, DlqProofs!Sound
<1>4. removed \subseteq sent /\ sent \subseteq Orders
  BY DEF PipelineInv, QueueInv
<1>5. /\ main \in Seq(Dlq!MessagesHeldBy(Instances))
      /\ retry \in Seq(Dlq!MessagesHeldBy({}))
      /\ dlq \in Seq(Dlq!MessagesHeldBy(Requests))
  BY <1>1, PipelineQueues DEF PipelineInv
<1> QED
  BY <1>3, <1>4, <1>5 DEF TypeOK, PipelineInv, Linked

LEMMA PipelineHandlers == QueueInv => HeldByItsHandler
<1> SUFFICES ASSUME QueueInv, NEW i \in Instances
             PROVE  LET held == {k \in DOMAIN main : main[k].holder = i}
                    IN  IF link[i] = "consuming" /\ step[i] # "idle"
                        THEN \E k \in held : held = {k} /\ main[k].order = order[i]
                        ELSE held = {}
  BY DEF HeldByItsHandler
<1> DEFINE held == {k \in DOMAIN main : main[k].holder = i}
           P == Named(order[i]) \cap Mine(i)
<1>1. held = {k \in DOMAIN main : main[k] \in Mine(i)}
  BY PipelineQueues DEF Mine, DlqProofs!By
<1>2. /\ DlqProofs!Cardinality(held) = IF Busy(i) THEN 1 ELSE 0
      /\ Busy(i) => DlqProofs!Count(main, P) = 1
  BY <1>1 DEF DlqProofs!Count, QueueInv, HandlersHold
<1>3. DlqProofs!IsFiniteSet(held)
  BY <1>1, PipelineQueues, DlqAssumptions, DlqProofs!CountType
<1>4. CASE Busy(i)
  <2>1. PICK k : held = {k}
    <3> HIDE DEF held
    <3> QED
      BY <1>2, <1>3, <1>4, DlqAssumptions, DlqProofs!FS_Singleton
  <2>2. PICK j \in DOMAIN main : main[j] \in P
    <3> HIDE DEF P
    <3>1. DlqProofs!Count(main, P) # 0
      BY <1>2, <1>4
    <3> QED
      BY <3>1, PipelineQueues, DlqAssumptions, DlqProofs!CountType
  <2>3. j \in held /\ main[j].order = order[i]
    BY <2>2 DEF Mine, Named, DlqProofs!By, DlqProofs!Of
  <2> QED
    BY <1>4, <2>1, <2>3 DEF Busy
<1>5. CASE ~Busy(i)
  <2>1. DlqProofs!Count(main, Mine(i)) = 0
    BY <1>5 DEF QueueInv, HandlersHold
  <2>2. \A k \in DOMAIN main : main[k] \notin Mine(i)
    BY <2>1, PipelineQueues, DlqAssumptions, DlqProofs!CountType
  <2> QED
    BY <1>1, <1>5, <2>2 DEF Busy
<1> QED
  BY <1>4, <1>5

LEMMA PipelineRequests ==
  QueueInv => Dlq!OnlySent /\ Dlq!Counting /\ Dlq!HeldByActive
<1> SUFFICES ASSUME QueueInv
             PROVE  Dlq!OnlySent /\ Dlq!Counting /\ Dlq!HeldByActive
  OBVIOUS
<1>1. Dlq!OnlySent
  <2>1. /\ main \in Seq(DlqProofs!Messages(sent, Instances))
        /\ retry \in Seq(DlqProofs!Messages(sent, {}))
        /\ dlq \in Seq(DlqProofs!Messages(sent, Requests))
    BY DEF QueueInv, DlqProofs!Sound, DlqProofs!Queues
  <2>2. /\ \A k \in DOMAIN main : main[k] \in DlqProofs!Messages(sent, Instances)
        /\ \A k \in DOMAIN retry : retry[k] \in DlqProofs!Messages(sent, {})
        /\ \A k \in DOMAIN dlq : dlq[k] \in DlqProofs!Messages(sent, Requests)
    BY <2>1
  <2> QED
    BY <2>2 DEF Dlq!OnlySent, DlqProofs!Messages
<1>2. Dlq!Counting
  BY DEF QueueInv, DlqProofs!Sound, DlqProofs!Holds, Dlq!Counting, Dlq!At
<1>3. \A r \in Requests :
        DlqProofs!Count(dlq, DlqProofs!By(Orders, Requests, r)) =
          IF DlqProofs!Holds(r) THEN 1 ELSE 0
  BY StayType DEF DlqProofs!Sound
<1>4. ASSUME NEW k \in DOMAIN dlq, dlq[k].holder # Free
      PROVE  DlqProofs!Holds(dlq[k].holder)
  <2>1. PICK r \in Requests : r = dlq[k].holder
    BY <1>4, PipelineQueues DEF DlqProofs!Messages
  <2>2. dlq[k] \in DlqProofs!By(Orders, Requests, r)
    BY <2>1, PipelineQueues DEF DlqProofs!By
  <2>3. DlqProofs!Count(dlq, DlqProofs!By(Orders, Requests, r)) # 0
    BY <2>2, PipelineQueues, DlqAssumptions, DlqProofs!CountType
  <2> QED
    BY <1>3, <2>1, <2>3
<1>5. ASSUME NEW r \in Requests
      PROVE  Dlq!Cardinality({k \in DOMAIN dlq : dlq[k].holder = r}) =
               IF DlqProofs!Holds(r) THEN 1 ELSE 0
  <2>1. DlqProofs!Cardinality({k \in DOMAIN dlq : dlq[k].holder = r}) =
          DlqProofs!Count(dlq, DlqProofs!By(Orders, Requests, r))
    BY PipelineQueues, DlqAssumptions, DlqProofs!KindsAreCounts
  <2> QED
    BY <1>3, <2>1, SameCardinality
<1> QED
  BY <1>1, <1>2, <1>4, <1>5 DEF Dlq!HeldByActive, DlqProofs!Holds

LEMMA PipelineAccounted == QueueInv => Accounted
<1> SUFFICES ASSUME QueueInv
             PROVE  Accounted
  OBVIOUS
<1>1. ASSUME NEW o
      PROVE  Dlq!Lasting(o) = Stay(o)
  <2>1. \A q : Dlq!Copies(q, o) = DlqProofs!Copies(q, o)
    BY SameCardinality DEF Dlq!Copies, DlqProofs!Copies
  <2>2. DlqProofs!Copies(main, o) = DlqProofs!Count(main, Named(o))
    BY PipelineQueues, DlqAssumptions, DlqProofs!KindsAreCounts DEF Named
  <2>3. DlqProofs!Copies(retry, o) =
          DlqProofs!Count(retry, DlqProofs!Of(Orders, {}, o))
    BY PipelineQueues, DlqAssumptions, DlqProofs!KindsAreCounts
  <2>4. Dlq!Cardinality({k \in DOMAIN dlq :
                dlq[k].order = o /\ dlq[k].holder \notin Dlq!Publishing})
          = DlqProofs!Count(dlq, DlqProofs!Stays(Orders, o))
    <3>1. Dlq!Publishing = DlqProofs!Publishing
      BY DEF Dlq!Publishing, DlqProofs!Publishing, Dlq!At, DlqProofs!At
    <3>2. {k \in DOMAIN dlq : dlq[k].order = o /\ dlq[k].holder \notin Dlq!Publishing}
            = {k \in DOMAIN dlq : dlq[k] \in DlqProofs!Stays(Orders, o)}
      BY <3>1, PipelineQueues DEF DlqProofs!Stays, DlqProofs!Of
    <3> QED
      BY <3>2, SameCardinality DEF DlqProofs!Count
  <2> QED
    BY <2>1, <2>2, <2>3, <2>4
       DEF Dlq!Lasting, Stay, Named, DlqProofs!Lasts, DlqProofs!Waiting
<1> QED
  BY <1>1 DEF Accounted, QueueInv

LEMMA PipelineLosesNone == QueueInv => NothingLost
<1> SUFFICES ASSUME QueueInv, NEW o \in sent, o \notin removed, payments[o] = "none"
             PROVE  Dlq!InBroker(o)
  BY DEF NothingLost
<1> DEFINE W == DlqProofs!Of(Orders, {}, o)
           R == DlqProofs!Stays(Orders, o)
<1>1. Stay(o) >= 1
  BY DEF QueueInv
<1>2. Stay(o) = DlqProofs!Count(main, Named(o)) + DlqProofs!Count(retry, W)
                  + DlqProofs!Count(dlq, R)
  BY DEF Stay, Named, DlqProofs!Lasts, DlqProofs!Waiting
<1>3. CASE \E k \in DOMAIN main : main[k] \in Named(o)
  BY <1>3 DEF Named, DlqProofs!Of, Dlq!InBroker, Dlq!InQueue
<1>4. CASE \E k \in DOMAIN retry : retry[k] \in W
  BY <1>4 DEF DlqProofs!Of, Dlq!InBroker, Dlq!InQueue
<1>5. CASE \E k \in DOMAIN dlq : dlq[k] \in R
  BY <1>5 DEF DlqProofs!Stays, DlqProofs!Of, Dlq!InBroker, Dlq!InQueue
<1>6. \/ \E k \in DOMAIN main : main[k] \in Named(o)
      \/ \E k \in DOMAIN retry : retry[k] \in W
      \/ \E k \in DOMAIN dlq : dlq[k] \in R
  <2> HIDE DEF W, R
  <2>1. /\ DlqProofs!Count(main, Named(o)) = 0
             <=> \A k \in DOMAIN main : main[k] \notin Named(o)
        /\ DlqProofs!Count(retry, W) = 0 <=> \A k \in DOMAIN retry : retry[k] \notin W
        /\ DlqProofs!Count(dlq, R) = 0 <=> \A k \in DOMAIN dlq : dlq[k] \notin R
    BY PipelineQueues, DlqAssumptions, DlqProofs!CountType
  <2> QED
    BY <1>1, <1>2, <2>1
<1> QED
  BY <1>3, <1>4, <1>5, <1>6

-----------------------------------------------------------------------------
(* Theorems *)

\* The invariant of the service with its broker: whatever crashes, is lost,
\* redelivered or reprocessed, the broker and the handlers agree on who holds
\* what, and every order is accounted for.
THEOREM PipelineInvariant == Spec => []IInv
<1>1. PipelineInv /\ Worker!TypeOK => IInv
  BY PipelineTyped, PipelineHandlers, PipelineRequests, PipelineAccounted
     DEF PipelineInv, Linked, IInv
<1> QED
  BY <1>1, PipelineInvHolds, PTL

\* No routed order is lost: it is in a queue, registered or removed.
THEOREM PipelineLosesNothing == Spec => []NothingLost
<1>1. PipelineInv => NothingLost
  BY PipelineLosesNone DEF PipelineInv
<1> QED
  BY <1>1, PipelineInvHolds, PTL

\* An instance holds one message while its handler runs, the one it handles,
\* and none when its channel or its process is gone.
THEOREM PipelineHeldByHandler == Spec => []HeldByItsHandler
<1>1. IInv => HeldByItsHandler
  BY DEF IInv
<1> QED
  BY <1>1, PipelineInvariant, PTL

=============================================================================
