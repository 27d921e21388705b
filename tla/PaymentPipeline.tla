--------------------------- MODULE PaymentPipeline ---------------------------
(***************************************************************************)
(* The payments service with its message broker: RabbitmqService connects  *)
(* each instance once, consumes payment_queue one message at a time and    *)
(* acks, rejects or dead-letters what PaymentsService made of it, while    *)
(* operators call DlqService on the same channels.  Channels are lost and  *)
(* processes crash at any point.                                           *)
(***************************************************************************)
EXTENDS Naturals, Sequences, FiniteSets

CONSTANTS Instances, Orders, Valid, Amount, NoOrder, \* of PaymentsService
          Garbage, Requests, PeekLimit,              \* of DlqService
          Free, MaxLength,                           \* of Broker
          Host,       \* the instance that serves each request
          MaxRetries, \* maxRetries of subscribeToQueue
          MaxFaults   \* bound on crashes and on lost or late connections

ASSUME ValidAssumption == Valid \subseteq Orders
ASSUME AmountAssumption == Amount \in [Orders -> Nat]
ASSUME NoOrderAssumption == NoOrder \notin Orders
ASSUME GarbageAssumption == Garbage \subseteq Orders \ Valid
ASSUME MaxLengthAssumption == MaxLength \in Nat \ {0}
ASSUME PeekLimitAssumption == PeekLimit \in Nat
ASSUME FreeAssumption == Free \notin Instances \cup Requests
ASSUME HostAssumption == Host \in [Requests -> Instances]
ASSUME MaxRetriesAssumption == MaxRetries \in Nat
ASSUME MaxFaultsAssumption == MaxFaults \in Nat

VARIABLES payments, charges, step, order,
          main, retry, dlq, request, removed, sent,
          link,   \* link[i]: the connection of instance i
          bound,  \* some instance declared and bound the queues
          faults  \* faults that happened so far

workerVars == <<payments, charges, step, order>>
queueVars == <<main, retry, dlq, request, removed, sent>>
linkVars == <<link, bound, faults>>
vars == <<payments, charges, step, order, main, retry, dlq, request, removed,
          sent, link, bound, faults>>

Worker == INSTANCE PaymentsService
Dlq == INSTANCE DlqService

\* "booting": connecting, the consumer waits; "late": connecting, the consumer
\* gave up; "open": a channel that consumes nothing; "dead": no usable channel.
Links == {"down", "booting", "late", "open", "consuming", "dead"}

Init ==
  /\ Worker!Init
  /\ Dlq!Init
  /\ link = [i \in Instances |-> "booting"]
  /\ bound = FALSE
  /\ faults = 0

SetLink(i, l) == link' = [link EXCEPT ![i] = l]
Fault == faults < MaxFaults /\ faults' = faults + 1
HostedBy(i) == {r \in Requests : Host[r] = i}
Reachable(r) == link[Host[r]] \in {"open", "consuming"}

-----------------------------------------------------------------------------
(* Connecting and consuming *)

\* The channel opens while the consumer waits: the queues are declared and
\* bound, and the instance consumes.
Connect(i) ==
  /\ link[i] = "booting"
  /\ SetLink(i, "consuming")
  /\ bound' = TRUE
  /\ UNCHANGED <<workerVars, queueVars, faults>>

\* waitForConnection runs out of attempts: nobody will subscribe any more.
GiveUp(i) ==
  /\ link[i] = "booting"
  /\ SetLink(i, "late")
  /\ Fault
  /\ UNCHANGED <<workerVars, queueVars, bound>>

ConnectLate(i) ==
  /\ link[i] = "late"
  /\ SetLink(i, "open")
  /\ UNCHANGED <<workerVars, queueVars, bound, faults>>

\* A failed connection is logged and never tried again.
ConnectFails(i) ==
  /\ link[i] \in {"booting", "late"}
  /\ SetLink(i, "dead")
  /\ Fault
  /\ UNCHANGED <<workerVars, queueVars, bound>>

\* The broker requeues what the channel held; no code opens another one.
LoseChannel(i) ==
  /\ link[i] \in {"open", "consuming"}
  /\ SetLink(i, "dead")
  /\ Fault
  /\ main' = Dlq!Release(main, {i})
  /\ Dlq!Abort(HostedBy(i))
  /\ UNCHANGED <<workerVars, retry, bound>>

Crash(i) ==
  /\ Worker!Crash(i)
  /\ SetLink(i, "down")
  /\ Fault
  /\ main' = Dlq!Release(main, {i})
  /\ Dlq!Abort(HostedBy(i))
  /\ UNCHANGED <<retry, bound>>

Restart(i) ==
  /\ Worker!Restart(i)
  /\ SetLink(i, "booting")
  /\ UNCHANGED <<queueVars, bound, faults>>

-----------------------------------------------------------------------------
(* A message in the consumer of instance i *)

\* Mutant: the message is consumed without manual acknowledgement.
DeliverAutoAck(i) ==
  /\ link[i] = "consuming"
  /\ Dlq!Ready(main) # {}
  /\ \E o \in Orders :
       main[Dlq!FirstReady(main)].order = o /\ Worker!Receive(i, o)
  /\ main' = Dlq!RemoveAt(main, Dlq!FirstReady(main))
  /\ UNCHANGED <<retry, dlq, request, removed, sent, linkVars>>

\* Mutant: without prefetch(1) a message comes while another is handled.
DeliverUnbounded(i) ==
  /\ link[i] = "consuming" /\ step[i] # "down"
  /\ Dlq!Ready(main) # {}
  /\ Worker!Goto(i, "lookup")
  /\ order' = [order EXCEPT ![i] = main[Dlq!FirstReady(main)].order]
  /\ main' = Dlq!Hold(main, i)
  /\ UNCHANGED <<payments, charges, retry, dlq, request, removed, sent, linkVars>>

\* prefetch(1): the next message comes only when the last one is settled.
Deliver(i) ==
  /\ link[i] = "consuming"
  /\ Dlq!Ready(main) # {}
  /\ \E o \in Orders :
       main[Dlq!FirstReady(main)].order = o /\ Worker!Receive(i, o)
  /\ main' = Dlq!Hold(main, i)
  /\ UNCHANGED <<retry, dlq, request, removed, sent, linkVars>>

Handle(i) == Worker!Handle(i) /\ UNCHANGED <<queueVars, linkVars>>

\* An instance that consumes and whose handler ended in step s.
Ended(i, s) == link[i] = "consuming" /\ step[i] = s

Ack(i) ==
  /\ Ended(i, "returned")
  /\ Worker!Settle(i)
  /\ Dlq!AckMain(i)
  /\ UNCHANGED <<retry, dlq, request, removed, sent, linkVars>>

RetryCount(i) == Dlq!Held(main, i).deaths

\* Mutant: a failed message is acked once it was logged.
AckFailed(i) ==
  /\ Ended(i, "failed") /\ RetryCount(i) < MaxRetries
  /\ Worker!Settle(i)
  /\ Dlq!AckMain(i)
  /\ UNCHANGED <<retry, dlq, request, removed, sent, linkVars>>

\* Mutant: the catch block logs the failure and settles nothing.
LeaveUnsettled(i) ==
  /\ Ended(i, "failed") /\ RetryCount(i) < MaxRetries
  /\ Worker!Settle(i)
  /\ UNCHANGED <<queueVars, linkVars>>

\* nack without requeue: the message goes to the retry queue, whose own
\* dead-letter exchange is the one of the dead-letter queue.
Nack(i) ==
  /\ Ended(i, "failed") /\ RetryCount(i) < MaxRetries
  /\ Worker!Settle(i)
  /\ Dlq!RejectMain(i)
  /\ UNCHANGED <<dlq, request, removed, sent, linkVars>>

\* Mutant: the message is acked but not published to the exchange.
DropAtLimit(i) ==
  /\ Ended(i, "failed") /\ RetryCount(i) >= MaxRetries
  /\ Worker!Settle(i)
  /\ Dlq!AckMain(i)
  /\ UNCHANGED <<retry, dlq, request, removed, sent, linkVars>>

\* The dead-lettering the broker takes both calls of; the one it takes only
\* the publication of is a LoseSettlement.
DeadLetter(i) ==
  /\ Ended(i, "failed") /\ RetryCount(i) >= MaxRetries
  /\ Worker!Settle(i)
  /\ Dlq!MoveToDlq(i)
  /\ UNCHANGED <<retry, request, removed, sent, linkVars>>

\* ack throws on a closed channel, and so does the nack of the catch block:
\* the rejection nobody handles ends the process.
SettleOnClosedChannel(i) ==
  /\ link[i] = "dead" /\ step[i] \in {"returned", "failed"}
  /\ Worker!Crash(i)
  /\ SetLink(i, "down")
  /\ UNCHANGED <<queueVars, bound, faults>>

\* Mutant: the handler acks first, and the publication is lost.
AckBeforePublishing(i) ==
  /\ link[i] = "consuming"
  /\ Worker!Settle(i)
  /\ SetLink(i, "dead")
  /\ Fault
  /\ IF step[i] = "failed" /\ RetryCount(i) >= MaxRetries
     THEN Dlq!AckMain(i) ELSE main' = Dlq!Release(main, {i})
  /\ Dlq!Abort(HostedBy(i))
  /\ UNCHANGED <<retry, bound>>

\* The channel is lost before the broker takes what the handler last wrote to
\* it: the message stays the broker's and is ready again, although its handler
\* is over.  When that was a dead-lettering, its publication may have arrived.
LoseSettlement(i) ==
  /\ link[i] = "consuming"
  /\ Worker!Settle(i)
  /\ SetLink(i, "dead")
  /\ Fault
  /\ main' = Dlq!Release(main, {i})
  /\ Dlq!FailRequests(HostedBy(i))
  /\ LET kept == Dlq!Release(dlq, HostedBy(i))
     IN  \/ dlq' = kept
         \/ /\ Ended(i, "failed") /\ RetryCount(i) >= MaxRetries
            /\ dlq' = Append(kept, Dlq!Freed(Dlq!Held(main, i)))
  /\ UNCHANGED <<retry, bound>>

-----------------------------------------------------------------------------
(* Requests to the dlq controller, and the broker *)

\* A request runs on a channel and over queues that exist.
DlqStep(r) ==
  /\ Reachable(r) /\ bound
  /\ \/ \E op \in Dlq!TargetedOps \cup Dlq!QueueOps :
          \E o \in Orders \cup {NoOrder} : Dlq!Start(r, op, o)
     \/ Dlq!Purge(r)
     \/ Dlq!Work(r)
  /\ UNCHANGED <<workerVars, linkVars>>

DlqRefused(r) ==
  /\ link[Host[r]] \in {"booting", "late", "dead"}
  /\ Dlq!Refuse(r)
  /\ UNCHANGED <<workerVars, linkVars>>

\* checkQueue of a queue nobody declared: the broker closes the channel.
DlqUndeclared(r) ==
  /\ Reachable(r) /\ ~bound
  /\ Dlq!Refuse(r)
  /\ SetLink(Host[r], "dead")
  /\ UNCHANGED <<workerVars, bound, faults>>

\* The checkout service publishes an order once; a message published before
\* the queue is bound is dropped by the exchange and never enters this system.
Publish(o) == bound /\ Dlq!Publish(o) /\ UNCHANGED <<workerVars, linkVars>>

Expire == Dlq!MessageDies /\ UNCHANGED <<workerVars, linkVars>>
ExpireDlq == Dlq!DlqExpires /\ UNCHANGED <<workerVars, linkVars>>

-----------------------------------------------------------------------------
Connection(i) ==
  \/ Connect(i) \/ GiveUp(i) \/ ConnectLate(i) \/ ConnectFails(i)
  \/ LoseChannel(i) \/ LoseSettlement(i) \/ Crash(i) \/ Restart(i)

\* What the handler of the message held by instance i does next.
Consume(i) ==
  \/ Handle(i) \/ Ack(i) \/ Nack(i) \/ DeadLetter(i) \/ SettleOnClosedChannel(i)

Next ==
  \/ \E i \in Instances : Connection(i) \/ Deliver(i) \/ Consume(i)
  \/ \E r \in Requests : DlqStep(r) \/ DlqRefused(r) \/ DlqUndeclared(r)
  \/ \E o \in Orders : Publish(o)
  \/ Expire
  \/ ExpireDlq

\* Handlers run to their end, and the TTLs of the main and retry queues fire.
Fairness == WF_vars(Expire) /\ \A i \in Instances : WF_vars(Consume(i))

Spec == Init /\ [][Next]_vars /\ Fairness

-----------------------------------------------------------------------------
(* Properties *)

TypeOK ==
  /\ Worker!TypeOK
  /\ main \in Seq(Dlq!MessagesHeldBy(Instances))
  /\ retry \in Seq(Dlq!MessagesHeldBy({}))
  /\ dlq \in Seq(Dlq!MessagesHeldBy(Requests))
  /\ request \in [Requests -> Dlq!RequestStates]
  /\ link \in [Instances -> Links]
  /\ bound \in BOOLEAN
  /\ faults \in 0 .. MaxFaults
  /\ removed \subseteq sent /\ sent \subseteq Orders

\* A routed order is never lost: it is in a queue, or its payment is
\* registered, or an operator or the dead-letter TTL removed it.  Crashes,
\* lost channels and reprocessing do not change that.
NothingLost ==
  \A o \in sent :
    Dlq!InBroker(o) \/ payments[o] # "none" \/ o \in removed

\* The broker and the consumers agree on who holds what: a message is held by
\* an instance exactly while its channel is open and its handler runs on it.
HeldByItsHandler ==
  \A i \in Instances :
    LET held == {k \in DOMAIN main : main[k].holder = i}
    IN  IF link[i] = "consuming" /\ step[i] # "idle"
        THEN \E k \in held : held = {k} /\ main[k].order = order[i]
        ELSE held = {}

\* Redeliveries, reprocessing and several consumers never charge twice.
ChargedAtMostOnce == Worker!ChargedAtMostOnce

\* The pipeline drives the payments service only by its own steps.
ImplementsPaymentsService == Worker!Spec

\* Every routed order ends as a registered payment, in the dead-letter queue
\* or removed, whatever fails on the way: none is stuck in the main or the
\* retry queue, even when no instance consumes any more.
EventuallySettled ==
  \A o \in Orders :
    o \in sent ~>
      payments[o] # "none" \/ Dlq!InQueue(dlq, o) \/ o \in removed

\* What rabbitmq.service.ts:113 says of maxRetries, the reprocessing attempts
\* before the dead-letter queue: a message whose processing failed is there
\* only after that many failures.
DlqOnlyAfterRetries ==
  \A k \in DOMAIN dlq :
    dlq[k].reason = "rejected" => dlq[k].deaths >= MaxRetries

-----------------------------------------------------------------------------
(* The inductive invariant.  An ack takes away a message that may be the    *)
(* last of its order, so the payment of a handler about to ack is there;    *)
(* and the channel that goes with an undeclared queue holds no message,     *)
(* since an instance consumes only from queues that are bound.              *)

HandlersAgree ==
  \A i \in Instances :
    /\ step[i] = "down" <=> link[i] = "down"
    /\ link[i] \in {"booting", "late", "open"} => step[i] = "idle"
    /\ link[i] = "consuming" => bound
    /\ step[i] \notin {"idle", "down"} => order[i] \in Orders
    /\ step[i] \in {"charge", "update", "returned"} =>
         payments[order[i]] # "none"

Accounted ==
  \A o \in sent \ removed : Dlq!Lasting(o) >= 1 \/ payments[o] # "none"

IInv ==
  /\ TypeOK
  /\ HandlersAgree
  /\ HeldByItsHandler
  /\ Dlq!OnlySent /\ Dlq!Counting /\ Dlq!HeldByActive
  /\ Accounted

=============================================================================
