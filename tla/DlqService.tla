----------------------------- MODULE DlqService -----------------------------
(***************************************************************************)
(* DlqService of the payments service: the requests an operator sends to   *)
(* inspect, reprocess, discard or purge the dead-letter queue.  A request  *)
(* is a loop of get / decide / ack or nack over the broker; requests run   *)
(* concurrently with each other and with messages that keep dying.         *)
(* Orders enter the main queue by Publish and, with no consumer here, die  *)
(* by the rules of Broker.                                                 *)
(***************************************************************************)
EXTENDS Broker

CONSTANTS Orders,    \* the orders messages name
          Garbage,   \* those whose content JSON.parse refuses
          Requests,  \* the HTTP requests to the dlq controller
          PeekLimit, \* how many messages a peek asks for
          NoOrder    \* the target of an operation on the whole queue

ASSUME GarbageAssumption == Garbage \subseteq Orders
ASSUME PeekLimitAssumption == PeekLimit \in Nat
ASSUME FreeAssumption == Free \notin Requests

VARIABLES request, \* request[r]: the state of request r
          removed, \* the orders an operator or the TTL removed for good
          sent     \* the orders published to the main queue so far

vars == <<main, retry, dlq, request, removed, sent>>

TargetedOps == {"reprocess", "discard"}
QueueOps == {"peek", "reprocessAll", "purge"}
Stages == {"new", "loop", "holding", "published", "done", "failed"}

NewRequest ==
  [op |-> "peek", target |-> NoOrder, stage |-> "new", left |-> 0,
   found |-> FALSE, present |-> FALSE]

Init ==
  /\ InitQueues
  /\ request = [r \in Requests |-> NewRequest]
  /\ removed = {}
  /\ sent = {}

-----------------------------------------------------------------------------
Op(r) == request[r].op
At(r, s) == request[r].stage = s
Active(r) == request[r].stage \in {"loop", "holding", "published"}
Message(r) == Held(dlq, r)

Goto(r, s) == request' = [request EXCEPT ![r].stage = s]

\* A loop goes on until its count of iterations is used up ...
Iterate(r) == request' = [request EXCEPT ![r].stage = "loop", ![r].left = @ - 1]

\* ... or until a targeted request found its message.
Conclude(r) == request' = [request EXCEPT ![r].stage = "done", ![r].found = TRUE]

\* checkQueue answers with the number of ready messages, the bound of the loop.
Start(r, op, target) ==
  /\ At(r, "new")
  /\ op # "purge"
  /\ target \in IF op \in TargetedOps THEN Orders ELSE {NoOrder}
  /\ request' = [request EXCEPT ![r] =
       [op |-> op, target |-> target, stage |-> "loop",
        left |-> IF op = "peek" THEN PeekLimit ELSE Cardinality(Ready(dlq)),
        found |-> FALSE, present |-> InQueue(dlq, target)]]
  /\ UNCHANGED <<main, retry, dlq, removed, sent>>

\* purgeQueue removes the ready messages, never those a channel holds.
Purge(r) ==
  /\ At(r, "new")
  /\ request' = [request EXCEPT ![r].op = "purge", ![r].stage = "done"]
  /\ removed' = removed \cup {dlq[k].order : k \in Ready(dlq)}
  /\ dlq' = Purged(dlq)
  /\ UNCHANGED <<main, retry, sent>>

\* Mutant: the loop also runs when its count is used up.
GetUncounted(r) ==
  /\ At(r, "loop")
  /\ Ready(dlq) # {}
  /\ dlq' = Hold(dlq, r)
  /\ Goto(r, "holding")
  /\ UNCHANGED <<main, retry, removed, sent>>

Get(r) ==
  /\ At(r, "loop") /\ request[r].left > 0
  /\ Ready(dlq) # {}
  /\ dlq' = Hold(dlq, r)
  /\ Goto(r, "holding")
  /\ UNCHANGED <<main, retry, removed, sent>>

Finish(r) ==
  /\ At(r, "loop")
  /\ request[r].left = 0 \/ Ready(dlq) = {}
  /\ Goto(r, "done")
  /\ UNCHANGED <<main, retry, dlq, removed, sent>>

Parses(r) == Message(r).order \notin Garbage
IsTarget(r) == Parses(r) /\ Message(r).order = request[r].target
Matches(r) == IF Op(r) = "reprocessAll" THEN Parses(r) ELSE IsTarget(r)

\* Mutant: a message that does not parse throws out of the loop, still held.
PutBackUnlessThrown(r) ==
  /\ At(r, "holding")
  /\ Op(r) = "peek" \/ ~Matches(r)
  /\ \/ Parses(r) /\ dlq' = Release(dlq, {r}) /\ Iterate(r)
     \/ ~Parses(r) /\ Goto(r, "failed") /\ UNCHANGED dlq
  /\ UNCHANGED <<main, retry, removed, sent>>

\* Mutant: the loop goes on while there are messages instead of counting.
PutBackUncounted(r) ==
  /\ At(r, "holding")
  /\ Op(r) = "peek" \/ ~Matches(r)
  /\ dlq' = Release(dlq, {r})
  /\ Goto(r, "loop")
  /\ UNCHANGED <<main, retry, removed, sent>>

\* nack with requeue: a peek has listed the message, the others skip it.
PutBack(r) ==
  /\ At(r, "holding")
  /\ Op(r) = "peek" \/ ~Matches(r)
  /\ dlq' = Release(dlq, {r})
  /\ Iterate(r)
  /\ UNCHANGED <<main, retry, removed, sent>>

\* Mutant: publishMessage fails and swallows it, so the ack follows anyway.
RepublishSwallowed(r) ==
  /\ At(r, "holding")
  /\ Op(r) \in {"reprocess", "reprocessAll"} /\ Matches(r)
  /\ Goto(r, "published")
  /\ UNCHANGED <<main, retry, dlq, removed, sent>>

\* Mutant: the message is put back after it was published.
AckMissing(r) ==
  /\ At(r, "published")
  /\ dlq' = Release(dlq, {r})
  /\ IF Op(r) = "reprocess" THEN Conclude(r) ELSE Iterate(r)
  /\ UNCHANGED <<main, retry, removed, sent>>

\* The message is published to the main queue before it leaves this one, with
\* no headers: its deaths are forgotten.
Republish(r) ==
  /\ At(r, "holding")
  /\ Op(r) \in {"reprocess", "reprocessAll"} /\ Matches(r)
  /\ PublishMain(Message(r).order)
  /\ Goto(r, "published")
  /\ UNCHANGED <<dlq, removed, sent>>

AckRepublished(r) ==
  /\ At(r, "published")
  /\ dlq' = Acked(dlq, r)
  /\ IF Op(r) = "reprocess" THEN Conclude(r) ELSE Iterate(r)
  /\ UNCHANGED <<main, retry, removed, sent>>

Discard(r) ==
  /\ At(r, "holding")
  /\ Op(r) = "discard" /\ Matches(r)
  /\ removed' = removed \cup {Message(r).order}
  /\ dlq' = Acked(dlq, r)
  /\ Conclude(r)
  /\ UNCHANGED <<main, retry, sent>>

\* There is no usable channel: the request throws before it reads anything.
Refuse(r) ==
  /\ At(r, "new")
  /\ Goto(r, "failed")
  /\ UNCHANGED <<main, retry, dlq, removed, sent>>

\* The channel or the process is gone: the broker requeues what it held.
FailRequests(rs) ==
  /\ request' = [r \in Requests |->
                   IF r \in rs /\ Active(r)
                   THEN [request[r] EXCEPT !.stage = "failed"] ELSE request[r]]
  /\ UNCHANGED <<removed, sent>>

Abort(rs) == dlq' = Release(dlq, rs) /\ FailRequests(rs)

\* One await of request r.
Work(r) ==
  \/ Get(r) \/ Finish(r) \/ PutBack(r)
  \/ Republish(r) \/ AckRepublished(r) \/ Discard(r)

DlqExpires ==
  /\ ExpireDlq
  /\ removed' = removed \cup {dlq[FirstReady(dlq)].order}
  /\ UNCHANGED <<request, sent>>

-----------------------------------------------------------------------------
(* Around the service: publications, deaths and the TTL of the queues. *)

\* Each order is published once; with no consumer it dies of its TTL.
Publish(o) ==
  /\ o \notin sent
  /\ sent' = sent \cup {o}
  /\ PublishMain(o)
  /\ UNCHANGED <<dlq, request, removed>>

MessageDies ==
  /\ ExpireMain \/ ExpireRetry
  /\ UNCHANGED <<request, removed, sent>>

Next ==
  \/ \E r \in Requests :
       \/ \E op \in TargetedOps \cup QueueOps :
            \E o \in Orders \cup {NoOrder} : Start(r, op, o)
       \/ Purge(r)
       \/ Refuse(r)
       \/ Work(r)
       \/ Active(r) /\ Abort({r}) /\ UNCHANGED <<main, retry>>
  \/ \E o \in Orders : Publish(o)
  \/ MessageDies
  \/ DlqExpires

Spec == Init /\ [][Next]_vars /\ \A r \in Requests : WF_vars(Work(r))

-----------------------------------------------------------------------------
(* Properties *)

MessagesHeldBy(holders) ==
  [order : Orders, deaths : Nat, reason : Reasons, holder : holders \cup {Free}]

RequestStates ==
  [op : TargetedOps \cup QueueOps, target : Orders \cup {NoOrder},
   stage : Stages, left : Nat, found : BOOLEAN, present : BOOLEAN]

\* Nobody consumes the main queue here, nor the retry queue anywhere.
TypeOK ==
  /\ main \in Seq(MessagesHeldBy({}))
  /\ retry \in Seq(MessagesHeldBy({}))
  /\ dlq \in Seq(MessagesHeldBy(Requests))
  /\ request \in [Requests -> RequestStates]
  /\ removed \subseteq sent /\ sent \subseteq Orders

\* No request loses a message: what was published is in some queue, unless a
\* discard, a purge or the seven-day TTL removed it.  A channel lost between
\* the publication and the ack of a reprocessed message does not lose it.
NothingLost == \A o \in sent : InBroker(o) \/ o \in removed

\* A message is held exactly while a request works on it: none stays invisible
\* to consumers and to the other requests after its request ended.
HeldByActive ==
  /\ \A k \in DOMAIN dlq :
       dlq[k].holder # Free =>
         request[dlq[k].holder].stage \in {"holding", "published"}
  /\ \A r \in Requests :
       Cardinality({k \in DOMAIN dlq : dlq[k].holder = r}) =
         IF request[r].stage \in {"holding", "published"} THEN 1 ELSE 0

\* Reprocessing duplicates an order only where a request stopped between the
\* publication and the ack, and only once per request.
AllCopies(o) == Copies(main, o) + Copies(retry, o) + Copies(dlq, o)
CopiesBounded ==
  \A o \in Orders :
    AllCopies(o) <=
      1 + Cardinality({r \in Requests : request[r].stage \in
                                          {"published", "failed"}})

\* Every request ends, even when the messages it republishes die again and
\* come back to the queue it is emptying, or a message never parses.
EveryRequestEnds ==
  \A r \in Requests : Active(r) ~> request[r].stage \in {"done", "failed"}

\* What dlq.controller.ts:75 answers with 404, "not found in DLQ": a targeted
\* request that finds nothing had no such message in the queue.
NotFoundMeansAbsent ==
  \A r \in Requests :
    request[r].stage = "done" /\ Op(r) \in TargetedOps /\ request[r].present
      => request[r].found \/ ~InQueue(dlq, request[r].target)

-----------------------------------------------------------------------------
(* The inductive invariant: apart from a message that a request published   *)
(* and still holds, an order sent and not removed has a lasting copy, and   *)
(* it has one more for each request that failed at most.                    *)

Publishing == {r \in Requests : At(r, "published")}
Failed == {r \in Requests : At(r, "failed")}

Lasting(o) ==
  Copies(main, o) + Copies(retry, o)
    + Cardinality({k \in DOMAIN dlq :
                     dlq[k].order = o /\ dlq[k].holder \notin Publishing})

LastingCopies ==
  /\ IsFiniteSet(Failed)
  /\ \A o \in Orders :
       /\ o \in sent \ removed => Lasting(o) >= 1
       /\ Lasting(o) <= (IF o \in sent THEN 1 ELSE 0) + Cardinality(Failed)

OnlySent ==
  \A q \in {main, retry, dlq} : \A k \in DOMAIN q : q[k].order \in sent

\* The count of iterations is never used up while one is under way.
Counting ==
  \A r \in Requests : At(r, "holding") \/ At(r, "published") => request[r].left > 0

IInv == TypeOK /\ OnlySent /\ Counting /\ HeldByActive /\ LastingCopies

=============================================================================
