------------------------------- MODULE Broker -------------------------------
(***************************************************************************)
(* The RabbitMQ topology subscribeToQueue declares: payment_queue, its     *)
(* retry queue and its dead-letter queue, with the dead-letter arguments   *)
(* that connect them.  The broker itself is external: its operations are   *)
(* those the services call or configure.                                   *)
(*                                                                         *)
(* A delivered message stays at its place, marked with its holder, until   *)
(* it is acked; a requeue (nack, or the loss of the channel) only clears   *)
(* the mark, since a classic queue returns a message to where it was.      *)
(***************************************************************************)
EXTENDS Naturals, Sequences, FiniteSets, FiniteSetsExt, SequencesExt

CONSTANTS Free,     \* the holder of a message no channel holds
          MaxLength \* x-max-length of the main queue

ASSUME MaxLengthAssumption == MaxLength \in Nat \ {0}

VARIABLES main,  \* payment_queue
          retry, \* payment_queue.retry
          dlq    \* payment_queue.dlq

queues == <<main, retry, dlq>>

Reasons == {"none", "rejected", "expired", "maxlen"}

\* What x-death tells of a message: its deaths in the main queue, the ones
\* getRetryCount sums, and why the last of them happened.
Entry(o) == [order |-> o, deaths |-> 0, reason |-> "none", holder |-> Free]

Died(m, why) ==
  [m EXCEPT !.deaths = @ + 1, !.reason = why, !.holder = Free]
Freed(m) == [m EXCEPT !.holder = Free]

Ready(q) == {k \in DOMAIN q : q[k].holder = Free}
FirstReady(q) == Min(Ready(q))
HeldAt(q, h) == CHOOSE k \in DOMAIN q : q[k].holder = h
Held(q, h) == q[HeldAt(q, h)]

Hold(q, h) == [q EXCEPT ![FirstReady(q)].holder = h]
Release(q, holders) ==
  [k \in DOMAIN q |-> IF q[k].holder \in holders THEN Freed(q[k]) ELSE q[k]]
Acked(q, h) == RemoveAt(q, HeldAt(q, h))
Purged(q) ==
  LET held[k \in 0 .. Len(q)] ==
        IF k = 0 THEN <<>>
        ELSE IF q[k].holder = Free THEN held[k - 1] ELSE Append(held[k - 1], q[k])
  IN  held[Len(q)]

InitQueues == main = <<>> /\ retry = <<>> /\ dlq = <<>>

\* exchange payments, key payment.order: over x-max-length ready messages the
\* oldest ready one is dead-lettered to the retry queue.
PublishMain(o) ==
  LET q == Append(main, Entry(o))
      k == FirstReady(q)
  IN  IF Cardinality(Ready(q)) <= MaxLength
      THEN main' = q /\ UNCHANGED retry
      ELSE main' = RemoveAt(q, k) /\ retry' = Append(retry, Died(q[k], "maxlen"))

AckMain(h) == main' = Acked(main, h)

\* nack without requeue: the main queue dead-letters to the retry exchange.
RejectMain(h) ==
  /\ retry' = Append(retry, Died(Held(main, h), "rejected"))
  /\ main' = Acked(main, h)

\* publish to the dead-letter exchange with the headers kept, then ack, on a
\* channel that stays open between the two.
MoveToDlq(h) ==
  /\ dlq' = Append(dlq, Freed(Held(main, h)))
  /\ main' = Acked(main, h)

\* x-message-ttl of the main queue: a ready head expires to the retry queue.
ExpireMain ==
  /\ Ready(main) # {}
  /\ retry' = Append(retry, Died(main[FirstReady(main)], "expired"))
  /\ main' = RemoveAt(main, FirstReady(main))
  /\ UNCHANGED dlq

\* x-message-ttl of the retry queue: its dead-letter exchange is the one of
\* the dead-letter queue.
ExpireRetry ==
  /\ retry # <<>>
  /\ dlq' = Append(dlq, Head(retry))
  /\ retry' = Tail(retry)
  /\ UNCHANGED main

\* x-message-ttl of the dead-letter queue, which has no dead-letter exchange.
ExpireDlq ==
  /\ Ready(dlq) # {}
  /\ dlq' = RemoveAt(dlq, FirstReady(dlq))
  /\ UNCHANGED <<main, retry>>

InQueue(q, o) == \E k \in DOMAIN q : q[k].order = o
InBroker(o) == InQueue(main, o) \/ InQueue(retry, o) \/ InQueue(dlq, o)
Copies(q, o) == Cardinality({k \in DOMAIN q : q[k].order = o})
=============================================================================
