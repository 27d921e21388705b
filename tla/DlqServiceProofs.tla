-------------------------- MODULE DlqServiceProofs --------------------------
(***************************************************************************)
(* Proofs about DlqService for any orders and requests.  What one request  *)
(* does to the queues is proved of messages that name orders of a set O    *)
(* and are held in the main queue by holders of a set H, so that it also   *)
(* serves the pipeline, where the payments instances consume that queue.   *)
(***************************************************************************)
EXTENDS DlqService, BrokerProofs

Holds(r) == request[r].stage \in {"holding", "published"}

Queues(O, H) ==
  /\ main \in Seq(Messages(O, H))
  /\ retry \in Seq(Messages(O, {}))
  /\ dlq \in Seq(Messages(O, Requests))

\* The queues and the requests have their types and agree on who holds what.
Sound(O, H) ==
  /\ Queues(O, H)
  /\ request \in [Requests -> RequestStates]
  /\ \A r \in Requests : Holds(r) => request[r].left > 0
  /\ \A r \in Requests :
       Count(dlq, By(O, Requests, r)) = IF Holds(r) THEN 1 ELSE 0

\* The messages of order o that no request has published and still holds, and
\* how many of them there are in the three queues.
Stays(O, o) == {m \in Of(O, Requests, o) : m.holder \notin Publishing}
Lasts(O, H, o) == Waiting(O, H, o) + Count(dlq, Stays(O, o))

\* A step that loses no lasting message but those of removed orders.
Keeps(O, H) ==
  \A o : /\ Lasts(O, H, o)' <= Lasts(O, H, o)
         /\ Lasts(O, H, o)' = Lasts(O, H, o) \/ o \in removed'

\* A step that leaves the messages held in the main queue alone.
KeepsHeld(O, H) ==
  \A P : Count(main', P \cap HeldKind(O, H)) = Count(main, P \cap HeldKind(O, H))

LEMMA LastsType ==
  ASSUME NEW O, NEW H, Queues(O, H), NEW o
  PROVE  /\ Waiting(O, H, o) \in Nat /\ Count(dlq, Stays(O, o)) \in Nat
         /\ Lasts(O, H, o) \in Nat
<1>1. \A P : Count(main, P) \in Nat /\ Count(retry, P) \in Nat /\ Count(dlq, P) \in Nat
  BY CountType DEF Queues
<1> QED
  BY <1>1 DEF Lasts, Waiting

\* The message of a request that holds one.
LEMMA HeldByRequest ==
  ASSUME NEW O, NEW H, Sound(O, H), NEW r \in Requests, Holds(r)
  PROVE  /\ Message(r) \in Messages(O, Requests)
         /\ Message(r).holder = r
         /\ Count(dlq, By(O, Requests, r)) = 1
<1>1. Count(dlq, By(O, Requests, r)) = 1 /\ dlq \in Seq(Messages(O, Requests))
  BY DEF Sound, Queues
<1> QED
  BY <1>1, HeldMessage DEF Message

LEMMA NextLastsType ==
  ASSUME NEW O, NEW H, Queues(O, H)', NEW o
  PROVE  Lasts(O, H, o)' \in Nat
<1>1. /\ main' \in Seq(Messages(O, H)) /\ retry' \in Seq(Messages(O, {}))
      /\ dlq' \in Seq(Messages(O, Requests))
  BY DEF Queues
<1>2. \A P : Count(main', P) \in Nat /\ Count(retry', P) \in Nat /\ Count(dlq', P) \in Nat
  BY <1>1, CountType
<1> QED
  BY <1>2 DEF Lasts, Waiting

-----------------------------------------------------------------------------
(* Steps that only change the state of a request *)

LEMMA IdleStep ==
  ASSUME NEW O, NEW H, Sound(O, H), NEW r \in Requests,
         UNCHANGED <<main, retry, dlq>>, At(r, "new") \/ At(r, "loop"),
         NEW x \in RequestStates, x.stage \in {"loop", "done", "failed"},
         request' = [request EXCEPT ![r] = x]
  PROVE  Sound(O, H)' /\ Keeps(O, H) /\ KeepsHeld(O, H)
<1>1. /\ request' \in [Requests -> RequestStates]
      /\ request'[r].stage \in {"loop", "done", "failed"}
      /\ \A s \in Requests \ {r} : request'[s] = request[s]
  BY DEF Sound
<1>2. \A s \in Requests : Holds(s)' <=> Holds(s)
  BY <1>1 DEF Holds, At
<1>3. Publishing' = Publishing
  BY <1>1 DEF Publishing, At
<1>4. Sound(O, H)'
  <2>1. \A s \in Requests : Holds(s)' => request'[s].left > 0
    BY <1>1, <1>2 DEF Sound, Holds
  <2>2. \A s \in Requests :
          Count(dlq', By(O, Requests, s)) = IF Holds(s)' THEN 1 ELSE 0
    BY <1>2 DEF Sound
  <2> QED
    BY <1>1, <2>1, <2>2 DEF Sound, Queues
<1>5. \A o : Lasts(O, H, o)' = Lasts(O, H, o) /\ Lasts(O, H, o) \in Nat
  BY <1>3, LastsType DEF Sound, Lasts, Stays, Waiting
<1> QED
  BY <1>4, <1>5 DEF Keeps, KeepsHeld

LEMMA StartStep ==
  ASSUME NEW O, NEW H, Sound(O, H), NEW r \in Requests,
         NEW op \in TargetedOps \cup QueueOps, NEW o \in Orders \cup {NoOrder},
         Start(r, op, o)
  PROVE  Sound(O, H)' /\ Keeps(O, H) /\ KeepsHeld(O, H)
<1> DEFINE x == [op |-> op, target |-> o, stage |-> "loop",
                 left |-> IF op = "peek" THEN PeekLimit ELSE Cardinality(Ready(dlq)),
                 found |-> FALSE, present |-> InQueue(dlq, o)]
<1>1. Cardinality(Ready(dlq)) \in Nat
  <2>1. dlq \in Seq(Messages(O, Requests))
    BY DEF Sound, Queues
  <2>2. \A k \in DOMAIN dlq : dlq[k] \in Messages(O, Requests)
    BY <2>1
  <2>3. Ready(dlq) = {k \in DOMAIN dlq : dlq[k] \in By(O, Requests, Free)}
    BY <2>2 DEF Ready, By
  <2> QED
    BY <2>1, <2>3, CountType DEF Count
<1>2. InQueue(dlq, o) \in BOOLEAN
  BY DEF InQueue
<1>3. x \in RequestStates /\ x.stage = "loop"
  BY <1>1, <1>2, PeekLimitAssumption DEF RequestStates, Stages
<1>4. At(r, "new") /\ request' = [request EXCEPT ![r] = x]
  BY DEF Start
<1>5. UNCHANGED <<main, retry, dlq>>
  BY DEF Start
<1> HIDE DEF x
<1> QED
  BY <1>3, <1>4, <1>5, IdleStep

LEMMA RefuseStep ==
  ASSUME NEW O, NEW H, Sound(O, H), NEW r \in Requests, Refuse(r)
  PROVE  Sound(O, H)' /\ Keeps(O, H) /\ KeepsHeld(O, H)
<1> DEFINE x == [request[r] EXCEPT !.stage = "failed"]
<1>1. x \in RequestStates /\ x.stage = "failed"
  BY DEF Sound, RequestStates, Stages
<1>2. request' = [request EXCEPT ![r] = x]
  BY DEF Refuse, Goto, Sound
<1>3. At(r, "new") /\ UNCHANGED <<main, retry, dlq>>
  BY DEF Refuse
<1> HIDE DEF x
<1> QED
  BY <1>1, <1>2, <1>3, IdleStep

LEMMA FinishStep ==
  ASSUME NEW O, NEW H, Sound(O, H), NEW r \in Requests, Finish(r)
  PROVE  Sound(O, H)' /\ Keeps(O, H) /\ KeepsHeld(O, H)
<1> DEFINE x == [request[r] EXCEPT !.stage = "done"]
<1>1. x \in RequestStates /\ x.stage = "done"
  BY DEF Sound, RequestStates, Stages
<1>2. request' = [request EXCEPT ![r] = x]
  BY DEF Finish, Goto, Sound
<1>3. At(r, "loop") /\ UNCHANGED <<main, retry, dlq>>
  BY DEF Finish
<1> HIDE DEF x
<1> QED
  BY <1>1, <1>2, <1>3, IdleStep

-----------------------------------------------------------------------------
(* Steps that move the message of a request *)

\* Request r goes to state x, and the others hold what they held.
LEMMA MoveStep ==
  ASSUME NEW O, NEW H, Sound(O, H), Queues(O, H)', NEW r \in Requests,
         NEW x \in RequestStates, request' = [request EXCEPT ![r] = x],
         x.stage \in {"holding", "published"} => x.left > 0,
         Count(dlq', By(O, Requests, r)) =
           IF x.stage \in {"holding", "published"} THEN 1 ELSE 0,
         \A s \in Requests \ {r} :
           Count(dlq', By(O, Requests, s)) = Count(dlq, By(O, Requests, s))
  PROVE  /\ Sound(O, H)'
         /\ Publishing' = IF x.stage = "published" THEN Publishing \cup {r}
                          ELSE Publishing \ {r}
<1>1. /\ request' \in [Requests -> RequestStates] /\ request'[r] = x
      /\ \A s \in Requests \ {r} : request'[s] = request[s]
  BY DEF Sound
<1>2. /\ \A s \in Requests \ {r} : Holds(s)' <=> Holds(s)
      /\ Holds(r)' <=> x.stage \in {"holding", "published"}
  BY <1>1 DEF Holds
<1>3. \A s \in Requests : Holds(s)' => request'[s].left > 0
  BY <1>1, <1>2 DEF Sound
<1>4. \A s \in Requests :
        Count(dlq', By(O, Requests, s)) = IF Holds(s)' THEN 1 ELSE 0
  BY <1>2 DEF Sound
<1>5. Sound(O, H)'
  BY <1>1, <1>3, <1>4 DEF Sound
<1>6. Publishing' = IF x.stage = "published" THEN Publishing \cup {r}
                    ELSE Publishing \ {r}
  BY <1>1 DEF Publishing, At
<1> QED
  BY <1>5, <1>6

\* The message it gets was nobody's: it lasts as before.
LEMMA GetStep ==
  ASSUME NEW O, NEW H, Sound(O, H), NEW r \in Requests, Get(r)
  PROVE  Sound(O, H)' /\ Keeps(O, H) /\ KeepsHeld(O, H)
<1> DEFINE x == [request[r] EXCEPT !.stage = "holding"]
           k == FirstReady(dlq)
           m == [dlq[k] EXCEPT !.holder = r]
<1>1. x \in RequestStates /\ x.stage = "holding" /\ x.left > 0
  BY DEF Sound, RequestStates, Stages, Get
<1>2. /\ request' = [request EXCEPT ![r] = x] /\ ~Holds(r)
      /\ dlq' = Hold(dlq, r) /\ Ready(dlq) # {}
      /\ UNCHANGED <<main, retry>> /\ r \notin Publishing
  BY DEF Get, Goto, Sound, At, Holds, Publishing
<1>3. /\ dlq \in Seq(Messages(O, Requests)) /\ main \in Seq(Messages(O, H))
      /\ retry \in Seq(Messages(O, {}))
  BY DEF Sound, Queues
<1>4. /\ dlq[k] \in Messages(O, Requests) /\ dlq[k].holder = Free
  BY <1>2, <1>3, FirstReadyIsReady
<1>5. /\ m \in Messages(O, Requests) /\ m.holder = r /\ m.order = dlq[k].order
      /\ Hold(dlq, r) \in Seq(Messages(O, Requests))
      /\ \A P : Count(Hold(dlq, r), P) =
                  Count(dlq, P) - (IF dlq[k] \in P THEN 1 ELSE 0)
                                + (IF m \in P THEN 1 ELSE 0)
  BY <1>2, <1>3, HoldMessage
<1> HIDE DEF x, k, m
<1>6. ASSUME NEW s \in Requests
      PROVE  Count(dlq', By(O, Requests, s)) =
               Count(dlq, By(O, Requests, s)) + IF s = r THEN 1 ELSE 0
  <2>1. dlq[k] \notin By(O, Requests, s)
    BY <1>4, FreeAssumption DEF By
  <2>2. m \in By(O, Requests, s) <=> s = r
    BY <1>5 DEF By
  <2>3. Count(dlq, By(O, Requests, s)) \in Nat
    BY <1>3, CountType
  <2> QED
    BY <1>2, <1>5, <2>1, <2>2, <2>3
<1>7. Count(dlq, By(O, Requests, r)) = 0
  BY <1>2 DEF Sound
<1>8. \A s \in Requests : Count(dlq, By(O, Requests, s)) \in Nat
  BY <1>3, CountType
<1>9. Queues(O, H)'
  BY <1>2, <1>3, <1>5 DEF Queues
<1>10. Sound(O, H)' /\ Publishing' = Publishing
  <2>1. Count(dlq', By(O, Requests, r)) =
          IF x.stage \in {"holding", "published"} THEN 1 ELSE 0
    BY <1>1, <1>6, <1>7
  <2>2. \A s \in Requests \ {r} :
          Count(dlq', By(O, Requests, s)) = Count(dlq, By(O, Requests, s))
    BY <1>6, <1>8
  <2>3. /\ Sound(O, H)'
        /\ Publishing' = IF x.stage = "published" THEN Publishing \cup {r}
                         ELSE Publishing \ {r}
    BY <1>1, <1>2, <1>9, <2>1, <2>2, MoveStep
  <2> QED
    BY <1>1, <1>2, <2>3
<1>11. ASSUME NEW o
       PROVE  Lasts(O, H, o)' = Lasts(O, H, o) /\ Lasts(O, H, o) \in Nat
  <2>1. dlq[k] \in Stays(O, o) <=> m \in Stays(O, o)
    BY <1>2, <1>4, <1>5, FreeAssumption DEF Stays, Of, Publishing
  <2>2. Count(dlq', Stays(O, o)) = Count(dlq, Stays(O, o))
    <3> DEFINE P == Stays(O, o)
    <3> HIDE DEF P
    <3>1. Count(dlq, P) \in Nat
      BY <1>3, CountType
    <3>2. dlq[k] \in P <=> m \in P
      BY <2>1 DEF P
    <3>3. Count(dlq', P) = Count(dlq, P) - (IF dlq[k] \in P THEN 1 ELSE 0)
                                         + (IF m \in P THEN 1 ELSE 0)
      BY <1>2, <1>5
    <3>4. Count(dlq', P) = Count(dlq, P)
      BY <3>1, <3>2, <3>3
    <3> QED
      BY <3>4 DEF P
  <2>3. Stays(O, o)' = Stays(O, o)
    BY <1>10 DEF Stays
  <2> QED
    BY <1>2, <2>2, <2>3, LastsType DEF Sound, Lasts, Waiting
<1> QED
  BY <1>2, <1>10, <1>11 DEF Keeps, KeepsHeld

LEMMA NextState ==
  ASSUME request \in [Requests -> RequestStates], NEW r \in Requests,
         request[r].left > 0, Iterate(r) \/ Conclude(r)
  PROVE  \E x \in RequestStates :
           x.stage \in {"loop", "done"} /\ request' = [request EXCEPT ![r] = x]
<1>1. CASE Iterate(r)
  <2> DEFINE x == [request[r] EXCEPT !.stage = "loop", !.left = @ - 1]
  <2>1. request[r].left - 1 \in Nat
    BY DEF RequestStates
  <2>2. x \in RequestStates /\ x.stage = "loop"
    BY <2>1 DEF RequestStates, Stages
  <2>3. request' = [request EXCEPT ![r] = x]
    BY <1>1 DEF Iterate
  <2> QED
    BY <2>2, <2>3
<1>2. CASE Conclude(r)
  <2> DEFINE x == [request[r] EXCEPT !.stage = "done", !.found = TRUE]
  <2>1. x \in RequestStates /\ x.stage = "done"
    BY DEF RequestStates, Stages
  <2>2. request' = [request EXCEPT ![r] = x]
    BY <1>2 DEF Conclude
  <2> QED
    BY <2>1, <2>2
<1> QED
  BY <1>1, <1>2

\* A message put back stays where it was, nobody's again.
LEMMA PutBackStep ==
  ASSUME NEW O, NEW H, Sound(O, H), NEW r \in Requests, PutBack(r)
  PROVE  Sound(O, H)' /\ Keeps(O, H) /\ KeepsHeld(O, H)
<1>1. /\ dlq \in Seq(Messages(O, Requests)) /\ main \in Seq(Messages(O, H))
      /\ retry \in Seq(Messages(O, {}))
      /\ request \in [Requests -> RequestStates]
  BY DEF Sound, Queues
<1>2. /\ dlq' = Release(dlq, {r}) /\ UNCHANGED <<main, retry>>
      /\ Iterate(r) /\ Holds(r) /\ request[r].left > 0 /\ r \notin Publishing
  BY DEF PutBack, At, Holds, Publishing, Sound
<1>3. PICK x \in RequestStates :
        x.stage \in {"loop", "done"} /\ request' = [request EXCEPT ![r] = x]
  BY <1>1, <1>2, NextState
<1> DEFINE p == Release(dlq, {r})
<1>4. /\ p \in Seq(Messages(O, Requests)) /\ DOMAIN p = DOMAIN dlq
      /\ \A k \in DOMAIN dlq :
           /\ p[k] \in Messages(O, Requests) /\ dlq[k] \in Messages(O, Requests)
           /\ p[k].order = dlq[k].order
           /\ dlq[k].holder # r => p[k] = dlq[k]
           /\ dlq[k].holder = r => p[k].holder = Free
  BY <1>1, ReleaseMessages
<1>5. /\ Count(p, By(O, Requests, r)) = 0
      /\ \A s \in Requests \ {r} :
           Count(p, By(O, Requests, s)) = Count(dlq, By(O, Requests, s))
  <2>1. Free \notin {r} /\ \A s \in Requests : s # Free
    BY FreeAssumption
  <2> HIDE DEF p
  <2>2. /\ \A h \in {r} : Count(p, By(O, Requests, h)) = 0
        /\ \A h : h # Free /\ h \notin {r} =>
             Count(p, By(O, Requests, h)) = Count(dlq, By(O, Requests, h))
    BY <1>1, <2>1, ReleaseCounts, SMTT(60) DEF p
  <2> QED
    BY <2>1, <2>2
<1> HIDE DEF p
<1>6. Queues(O, H)'
  BY <1>1, <1>2, <1>4 DEF Queues, p
<1>7. Sound(O, H)' /\ Publishing' = Publishing
  <2>1. /\ Sound(O, H)'
        /\ Publishing' = IF x.stage = "published" THEN Publishing \cup {r}
                         ELSE Publishing \ {r}
    BY <1>2, <1>3, <1>5, <1>6, MoveStep DEF p
  <2> QED
    BY <1>2, <1>3, <2>1
<1>8. ASSUME NEW o
      PROVE  Lasts(O, H, o)' = Lasts(O, H, o) /\ Lasts(O, H, o) \in Nat
  <2>1. \A k \in DOMAIN dlq : p[k] \in Stays(O, o) <=> dlq[k] \in Stays(O, o)
    BY <1>2, <1>4, FreeAssumption DEF Stays, Of, Publishing
  <2>2. Count(p, Stays(O, o)) = Count(dlq, Stays(O, o))
    BY <1>4, <2>1, CountSame
  <2>3. Stays(O, o)' = Stays(O, o)
    BY <1>7 DEF Stays
  <2> QED
    BY <1>2, <2>2, <2>3, LastsType DEF Sound, Lasts, Waiting, p
<1> QED
  BY <1>2, <1>7, <1>8 DEF Keeps, KeepsHeld

\* The copy a request publishes lasts from now on, the one it holds no longer.
LEMMA RepublishStep ==
  ASSUME NEW O, NEW H, Sound(O, H), NEW r \in Requests, Republish(r)
  PROVE  Sound(O, H)' /\ Keeps(O, H) /\ KeepsHeld(O, H)
<1> DEFINE x == [request[r] EXCEPT !.stage = "published"]
           B == By(O, Requests, r)
<1>1. /\ dlq \in Seq(Messages(O, Requests)) /\ main \in Seq(Messages(O, H))
      /\ retry \in Seq(Messages(O, {}))
  BY DEF Sound, Queues
<1>2. /\ request' = [request EXCEPT ![r] = x] /\ Holds(r)
      /\ dlq' = dlq /\ r \notin Publishing
  BY DEF Republish, Goto, Sound, At, Holds, Publishing
<1>3. x \in RequestStates /\ x.stage = "published" /\ x.left > 0
  BY <1>2 DEF Sound, RequestStates, Stages
<1>4. /\ Message(r) \in Messages(O, Requests) /\ Message(r).holder = r
      /\ Count(dlq, B) = 1
  BY <1>2, HeldByRequest
<1>5. PICK o \in O : o = Message(r).order
  BY <1>4 DEF Messages
<1>6. PublishMain(o)
  BY <1>5 DEF Republish
<1>7. /\ main' \in Seq(Messages(O, H)) /\ retry' \in Seq(Messages(O, {}))
      /\ \A p : Waiting(O, H, p)' = Waiting(O, H, p) + IF p = o THEN 1 ELSE 0
      /\ KeepsHeld(O, H)
  BY <1>1, <1>6, PublishMessage DEF KeepsHeld
<1> HIDE DEF x
<1>8. Sound(O, H)' /\ Publishing' = Publishing \cup {r}
  <2>1. Queues(O, H)'
    BY <1>1, <1>2, <1>7 DEF Queues
  <2>2. /\ Sound(O, H)'
        /\ Publishing' = IF x.stage = "published" THEN Publishing \cup {r}
                         ELSE Publishing \ {r}
    BY <1>2, <1>3, <1>4, <2>1, MoveStep
  <2> QED
    BY <1>3, <2>2
<1>9. ASSUME NEW p
      PROVE  Lasts(O, H, p)' = Lasts(O, H, p) /\ Lasts(O, H, p) \in Nat
  <2> DEFINE P == Stays(O, p)
             Q == P \cap B
             R == P \ B
  <2>1. Stays(O, p)' = R
    BY <1>2, <1>8 DEF Stays, Of, By
  <2>2. Message(r) \in P <=> p = o
    BY <1>2, <1>4, <1>5 DEF Stays, Of
  <2>3. Count(dlq, Q) = IF Message(r) \in P THEN 1 ELSE 0
    BY <1>1, <1>4, OneHeld DEF Message
  <2>4. P = Q \cup R /\ Q \cap R = {}
    OBVIOUS
  <2> HIDE DEF P, Q, R
  <2>5. Count(dlq, P) = Count(dlq, Q) + Count(dlq, R)
    BY <1>1, <2>4, CountSplit
  <2>6. Count(dlq, R) \in Nat /\ Waiting(O, H, p) \in Nat
    BY <1>1, CountType, LastsType DEF Sound
  <2>7. /\ Lasts(O, H, p)' = Waiting(O, H, p)' + Count(dlq, R)
        /\ Lasts(O, H, p) = Waiting(O, H, p) + Count(dlq, P)
    BY <1>2, <2>1 DEF Lasts, P
  <2> QED
    BY <1>7, <2>2, <2>3, <2>5, <2>6, <2>7
<1> QED
  BY <1>7, <1>8, <1>9 DEF Keeps

\* The message of a request leaves with its ack.
LEMMA AckStep ==
  ASSUME NEW O, NEW H, Sound(O, H), NEW r \in Requests, Holds(r),
         dlq' = Acked(dlq, r), UNCHANGED <<main, retry>>,
         Iterate(r) \/ Conclude(r)
  PROVE  /\ Sound(O, H)' /\ KeepsHeld(O, H) /\ Publishing' = Publishing \ {r}
         /\ \A P : Count(dlq', P) =
                     Count(dlq, P) - IF Message(r) \in P THEN 1 ELSE 0
<1>1. /\ dlq \in Seq(Messages(O, Requests)) /\ main \in Seq(Messages(O, H))
      /\ retry \in Seq(Messages(O, {}))
      /\ request \in [Requests -> RequestStates] /\ request[r].left > 0
  BY DEF Sound, Queues
<1>2. /\ Message(r).holder = r /\ Message(r) \in Messages(O, Requests)
      /\ Count(dlq, By(O, Requests, r)) = 1
  BY HeldByRequest
<1>3. /\ dlq' \in Seq(Messages(O, Requests))
      /\ \A P : Count(dlq', P) =
                  Count(dlq, P) - IF Message(r) \in P THEN 1 ELSE 0
  BY <1>1, <1>2, AckMessage DEF Message
<1>4. PICK x \in RequestStates :
        x.stage \in {"loop", "done"} /\ request' = [request EXCEPT ![r] = x]
  BY <1>1, NextState
<1>5. \A s \in Requests : Message(r) \in By(O, Requests, s) <=> s = r
  BY <1>2 DEF By
<1>6. \A s \in Requests : Count(dlq, By(O, Requests, s)) \in Nat
  BY <1>1, CountType
<1>7. /\ Count(dlq', By(O, Requests, r)) = 0
      /\ \A s \in Requests \ {r} :
           Count(dlq', By(O, Requests, s)) = Count(dlq, By(O, Requests, s))
  BY <1>2, <1>3, <1>5, <1>6
<1>8. Queues(O, H)'
  BY <1>1, <1>3 DEF Queues
<1>9. Sound(O, H)' /\ Publishing' = Publishing \ {r}
  <2>1. /\ Sound(O, H)'
        /\ Publishing' = IF x.stage = "published" THEN Publishing \cup {r}
                         ELSE Publishing \ {r}
    BY <1>4, <1>7, <1>8, MoveStep
  <2> QED
    BY <1>4, <2>1
<1> QED
  BY <1>3, <1>9 DEF KeepsHeld

\* The message acked after its publication did not last.
LEMMA AckRepublishedStep ==
  ASSUME NEW O, NEW H, Sound(O, H), NEW r \in Requests, AckRepublished(r)
  PROVE  Sound(O, H)' /\ Keeps(O, H) /\ KeepsHeld(O, H)
<1>1. /\ Holds(r) /\ r \in Publishing
      /\ dlq' = Acked(dlq, r) /\ UNCHANGED <<main, retry>>
      /\ Iterate(r) \/ Conclude(r)
  BY DEF AckRepublished, Holds, Publishing, At
<1>2. /\ Sound(O, H)' /\ KeepsHeld(O, H) /\ Publishing' = Publishing \ {r}
      /\ \A P : Count(dlq', P) =
                  Count(dlq, P) - IF Message(r) \in P THEN 1 ELSE 0
  BY <1>1, AckStep
<1>3. Count(dlq, By(O, Requests, r)) = 1 /\ dlq \in Seq(Messages(O, Requests))
  BY <1>1, HeldByRequest DEF Sound, Queues
<1>4. ASSUME NEW p
      PROVE  Lasts(O, H, p)' = Lasts(O, H, p) /\ Lasts(O, H, p) \in Nat
  <2> DEFINE P == {m \in Of(O, Requests, p) : m.holder \notin Publishing \ {r}}
             B == By(O, Requests, r)
             Q == P \cap B
             R == Stays(O, p)
  <2>1. Stays(O, p)' = P
    BY <1>2 DEF Stays
  <2>2. P = Q \cup R /\ Q \cap R = {}
    BY <1>1 DEF Stays, Of, By
  <2>3. Count(dlq, Q) = IF Message(r) \in P THEN 1 ELSE 0
    BY <1>3, OneHeld DEF Message
  <2> HIDE DEF P, Q, R
  <2>4. Count(dlq, P) = Count(dlq, Q) + Count(dlq, R)
    BY <1>3, <2>2, CountSplit
  <2>5. Count(dlq', P) = Count(dlq, P) - IF Message(r) \in P THEN 1 ELSE 0
    BY <1>2
  <2>6. Count(dlq, R) \in Nat
    BY <1>3, CountType
  <2>7. Count(dlq', P) = Count(dlq, R)
    BY <2>3, <2>4, <2>5, <2>6
  <2> QED
    BY <1>1, <2>1, <2>7, LastsType DEF Lasts, Waiting, R, Sound
<1> QED
  BY <1>2, <1>4 DEF Keeps

\* A discarded message is one of a removed order.
LEMMA DiscardStep ==
  ASSUME NEW O, NEW H, Sound(O, H), NEW r \in Requests, Discard(r)
  PROVE  /\ Sound(O, H)' /\ Keeps(O, H) /\ KeepsHeld(O, H)
         /\ removed' \subseteq removed \cup O
<1>1. /\ Holds(r) /\ r \notin Publishing
      /\ dlq' = Acked(dlq, r) /\ UNCHANGED <<main, retry>>
      /\ Iterate(r) \/ Conclude(r)
      /\ removed' = removed \cup {Message(r).order}
  BY DEF Discard, Holds, Publishing, At
<1>2. /\ Sound(O, H)' /\ KeepsHeld(O, H) /\ Publishing' = Publishing
      /\ \A P : Count(dlq', P) =
                  Count(dlq, P) - IF Message(r) \in P THEN 1 ELSE 0
  BY <1>1, AckStep
<1>3. Message(r) \in Messages(O, Requests)
  BY <1>1, HeldByRequest
<1>4. ASSUME NEW p
      PROVE  /\ Lasts(O, H, p)' <= Lasts(O, H, p)
             /\ Lasts(O, H, p)' = Lasts(O, H, p) \/ p \in removed'
  <2> DEFINE P == Stays(O, p)
  <2>1. Stays(O, p)' = P
    BY <1>2 DEF Stays
  <2>2. Message(r) \in P => p \in removed'
    BY <1>1 DEF Stays, Of
  <2> HIDE DEF P
  <2>3. Count(dlq', P) = Count(dlq, P) - IF Message(r) \in P THEN 1 ELSE 0
    BY <1>2
  <2>4. Count(dlq, P) \in Nat /\ Waiting(O, H, p) \in Nat
    BY LastsType DEF Sound, P
  <2>5. Waiting(O, H, p)' = Waiting(O, H, p)
    BY <1>1 DEF Waiting
  <2>6. /\ Lasts(O, H, p) = Waiting(O, H, p) + Count(dlq, P)
        /\ Lasts(O, H, p)' = Waiting(O, H, p) + Count(dlq', P)
    BY <2>1, <2>5 DEF Lasts, P
  <2> QED
    BY <2>2, <2>3, <2>4, <2>6
<1>5. removed' \subseteq removed \cup O
  BY <1>1, <1>3 DEF Messages
<1> QED
  BY <1>2, <1>4, <1>5 DEF Keeps

\* A purge removes the messages nobody holds, all of them of removed orders.
LEMMA PurgeStep ==
  ASSUME NEW O, NEW H, Sound(O, H), NEW r \in Requests, Purge(r)
  PROVE  /\ Sound(O, H)' /\ Keeps(O, H) /\ KeepsHeld(O, H)
         /\ removed' \subseteq removed \cup O
<1> DEFINE x == [request[r] EXCEPT !.op = "purge", !.stage = "done"]
           K == HeldKind(O, Requests)
<1>1. /\ dlq \in Seq(Messages(O, Requests)) /\ main \in Seq(Messages(O, H))
      /\ retry \in Seq(Messages(O, {}))
  BY DEF Sound, Queues
<1>2. /\ request' = [request EXCEPT ![r] = x] /\ ~Holds(r) /\ r \notin Publishing
      /\ dlq' = Purged(dlq) /\ UNCHANGED <<main, retry>>
      /\ removed' = removed \cup {dlq[k].order : k \in Ready(dlq)}
  BY DEF Purge, Sound, At, Holds, Publishing
<1>3. x \in RequestStates /\ x.stage = "done"
  BY DEF Sound, RequestStates, Stages, TargetedOps, QueueOps
<1>4. /\ dlq' \in Seq(Messages(O, Requests))
      /\ \A P : Count(dlq', P) = Count(dlq, P \cap K)
  BY <1>1, <1>2, PurgeQueue
<1> HIDE DEF x
<1>5. ASSUME NEW s \in Requests
      PROVE  Count(dlq', By(O, Requests, s)) = Count(dlq, By(O, Requests, s))
  <2>1. By(O, Requests, s) \cap K = By(O, Requests, s)
    BY FreeAssumption DEF By, HeldKind
  <2> QED
    BY <1>4, <2>1
<1>6. Sound(O, H)' /\ Publishing' = Publishing
  <2>1. Queues(O, H)'
    BY <1>1, <1>2, <1>4 DEF Queues
  <2>2. Count(dlq', By(O, Requests, r)) = 0
    BY <1>2, <1>5 DEF Sound
  <2>3. /\ Sound(O, H)'
        /\ Publishing' = IF x.stage = "published" THEN Publishing \cup {r}
                         ELSE Publishing \ {r}
    BY <1>2, <1>3, <1>5, <2>1, <2>2, MoveStep
  <2> QED
    BY <1>2, <1>3, <2>3
<1>7. ASSUME NEW p
      PROVE  /\ Lasts(O, H, p)' <= Lasts(O, H, p)
             /\ Lasts(O, H, p)' = Lasts(O, H, p) \/ p \in removed'
  <2> DEFINE P == Stays(O, p)
             Q == P \cap K
             R == P \ K
  <2>1. P = Q \cup R /\ Q \cap R = {} /\ Stays(O, p)' = P
    BY <1>6 DEF Stays
  <2>2. Count(dlq, R) = 0 \/ p \in removed'
    <3>1. SUFFICES ASSUME NEW k \in DOMAIN dlq, dlq[k] \in R
                   PROVE  p \in removed'
      <4> HIDE DEF R
      <4> QED
        BY <1>1, CountType
    <3>2. dlq[k].order = p /\ dlq[k].holder = Free
      BY <3>1 DEF Stays, Of, HeldKind
    <3> QED
      BY <1>2, <3>2 DEF Ready
  <2> HIDE DEF P, Q, R
  <2>3. Count(dlq, P) = Count(dlq, Q) + Count(dlq, R)
    BY <1>1, <2>1, CountSplit
  <2>4. Count(dlq', P) = Count(dlq, Q)
    BY <1>4 DEF Q
  <2>5. /\ Count(dlq, Q) \in Nat /\ Count(dlq, R) \in Nat
        /\ Waiting(O, H, p) \in Nat
    BY <1>1, CountType, LastsType DEF Sound
  <2>6. /\ Lasts(O, H, p) = Waiting(O, H, p) + Count(dlq, P)
        /\ Lasts(O, H, p)' = Waiting(O, H, p) + Count(dlq', P)
    BY <1>2, <2>1 DEF Lasts, Waiting, P
  <2> QED
    BY <2>2, <2>3, <2>4, <2>5, <2>6
<1>8. removed' \subseteq removed \cup O
  <2>1. \A k \in DOMAIN dlq : dlq[k] \in Messages(O, Requests)
    BY <1>1
  <2>2. \A k \in Ready(dlq) : dlq[k].order \in O
    BY <2>1 DEF Ready, Messages
  <2> QED
    BY <1>2, <2>2
<1> QED
  BY <1>2, <1>6, <1>7, <1>8 DEF Keeps, KeepsHeld

-----------------------------------------------------------------------------
(* Requests that lose their channel *)

\* The dead-letter queue as it is, or with one more message nobody holds.
Extends(O, q) ==
  \/ dlq' = q
  \/ \E f \in Messages(O, Requests) : f.holder = Free /\ dlq' = Append(q, f)

\* Whatever requests stop, their messages stay and last, one that is published
\* as they stop included.
LEMMA AbortStep ==
  ASSUME NEW O, NEW H, Sound(O, H), NEW rs, rs \subseteq Requests,
         FailRequests(rs), Extends(O, Release(dlq, rs)),
         main' \in Seq(Messages(O, H)), retry' \in Seq(Messages(O, {})),
         \A o : Waiting(O, H, o)' = Waiting(O, H, o)
  PROVE  /\ Sound(O, H)'
         /\ \A o : /\ Lasts(O, H, o) <= Lasts(O, H, o)'
                   /\ \A r : rs = {r} /\ dlq' = Release(dlq, rs)
                              => Lasts(O, H, o)' <= Lasts(O, H, o) + 1
<1> DEFINE p == Release(dlq, rs)
<1>1. /\ dlq \in Seq(Messages(O, Requests)) /\ Extends(O, p)
      /\ request \in [Requests -> RequestStates] /\ Free \notin rs
      /\ \A s \in Requests : s # Free
  BY FreeAssumption DEF Sound, Queues
<1>2. \A r \in Requests : request'[r] = IF r \in rs /\ Active(r)
                                        THEN [request[r] EXCEPT !.stage = "failed"]
                                        ELSE request[r]
  BY DEF FailRequests
<1>3. \A r \in Requests : Holds(r)' <=> Holds(r) /\ r \notin rs
  BY <1>1, <1>2 DEF Holds, Active, RequestStates
<1>4. Publishing' = Publishing \ rs
  BY <1>1, <1>2 DEF Publishing, At, Active, RequestStates
<1>5. request' \in [Requests -> RequestStates]
  <2>1. \A r \in Requests : [request[r] EXCEPT !.stage = "failed"] \in RequestStates
    BY <1>1 DEF RequestStates, Stages
  <2>2. request' = [r \in Requests |->
                      IF r \in rs /\ Active(r)
                      THEN [request[r] EXCEPT !.stage = "failed"] ELSE request[r]]
    BY DEF FailRequests
  <2> HIDE DEF RequestStates
  <2> QED
    BY <1>1, <2>1, <2>2
<1>6. /\ p \in Seq(Messages(O, Requests)) /\ DOMAIN p = DOMAIN dlq
      /\ \A k \in DOMAIN dlq :
           /\ p[k] \in Messages(O, Requests) /\ dlq[k] \in Messages(O, Requests)
           /\ p[k].order = dlq[k].order
           /\ dlq[k].holder \notin rs => p[k] = dlq[k]
           /\ dlq[k].holder \in rs => p[k].holder = Free
  BY <1>1, ReleaseMessages
<1>7. /\ \A s \in rs : Count(p, By(O, Requests, s)) = 0
      /\ \A s \in Requests \ rs :
           Count(p, By(O, Requests, s)) = Count(dlq, By(O, Requests, s))
  BY <1>1, ReleaseCounts
<1> HIDE DEF p
<1>8. /\ dlq' \in Seq(Messages(O, Requests))
      /\ \A s \in Requests :
           Count(dlq', By(O, Requests, s)) = Count(p, By(O, Requests, s))
      /\ \A S : Count(p, S) <= Count(dlq', S)
  <2>1. \A S : Count(p, S) \in Nat
    BY <1>6, CountType
  <2>2. CASE dlq' = p
    BY <1>6, <2>1, <2>2
  <2>3. ASSUME NEW f \in Messages(O, Requests), f.holder = Free, dlq' = Append(p, f)
        PROVE  /\ dlq' \in Seq(Messages(O, Requests))
               /\ \A s \in Requests :
                    Count(dlq', By(O, Requests, s)) = Count(p, By(O, Requests, s))
               /\ \A S : Count(p, S) <= Count(dlq', S)
    <3>1. /\ dlq' \in Seq(Messages(O, Requests))
          /\ \A S : Count(dlq', S) = Count(p, S) + IF f \in S THEN 1 ELSE 0
      BY <1>6, <2>3, CountAppend
    <3>2. \A s \in Requests : f \notin By(O, Requests, s)
      BY <1>1, <2>3 DEF By
    <3> QED
      BY <2>1, <3>1, <3>2
  <2> QED
    BY <1>1, <2>2, <2>3 DEF Extends
<1>9. Sound(O, H)'
  <2>1. Queues(O, H)'
    BY <1>8 DEF Queues
  <2>2. \A r \in Requests : Holds(r)' => request'[r].left > 0
    BY <1>2, <1>3 DEF Sound
  <2>3. \A r \in Requests :
          Count(dlq', By(O, Requests, r)) = IF Holds(r)' THEN 1 ELSE 0
    BY <1>8, <1>3, <1>7 DEF Sound
  <2> QED
    BY <1>5, <2>1, <2>2, <2>3 DEF Sound
<1>10. ASSUME NEW o
      PROVE  /\ Lasts(O, H, o) <= Lasts(O, H, o)'
             /\ \A r : rs = {r} /\ dlq' = p
                        => Lasts(O, H, o)' <= Lasts(O, H, o) + 1
  <2> DEFINE P == Stays(O, o)
             S == {m \in Of(O, Requests, o) : m.holder \notin Publishing \ rs}
  <2>1. Stays(O, o)' = S
    BY <1>4 DEF Stays
  <2>2. \A k \in DOMAIN dlq : dlq[k] \in P => p[k] \in S
    BY <1>1, <1>6 DEF Stays, Of, Publishing
  <2>3. \A k \in DOMAIN p : p[k] \in S => dlq[k] \in P \/ dlq[k].holder \in rs
    BY <1>1, <1>6 DEF Stays, Of, Publishing
  <2> HIDE DEF P, S
  <2>4. Count(dlq, P) <= Count(p, S)
    <3>1. DOMAIN dlq = DOMAIN p
      BY <1>6
    <3> QED
      BY <1>6, <2>2, <3>1, CountAtLeast
  <2>5. /\ Count(dlq, P) \in Nat /\ Count(p, S) \in Nat
        /\ Count(dlq', S) \in Nat /\ Count(p, S) <= Count(dlq', S)
        /\ Waiting(O, H, o) \in Nat
    BY <1>8, <1>1, <1>6, CountType, LastsType DEF Sound
  <2>6. /\ Lasts(O, H, o) = Waiting(O, H, o) + Count(dlq, P)
        /\ Lasts(O, H, o)' = Waiting(O, H, o) + Count(dlq', S)
    BY <2>1 DEF Lasts, P
  <2>7. ASSUME NEW r, rs = {r}
        PROVE  Count(p, S) <= Count(dlq, P) + 1
    <3> DEFINE B == By(O, Requests, r)
               R == P \ B
               U == B \cup R
    <3>1. \A k \in DOMAIN p : p[k] \in S => dlq[k] \in U
      BY <1>6, <2>3, <2>7 DEF By
    <3>2. B \cap R = {} /\ \A k \in DOMAIN dlq : dlq[k] \in R => dlq[k] \in P
      OBVIOUS
    <3>3. r \in Requests
      BY <2>7
    <3>4. Count(dlq, B) \in Nat /\ Count(dlq, B) <= 1
      BY <3>3 DEF Sound
    <3> HIDE DEF B, R
    <3>5. Count(dlq, U) = Count(dlq, B) + Count(dlq, R)
      BY <1>1, <3>2, CountSplit
    <3>6. Count(dlq, R) <= Count(dlq, P)
      BY <1>1, <3>2, CountAtLeast
    <3> HIDE DEF U
    <3>7. Count(p, S) <= Count(dlq, U)
      BY <1>1, <1>6, <3>1, CountAtLeast
    <3>8. Count(dlq, R) \in Nat /\ Count(dlq, U) \in Nat
      BY <1>1, CountType
    <3> QED
      BY <2>5, <3>4, <3>5, <3>6, <3>7, <3>8
  <2>8. Lasts(O, H, o) <= Lasts(O, H, o)'
    BY <2>4, <2>5, <2>6
  <2>9. ASSUME NEW r, rs = {r}, dlq' = p
        PROVE  Lasts(O, H, o)' <= Lasts(O, H, o) + 1
    <3>1. Count(p, S) <= Count(dlq, P) + 1
      BY <2>7, <2>9
    <3> QED
      BY <2>5, <2>6, <2>9, <3>1
  <2> QED
    BY <2>8, <2>9
<1> QED
  BY <1>9, <1>10 DEF p

-----------------------------------------------------------------------------
(* Steps of the broker *)

\* No request moves, and each holds what it held.
LEMMA QuietStep ==
  ASSUME NEW O, NEW H, Sound(O, H), Queues(O, H)', UNCHANGED request,
         \A s \in Requests :
           Count(dlq', By(O, Requests, s)) = Count(dlq, By(O, Requests, s))
  PROVE  Sound(O, H)' /\ Publishing' = Publishing
<1>1. \A s \in Requests : Holds(s)' <=> Holds(s)
  BY DEF Holds
<1>2. /\ request' \in [Requests -> RequestStates]
      /\ \A s \in Requests : Holds(s)' => request'[s].left > 0
      /\ \A s \in Requests :
           Count(dlq', By(O, Requests, s)) = IF Holds(s)' THEN 1 ELSE 0
  BY <1>1 DEF Sound
<1> QED
  BY <1>2 DEF Sound, Publishing, At

LEMMA DlqExpiresStep ==
  ASSUME NEW O, NEW H, Sound(O, H), DlqExpires
  PROVE  /\ Sound(O, H)' /\ Keeps(O, H) /\ KeepsHeld(O, H)
         /\ removed' \subseteq removed \cup O
<1> DEFINE k == FirstReady(dlq)
<1>1. /\ dlq \in Seq(Messages(O, Requests)) /\ main \in Seq(Messages(O, H))
      /\ retry \in Seq(Messages(O, {})) /\ Ready(dlq) # {}
      /\ dlq' = RemoveAt(dlq, k) /\ UNCHANGED <<main, retry, request>>
      /\ removed' = removed \cup {dlq[k].order}
  BY DEF Sound, Queues, DlqExpires, ExpireDlq
<1>2. /\ dlq[k] \in Messages(O, Requests) /\ dlq[k].holder = Free
  BY <1>1, FirstReadyIsReady
<1>3. /\ dlq' \in Seq(Messages(O, Requests))
      /\ \A P : Count(dlq', P) = Count(dlq, P) - IF dlq[k] \in P THEN 1 ELSE 0
  BY <1>1, RemoveReady
<1> HIDE DEF k
<1>4. ASSUME NEW s \in Requests
      PROVE  Count(dlq', By(O, Requests, s)) = Count(dlq, By(O, Requests, s))
  <2>1. dlq[k] \notin By(O, Requests, s) /\ Count(dlq, By(O, Requests, s)) \in Nat
    BY <1>1, <1>2, FreeAssumption, CountType DEF By
  <2> QED
    BY <1>3, <2>1
<1>5. Queues(O, H)'
  BY <1>1, <1>3 DEF Queues
<1>6. Sound(O, H)' /\ Publishing' = Publishing
  BY <1>1, <1>4, <1>5, QuietStep
<1>7. ASSUME NEW p
      PROVE  /\ Lasts(O, H, p)' <= Lasts(O, H, p)
             /\ Lasts(O, H, p)' = Lasts(O, H, p) \/ p \in removed'
  <2> DEFINE P == Stays(O, p)
  <2>1. Stays(O, p)' = P /\ (dlq[k] \in P => p \in removed')
    BY <1>1, <1>6 DEF Stays, Of
  <2> HIDE DEF P
  <2>2. Count(dlq', P) = Count(dlq, P) - IF dlq[k] \in P THEN 1 ELSE 0
    BY <1>3
  <2>3. Count(dlq, P) \in Nat /\ Waiting(O, H, p) \in Nat
    BY LastsType DEF Sound, P
  <2>4. /\ Lasts(O, H, p) = Waiting(O, H, p) + Count(dlq, P)
        /\ Lasts(O, H, p)' = Waiting(O, H, p) + Count(dlq', P)
    BY <1>1, <2>1 DEF Lasts, Waiting, P
  <2> QED
    BY <2>1, <2>2, <2>3, <2>4
<1>8. dlq[k].order \in O
  BY <1>2 DEF Messages
<1> QED
  BY <1>1, <1>6, <1>7, <1>8 DEF Keeps, KeepsHeld

LEMMA MessageDiesStep ==
  ASSUME NEW O, NEW H, Sound(O, H), MessageDies
  PROVE  Sound(O, H)' /\ Keeps(O, H) /\ KeepsHeld(O, H)
<1>1. /\ dlq \in Seq(Messages(O, Requests)) /\ main \in Seq(Messages(O, H))
      /\ retry \in Seq(Messages(O, {})) /\ UNCHANGED request
  BY DEF Sound, Queues, MessageDies
<1>2. CASE ExpireMain
  <2>1. /\ main' \in Seq(Messages(O, H)) /\ retry' \in Seq(Messages(O, {}))
        /\ \A p : Waiting(O, H, p)' = Waiting(O, H, p)
        /\ KeepsHeld(O, H)
    BY <1>1, <1>2, ExpireMainMessage DEF KeepsHeld
  <2>2. dlq' = dlq
    BY <1>2 DEF ExpireMain
  <2>3. Queues(O, H)'
    BY <1>1, <2>1, <2>2 DEF Queues
  <2>4. Sound(O, H)' /\ Publishing' = Publishing
    BY <1>1, <2>2, <2>3, QuietStep
  <2>5. ASSUME NEW p
        PROVE  Lasts(O, H, p)' = Lasts(O, H, p) /\ Lasts(O, H, p) \in Nat
    BY <2>1, <2>2, <2>4, LastsType DEF Lasts, Stays, Sound
  <2> QED
    BY <2>1, <2>4, <2>5 DEF Keeps
<1>3. CASE ExpireRetry
  <2> DEFINE m == Head(retry)
  <2>1. /\ m \in Messages(O, {})
        /\ retry' \in Seq(Messages(O, {})) /\ dlq' \in Seq(Messages(O, Requests))
        /\ \A P : Count(retry, P) = Count(retry', P) + IF m \in P THEN 1 ELSE 0
        /\ \A P : Count(dlq', P) = Count(dlq, P) + IF m \in P THEN 1 ELSE 0
    BY <1>1, <1>3, ExpireRetryMessage
  <2>2. main' = main
    BY <1>3 DEF ExpireRetry
  <2>3. m \in Messages(O, Requests) /\ m.holder = Free
    BY <2>1 DEF Messages
  <2> HIDE DEF m
  <2>4. ASSUME NEW s \in Requests
        PROVE  Count(dlq', By(O, Requests, s)) = Count(dlq, By(O, Requests, s))
    <3>1. m \notin By(O, Requests, s) /\ Count(dlq, By(O, Requests, s)) \in Nat
      BY <1>1, <2>3, FreeAssumption, CountType DEF By
    <3> QED
      BY <2>1, <3>1
  <2>5. Queues(O, H)'
    BY <1>1, <2>1, <2>2 DEF Queues
  <2>6. Sound(O, H)' /\ Publishing' = Publishing
    BY <1>1, <2>4, <2>5, QuietStep
  <2>7. ASSUME NEW p
        PROVE  Lasts(O, H, p)' = Lasts(O, H, p) /\ Lasts(O, H, p) \in Nat
    <3> DEFINE P == Stays(O, p)
               R == Of(O, {}, p)
    <3>1. Stays(O, p)' = P /\ (m \in R <=> m \in P)
      BY <2>1, <2>3, <2>6, FreeAssumption DEF Stays, Of, Publishing
    <3>2. /\ Lasts(O, H, p) =
               Count(main, Of(O, H, p)) + Count(retry, R) + Count(dlq, P)
          /\ Lasts(O, H, p)' =
               Count(main, Of(O, H, p)) + Count(retry', R) + Count(dlq', P)
      BY <2>2, <3>1 DEF Lasts, Waiting
    <3> HIDE DEF P, R
    <3>3. /\ Count(retry, R) = Count(retry', R) + IF m \in R THEN 1 ELSE 0
          /\ Count(dlq', P) = Count(dlq, P) + IF m \in P THEN 1 ELSE 0
      BY <2>1
    <3>4. /\ Count(main, Of(O, H, p)) \in Nat /\ Count(retry', R) \in Nat
          /\ Count(dlq, P) \in Nat
      BY <1>1, <2>1, CountType
    <3>5. Lasts(O, H, p) \in Nat
      BY LastsType DEF Sound
    <3> QED
      BY <3>1, <3>2, <3>3, <3>4, <3>5
  <2> QED
    BY <2>2, <2>6, <2>7 DEF Keeps, KeepsHeld
<1> QED
  BY <1>2, <1>3 DEF MessageDies

\* A published message lasts.
LEMMA PublishStep ==
  ASSUME NEW O, NEW H, Sound(O, H), NEW o \in O, PublishMain(o),
         UNCHANGED <<dlq, request>>
  PROVE  /\ Sound(O, H)' /\ KeepsHeld(O, H)
         /\ \A p : Lasts(O, H, p)' = Lasts(O, H, p) + IF p = o THEN 1 ELSE 0
<1>1. /\ dlq \in Seq(Messages(O, Requests)) /\ main \in Seq(Messages(O, H))
      /\ retry \in Seq(Messages(O, {}))
  BY DEF Sound, Queues
<1>2. /\ main' \in Seq(Messages(O, H)) /\ retry' \in Seq(Messages(O, {}))
      /\ \A p : Waiting(O, H, p)' = Waiting(O, H, p) + IF p = o THEN 1 ELSE 0
      /\ KeepsHeld(O, H)
  BY <1>1, PublishMessage DEF KeepsHeld
<1>3. Queues(O, H)'
  BY <1>1, <1>2 DEF Queues
<1>4. Sound(O, H)' /\ Publishing' = Publishing
  BY <1>3, QuietStep
<1>5. ASSUME NEW p
      PROVE  Lasts(O, H, p)' = Lasts(O, H, p) + IF p = o THEN 1 ELSE 0
  <2>1. Waiting(O, H, p) \in Nat /\ Count(dlq, Stays(O, p)) \in Nat
    BY LastsType DEF Sound
  <2> QED
    BY <1>2, <1>4, <2>1 DEF Lasts, Stays
<1> QED
  BY <1>2, <1>4, <1>5

-----------------------------------------------------------------------------
(* Every step of a request and of the broker *)

Operate(r) ==
  \/ \E op \in TargetedOps \cup QueueOps : \E o \in Orders \cup {NoOrder} : Start(r, op, o)
  \/ Purge(r)
  \/ Refuse(r)
  \/ Work(r)

LEMMA RequestStep ==
  ASSUME NEW O, NEW H, Sound(O, H), NEW r \in Requests, Operate(r)
  PROVE  /\ Sound(O, H)' /\ Keeps(O, H) /\ KeepsHeld(O, H)
         /\ removed \subseteq removed' /\ removed' \subseteq removed \cup O
         /\ sent' = sent
<1>1. ASSUME NEW op \in TargetedOps \cup QueueOps, NEW o \in Orders \cup {NoOrder},
             Start(r, op, o)
      PROVE  /\ Sound(O, H)' /\ Keeps(O, H) /\ KeepsHeld(O, H)
             /\ removed' = removed /\ sent' = sent
  <2>1. Sound(O, H)' /\ Keeps(O, H) /\ KeepsHeld(O, H)
    BY <1>1, StartStep
  <2> QED
    BY <1>1, <2>1 DEF Start
<1>2. CASE Purge(r)
  BY <1>2, PurgeStep DEF Purge
<1>3. CASE Refuse(r)
  BY <1>3, RefuseStep DEF Refuse
<1>4. CASE Work(r)
  <2>1. CASE Get(r)
    BY <2>1, GetStep DEF Get
  <2>2. CASE Finish(r)
    BY <2>2, FinishStep DEF Finish
  <2>3. CASE PutBack(r)
    BY <2>3, PutBackStep DEF PutBack
  <2>4. CASE Republish(r)
    BY <2>4, RepublishStep DEF Republish
  <2>5. CASE AckRepublished(r)
    BY <2>5, AckRepublishedStep DEF AckRepublished
  <2>6. CASE Discard(r)
    BY <2>6, DiscardStep DEF Discard
  <2> QED
    BY <1>4, <2>1, <2>2, <2>3, <2>4, <2>5, <2>6 DEF Work
<1> QED
  BY <1>1, <1>2, <1>3, <1>4 DEF Operate

LEMMA BrokerStep ==
  ASSUME NEW O, NEW H, Sound(O, H), MessageDies \/ DlqExpires
  PROVE  /\ Sound(O, H)' /\ Keeps(O, H) /\ KeepsHeld(O, H)
         /\ removed \subseteq removed' /\ removed' \subseteq removed \cup O
         /\ sent' = sent
<1>1. CASE MessageDies
  BY <1>1, MessageDiesStep DEF MessageDies
<1>2. CASE DlqExpires
  BY <1>2, DlqExpiresStep DEF DlqExpires
<1> QED
  BY <1>1, <1>2

\* Only the request that moves can fail, and only one that had not.
LEMMA FailedStep ==
  ASSUME request \in [Requests -> RequestStates], NEW r \in Requests, Operate(r)
  PROVE  Failed' = Failed \/ Failed' = Failed \cup {r}
<1>1. /\ \A s \in Requests \ {r} : request'[s] = request[s]
      /\ ~At(r, "failed")
  <2>1. CASE Work(r)
    BY <2>1 DEF Work, Get, Finish, PutBack, Republish, AckRepublished, Discard,
                Goto, Iterate, Conclude, At
  <2>2. CASE ~Work(r)
    BY <2>2 DEF Operate, Start, Purge, Refuse, Goto, At
  <2> QED
    BY <2>1, <2>2
<1> QED
  BY <1>1 DEF Failed, At

-----------------------------------------------------------------------------
(* The invariant, as counts of kinds of messages *)

Bound(o) == (IF o \in sent THEN 1 ELSE 0) + Cardinality(Failed)

Accounted ==
  /\ IsFiniteSet(Failed)
  /\ \A o \in Orders :
       /\ o \in sent \ removed => Lasts(Orders, {}, o) >= 1
       /\ Lasts(Orders, {}, o) <= Bound(o)

Inv ==
  /\ Sound(sent, {})
  /\ removed \subseteq sent /\ sent \subseteq Orders
  /\ Accounted

\* Messages of the orders sent are messages of orders.
LEMMA SoundWiden ==
  ASSUME NEW S, NEW O, S \subseteq O, NEW H, Sound(S, H)
  PROVE  Sound(O, H)
<1>1. /\ main \in Seq(Messages(O, H)) /\ retry \in Seq(Messages(O, {}))
      /\ dlq \in Seq(Messages(O, Requests))
      /\ \A r : Count(dlq, By(O, Requests, r)) = Count(dlq, By(S, Requests, r))
  <2>1. /\ main \in Seq(Messages(S, H)) /\ retry \in Seq(Messages(S, {}))
        /\ dlq \in Seq(Messages(S, Requests))
    BY DEF Sound, Queues
  <2>2. main \in Seq(Messages(O, H)) /\ retry \in Seq(Messages(O, {}))
    BY <2>1, WidenOrders
  <2>3. dlq \in Seq(Messages(O, Requests))
    BY <2>1, WidenOrders
  <2>4. ASSUME NEW r
        PROVE  Count(dlq, By(O, Requests, r)) = Count(dlq, By(S, Requests, r))
    BY <2>1, WidenOrders
  <2> QED
    BY <2>2, <2>3, <2>4
<1> QED
  BY <1>1 DEF Sound, Queues

LEMMA InvInit == Init => Inv
<1> SUFFICES ASSUME Init
             PROVE  Inv
  OBVIOUS
<1>1. main = <<>> /\ retry = <<>> /\ dlq = <<>> /\ removed = {} /\ sent = {}
  BY DEF Init, InitQueues
<1>2. \A r \in Requests : request[r] = NewRequest
  BY DEF Init
<1>3. NewRequest \in RequestStates /\ NewRequest.stage = "new"
  BY DEF NewRequest, RequestStates, Stages, TargetedOps, QueueOps
<1>4. request \in [Requests -> RequestStates]
  BY <1>2, <1>3 DEF Init
<1>5. \A r \in Requests : ~Holds(r)
  BY <1>2, <1>3 DEF Holds
<1>6. \A M, P : <<>> \in Seq(M) /\ Count(<<>>, P) = 0
  <2>1. \A M : <<>> \in Seq(M) /\ DOMAIN <<>> = {}
    OBVIOUS
  <2>2. \A P : {k \in DOMAIN <<>> : <<>>[k] \in P} = {}
    BY <2>1
  <2> QED
    BY <2>1, <2>2, FS_EmptySet DEF Count
<1>7. Failed = {}
  BY <1>2, <1>3 DEF Failed, At
<1>8. Sound(sent, {})
  BY <1>1, <1>4, <1>5, <1>6 DEF Sound, Queues
<1>9. Accounted
  <2>1. \A o : Lasts(Orders, {}, o) = 0
    BY <1>1, <1>6 DEF Lasts, Waiting
  <2>2. IsFiniteSet(Failed) /\ Cardinality(Failed) = 0
    BY <1>7, FS_EmptySet
  <2> QED
    BY <1>1, <2>1, <2>2 DEF Accounted, Bound
<1> QED
  BY <1>1, <1>8, <1>9 DEF Inv

\* A step of a request or of the broker that lets at most one request fail.
LEMMA KeepInv ==
  ASSUME Inv, NEW S, S = sent, Sound(S, {})', Keeps(Orders, {}),
         Queues(Orders, {})',
         removed \subseteq removed', removed' \subseteq removed \cup S, sent' = sent,
         Failed' = Failed \/ \E r : Failed' = Failed \cup {r}
  PROVE  Inv'
<1>1. Sound(sent, {})'
  <2>1. sent' = S
    OBVIOUS
  <2> QED
    BY <2>1 DEF Sound, Queues
<1>2. removed' \subseteq sent' /\ sent' \subseteq Orders
  BY DEF Inv
<1>3. /\ IsFiniteSet(Failed)' /\ Cardinality(Failed') \in Nat
      /\ Cardinality(Failed) \in Nat
      /\ Cardinality(Failed) <= Cardinality(Failed')
  <2>1. IsFiniteSet(Failed) /\ Cardinality(Failed) \in Nat
    BY FS_CardinalityType DEF Inv, Accounted
  <2>2. CASE Failed' = Failed
    BY <2>1, <2>2
  <2>3. ASSUME NEW r, Failed' = Failed \cup {r}
        PROVE  /\ IsFiniteSet(Failed') /\ Cardinality(Failed') \in Nat
               /\ Cardinality(Failed) <= Cardinality(Failed')
    <3>1. /\ IsFiniteSet(Failed \cup {r})
          /\ Cardinality(Failed \cup {r}) =
               IF r \in Failed THEN Cardinality(Failed) ELSE Cardinality(Failed) + 1
      BY <2>1, FS_AddElement
    <3> QED
      BY <2>1, <2>3, <3>1
  <2> QED
    BY <2>1, <2>2, <2>3
<1>4. ASSUME NEW o \in Orders
      PROVE  /\ o \in sent' \ removed' => Lasts(Orders, {}, o)' >= 1
             /\ Lasts(Orders, {}, o)' <= Bound(o)'
  <2>1. /\ o \in sent \ removed => Lasts(Orders, {}, o) >= 1
        /\ Lasts(Orders, {}, o) <= Bound(o)
    BY DEF Inv, Accounted
  <2>2. /\ Lasts(Orders, {}, o)' <= Lasts(Orders, {}, o)
        /\ Lasts(Orders, {}, o)' = Lasts(Orders, {}, o) \/ o \in removed'
    BY DEF Keeps
  <2>3. Lasts(Orders, {}, o) \in Nat
    BY SoundWiden, LastsType DEF Sound, Inv
  <2>4. Lasts(Orders, {}, o)' \in Nat
    BY NextLastsType
  <2>5. Bound(o) <= Bound(o)' /\ Bound(o) \in Nat /\ Bound(o)' \in Nat
    BY <1>3 DEF Bound
  <2> QED
    BY <2>1, <2>2, <2>3, <2>4, <2>5
<1> QED
  BY <1>1, <1>2, <1>3, <1>4 DEF Inv, Accounted

LEMMA InvStep == Inv /\ [Next]_vars => Inv'
<1> SUFFICES ASSUME Inv, [Next]_vars
             PROVE  Inv'
  OBVIOUS
<1>1. PICK S : S = sent
  OBVIOUS
<1>2. Sound(S, {}) /\ S \subseteq Orders
  BY <1>1 DEF Inv
<1>3. Sound(Orders, {})
  BY <1>2, SoundWiden
<1>4. request \in [Requests -> RequestStates]
  BY <1>3 DEF Sound
<1>5. ASSUME NEW r \in Requests, Operate(r)
      PROVE  Inv'
  <2>1. /\ Sound(S, {})' /\ removed \subseteq removed'
        /\ removed' \subseteq removed \cup S /\ sent' = sent
    BY <1>2, <1>5, RequestStep
  <2>2. Sound(Orders, {})' /\ Keeps(Orders, {})
    BY <1>3, <1>5, RequestStep
  <2>3. Queues(Orders, {})'
    BY <2>2 DEF Sound
  <2>4. Failed' = Failed \/ Failed' = Failed \cup {r}
    BY <1>4, <1>5, FailedStep
  <2> QED
    BY <1>1, <2>1, <2>2, <2>3, <2>4, KeepInv
<1>6. ASSUME MessageDies \/ DlqExpires
      PROVE  Inv'
  <2>1. /\ Sound(S, {})' /\ removed \subseteq removed'
        /\ removed' \subseteq removed \cup S /\ sent' = sent
    BY <1>2, <1>6, BrokerStep
  <2>2. Sound(Orders, {})' /\ Keeps(Orders, {})
    BY <1>3, <1>6, BrokerStep
  <2>3. Queues(Orders, {})'
    BY <2>2 DEF Sound
  <2>4. Failed' = Failed
    BY <1>6 DEF MessageDies, DlqExpires, Failed, At
  <2> QED
    BY <1>1, <2>1, <2>2, <2>3, <2>4, KeepInv
<1>7. ASSUME NEW r \in Requests, Active(r), Abort({r}), UNCHANGED <<main, retry>>
      PROVE  Inv'
  <2>1. /\ main' = main /\ retry' = retry /\ sent' = sent /\ removed' = removed
        /\ {r} \subseteq Requests /\ FailRequests({r}) /\ dlq' = Release(dlq, {r})
    BY <1>7 DEF Abort, FailRequests
  <2>2. Sound(S, {})'
    BY <1>2, <1>7, <2>1, AbortStep
       DEF Sound, Queues, Waiting, Extends
  <2>3. /\ Sound(Orders, {})'
        /\ \A o : /\ Lasts(Orders, {}, o) <= Lasts(Orders, {}, o)'
                  /\ Lasts(Orders, {}, o)' <= Lasts(Orders, {}, o) + 1
    BY <1>3, <1>7, <2>1, AbortStep
       DEF Sound, Queues, Waiting, Extends
  <2>4. Failed' = Failed \cup {r} /\ r \notin Failed
    BY <1>4, <1>7, <2>1 DEF FailRequests, Failed, At, Active, RequestStates
  <2>5. /\ IsFiniteSet(Failed') /\ Cardinality(Failed) \in Nat
        /\ Cardinality(Failed') = Cardinality(Failed) + 1
    <3>1. IsFiniteSet(Failed)
      BY DEF Inv, Accounted
    <3>2. /\ IsFiniteSet(Failed \cup {r}) /\ Cardinality(Failed) \in Nat
          /\ Cardinality(Failed \cup {r}) = Cardinality(Failed) + 1
      BY <2>4, <3>1, FS_AddElement, FS_CardinalityType
    <3> QED
      BY <2>4, <3>2
  <2>6. ASSUME NEW o \in Orders
        PROVE  /\ o \in sent' \ removed' => Lasts(Orders, {}, o)' >= 1
               /\ Lasts(Orders, {}, o)' <= Bound(o)'
    <3>1. Lasts(Orders, {}, o) \in Nat
      BY <1>3, LastsType DEF Sound
    <3>2. Lasts(Orders, {}, o)' \in Nat
      BY <2>3, NextLastsType DEF Sound
    <3>3. Bound(o)' = Bound(o) + 1 /\ Bound(o) \in Nat
      BY <2>1, <2>5 DEF Bound
    <3>4. /\ o \in sent \ removed => Lasts(Orders, {}, o) >= 1
          /\ Lasts(Orders, {}, o) <= Bound(o)
      BY DEF Inv, Accounted
    <3> QED
      BY <2>1, <2>3, <3>1, <3>2, <3>3, <3>4
  <2>7. Sound(sent, {})'
    <3>1. sent' = S
      BY <1>1, <2>1
    <3> QED
      BY <2>2, <3>1 DEF Sound, Queues
  <2> QED
    BY <2>1, <2>5, <2>6, <2>7 DEF Inv, Accounted
<1>8. ASSUME NEW o \in Orders, Publish(o)
      PROVE  Inv'
  <2>1. /\ PublishMain(o) /\ UNCHANGED <<dlq, request>> /\ o \notin sent
        /\ sent' = S \cup {o} /\ removed' = removed
    BY <1>1, <1>8 DEF Publish
  <2> DEFINE T == S \cup {o}
  <2>2. o \in T /\ S \subseteq T /\ T \subseteq Orders
    BY <1>2
  <2> HIDE DEF T
  <2>3. Sound(T, {})
    BY <1>2, <2>2, SoundWiden
  <2>4. Sound(T, {})'
    BY <2>1, <2>2, <2>3, PublishStep
  <2>5. /\ Sound(Orders, {})'
        /\ \A p : Lasts(Orders, {}, p)' =
                    Lasts(Orders, {}, p) + IF p = o THEN 1 ELSE 0
    BY <1>3, <2>1, PublishStep
  <2>6. Failed' = Failed
    BY <2>1 DEF Failed, At
  <2>7. IsFiniteSet(Failed) /\ Cardinality(Failed) \in Nat
    BY FS_CardinalityType DEF Inv, Accounted
  <2>8. ASSUME NEW p \in Orders
        PROVE  /\ p \in sent' \ removed' => Lasts(Orders, {}, p)' >= 1
               /\ Lasts(Orders, {}, p)' <= Bound(p)'
    <3>1. Lasts(Orders, {}, p) \in Nat
      BY <1>3, LastsType DEF Sound
    <3>2. Bound(p)' = Bound(p) + (IF p = o THEN 1 ELSE 0) /\ Bound(p) \in Nat
      BY <1>1, <2>1, <2>6, <2>7 DEF Bound
    <3>3. /\ p \in sent \ removed => Lasts(Orders, {}, p) >= 1
          /\ Lasts(Orders, {}, p) <= Bound(p)
      BY DEF Inv, Accounted
    <3> QED
      BY <1>1, <2>1, <2>5, <3>1, <3>2, <3>3
  <2>9. Sound(sent, {})'
    <3>1. sent' = T
      BY <2>1 DEF T
    <3> QED
      BY <2>4, <3>1 DEF Sound, Queues
  <2>10. removed' \subseteq sent' /\ sent' \subseteq Orders
    BY <1>1, <1>2, <2>1 DEF Inv
  <2> QED
    BY <2>6, <2>7, <2>8, <2>9, <2>10 DEF Inv, Accounted
<1>9. CASE UNCHANGED vars
  BY <1>9 DEF vars, Inv, Sound, Queues, Holds, Accounted, Lasts, Waiting, Stays,
              Publishing, Failed, Bound, At
<1> QED
  BY <1>5, <1>6, <1>7, <1>8, <1>9 DEF Next, Operate

LEMMA InvHolds == Spec => []Inv
BY InvInit, InvStep, PTL DEF Spec

-----------------------------------------------------------------------------
(* What the invariant says of the properties of DlqService *)

LEMMA InvQueues ==
  ASSUME Inv
  PROVE  /\ Sound(Orders, {})
         /\ main \in Seq(Messages(Orders, {})) /\ retry \in Seq(Messages(Orders, {}))
         /\ dlq \in Seq(Messages(Orders, Requests))
         /\ \A k \in DOMAIN dlq : dlq[k] \in Messages(Orders, Requests)
<1>1. Sound(Orders, {})
  BY SoundWiden DEF Inv
<1> QED
  BY <1>1 DEF Sound, Queues

LEMMA InvTyped == Inv => TypeOK /\ OnlySent /\ Counting
<1> SUFFICES ASSUME Inv
             PROVE  TypeOK /\ OnlySent /\ Counting
  OBVIOUS
<1>1. TypeOK
  <2>1. \A H : MessagesHeldBy(H) = Messages(Orders, H)
    BY DEF MessagesHeldBy, Messages
  <2> QED
    BY <2>1, InvQueues DEF TypeOK, Inv, Sound, RequestStates
<1>2. OnlySent
  <2>1. /\ main \in Seq(Messages(sent, {})) /\ retry \in Seq(Messages(sent, {}))
        /\ dlq \in Seq(Messages(sent, Requests))
    BY DEF Inv, Sound, Queues
  <2>2. /\ \A k \in DOMAIN main : main[k] \in Messages(sent, {})
        /\ \A k \in DOMAIN retry : retry[k] \in Messages(sent, {})
        /\ \A k \in DOMAIN dlq : dlq[k] \in Messages(sent, Requests)
    BY <2>1
  <2> QED
    BY <2>2 DEF OnlySent, Messages
<1>3. Counting
  BY DEF Inv, Sound, Counting, Holds, At
<1> QED
  BY <1>1, <1>2, <1>3

LEMMA InvHeldByActive == Inv => HeldByActive
<1> SUFFICES ASSUME Inv
             PROVE  HeldByActive
  OBVIOUS
<1>1. /\ dlq \in Seq(Messages(Orders, Requests))
      /\ \A k \in DOMAIN dlq : dlq[k] \in Messages(Orders, Requests)
      /\ \A r \in Requests :
           Count(dlq, By(Orders, Requests, r)) = IF Holds(r) THEN 1 ELSE 0
  BY InvQueues DEF Sound
<1>2. ASSUME NEW k \in DOMAIN dlq, dlq[k].holder # Free
      PROVE  Holds(dlq[k].holder)
  <2>1. PICK r \in Requests : r = dlq[k].holder
    BY <1>1, <1>2 DEF Messages
  <2>2. dlq[k] \in By(Orders, Requests, r)
    BY <1>1, <2>1 DEF By
  <2>3. Count(dlq, By(Orders, Requests, r)) # 0
    BY <1>1, <2>2, CountType
  <2> QED
    BY <1>1, <2>1, <2>3
<1>3. ASSUME NEW r \in Requests
      PROVE  Cardinality({k \in DOMAIN dlq : dlq[k].holder = r}) =
               IF Holds(r) THEN 1 ELSE 0
  BY <1>1, KindsAreCounts
<1> QED
  BY <1>2, <1>3 DEF HeldByActive, Holds

LEMMA InvLastingCopies == Inv => LastingCopies
<1> SUFFICES ASSUME Inv
             PROVE  LastingCopies
  OBVIOUS
<1>1. ASSUME NEW o
      PROVE  Lasting(o) = Lasts(Orders, {}, o)
  <2>1. Copies(main, o) = Count(main, Of(Orders, {}, o))
    BY InvQueues, KindsAreCounts
  <2>2. Copies(retry, o) = Count(retry, Of(Orders, {}, o))
    BY InvQueues, KindsAreCounts
  <2>3. Cardinality({k \in DOMAIN dlq :
                       dlq[k].order = o /\ dlq[k].holder \notin Publishing})
          = Count(dlq, Stays(Orders, o))
    <3>1. {k \in DOMAIN dlq : dlq[k].order = o /\ dlq[k].holder \notin Publishing} =
            {k \in DOMAIN dlq : dlq[k] \in Stays(Orders, o)}
      BY InvQueues DEF Stays, Of
    <3> QED
      BY <3>1 DEF Count
  <2> QED
    BY <2>1, <2>2, <2>3 DEF Lasting, Lasts, Waiting
<1> QED
  BY <1>1 DEF Inv, Accounted, LastingCopies, Bound

LEMMA InvNothingLost == Inv => NothingLost
<1> SUFFICES ASSUME Inv, NEW o \in sent, o \notin removed
             PROVE  InBroker(o)
  BY DEF NothingLost
<1>1. Lasts(Orders, {}, o) >= 1
  BY DEF Inv, Accounted
<1>2. /\ Count(main, Of(Orders, {}, o)) \in Nat /\ Count(retry, Of(Orders, {}, o)) \in Nat
      /\ Count(dlq, Stays(Orders, o)) \in Nat
  BY InvQueues, CountType
<1>3. \/ Count(main, Of(Orders, {}, o)) # 0
      \/ Count(retry, Of(Orders, {}, o)) # 0
      \/ Count(dlq, Stays(Orders, o)) # 0
  BY <1>1, <1>2 DEF Lasts, Waiting
<1>4. CASE Count(main, Of(Orders, {}, o)) # 0
  <2>1. PICK k \in DOMAIN main : main[k] \in Of(Orders, {}, o)
    BY <1>4, InvQueues, CountType
  <2> QED
    BY <2>1 DEF Of, InBroker, InQueue
<1>5. CASE Count(retry, Of(Orders, {}, o)) # 0
  <2>1. PICK k \in DOMAIN retry : retry[k] \in Of(Orders, {}, o)
    BY <1>5, InvQueues, CountType
  <2> QED
    BY <2>1 DEF Of, InBroker, InQueue
<1>6. CASE Count(dlq, Stays(Orders, o)) # 0
  <2>1. PICK k \in DOMAIN dlq : dlq[k] \in Stays(Orders, o)
    BY <1>6, InvQueues, CountType
  <2> QED
    BY <2>1 DEF Stays, Of, InBroker, InQueue
<1> QED
  BY <1>3, <1>4, <1>5, <1>6

\* The messages that do not last are held by as many requests that publish.
LEMMA PublishedCopies ==
  ASSUME Inv, NEW o
  PROVE  LET U == {m \in Of(Orders, Requests, o) : m.holder \in Publishing}
         IN  /\ IsFiniteSet(Publishing) /\ Count(dlq, U) \in Nat
             /\ Count(dlq, U) <= Cardinality(Publishing)
<1> DEFINE U == {m \in Of(Orders, Requests, o) : m.holder \in Publishing}
           K == {k \in DOMAIN dlq : dlq[k] \in U}
           D == DOMAIN dlq
<1>1. /\ dlq \in Seq(Messages(Orders, Requests)) /\ IsFiniteSet(D)
      /\ \A r \in Publishing : /\ r \in Requests
                               /\ Count(dlq, By(Orders, Requests, r)) = 1
  <2>1. dlq \in Seq(Messages(Orders, Requests))
    BY InvQueues
  <2>2. Len(dlq) \in Nat /\ D = 1 .. Len(dlq)
    BY <2>1
  <2>3. IsFiniteSet(D)
    BY <2>2, FS_Interval
  <2> QED
    BY <2>1, <2>3, InvQueues DEF Sound, Holds, Publishing, At
<1>2. IsFiniteSet(Publishing)
  <2> DEFINE f == [r \in Publishing |-> HeldAt(dlq, r)]
  <2>1. \A r \in Publishing : /\ HeldAt(dlq, r) \in D
                             /\ dlq[HeldAt(dlq, r)].holder = r
    BY <1>1, HeldMessage
  <2>2. f \in Injection(Publishing, D)
    BY <2>1 DEF Injection, IsInjective
  <2> HIDE DEF f, D
  <2> QED
    BY <1>1, <2>2, FS_Injection
<1>3. \A k, j \in K : dlq[k].holder = dlq[j].holder => k = j
  <2> SUFFICES ASSUME NEW k \in K, NEW j \in K, dlq[k].holder = dlq[j].holder
               PROVE  k = j
    OBVIOUS
  <2>1. PICK r \in Publishing : r = dlq[k].holder
    OBVIOUS
  <2> DEFINE T == {i \in DOMAIN dlq : dlq[i] \in By(Orders, Requests, r)}
  <2>2. IsFiniteSet(T) /\ Cardinality(T) = 1
    BY <1>1, CountType DEF Count
  <2>3. k \in T /\ j \in T
    BY <2>1 DEF By, Of
  <2> HIDE DEF T
  <2>4. \E x : T = {x}
    BY <2>2, FS_Singleton
  <2> QED
    BY <2>3, <2>4
<1>4. Cardinality(K) <= Cardinality(Publishing)
  <2> DEFINE f == [k \in K |-> dlq[k].holder]
  <2>1. f \in Injection(K, Publishing)
    BY <1>3 DEF Injection, IsInjective
  <2> HIDE DEF f, K
  <2> QED
    BY <1>2, <2>1, FS_Injection
<1>5. Count(dlq, U) \in Nat
  BY <1>1, CountType
<1> QED
  BY <1>2, <1>4, <1>5 DEF Count

LEMMA InvCopiesBounded == Inv => CopiesBounded
<1> SUFFICES ASSUME Inv, NEW o \in Orders
             PROVE  AllCopies(o) <=
                      1 + Cardinality({r \in Requests : request[r].stage \in
                                                          {"published", "failed"}})
  BY DEF CopiesBounded
<1> DEFINE A == Of(Orders, Requests, o)
           R == Stays(Orders, o)
           U == {m \in Of(Orders, Requests, o) : m.holder \in Publishing}
<1>1. IsFiniteSet(Publishing) /\ Count(dlq, U) <= Cardinality(Publishing)
  BY PublishedCopies
<1>2. A = U \cup R /\ U \cap R = {}
  BY DEF Stays
<1> HIDE DEF U, R, A
<1>3. Count(dlq, A) = Count(dlq, U) + Count(dlq, R)
  BY <1>2, InvQueues, CountSplit
<1>4. AllCopies(o) = Waiting(Orders, {}, o) + Count(dlq, A)
  <2>1. Copies(main, o) = Count(main, Of(Orders, {}, o))
    BY InvQueues, KindsAreCounts
  <2>2. Copies(retry, o) = Count(retry, Of(Orders, {}, o))
    BY InvQueues, KindsAreCounts
  <2>3. Copies(dlq, o) = Count(dlq, A)
    BY InvQueues, KindsAreCounts DEF A
  <2> QED
    BY <2>1, <2>2, <2>3 DEF AllCopies, Waiting
<1>5. IsFiniteSet(Failed) /\ Lasts(Orders, {}, o) <= Bound(o)
  BY DEF Inv, Accounted
<1>6. Cardinality({r \in Requests : request[r].stage \in {"published", "failed"}})
        = Cardinality(Publishing) + Cardinality(Failed)
  <2>1. /\ {r \in Requests : request[r].stage \in {"published", "failed"}} =
             Publishing \cup Failed
        /\ Publishing \cap Failed = {}
    BY DEF Publishing, Failed, At
  <2>2. Cardinality(Publishing \cup Failed) =
          Cardinality(Publishing) + Cardinality(Failed)
            - Cardinality(Publishing \cap Failed)
    BY <1>1, <1>5, FS_Union, Zenon
  <2>3. Cardinality(Publishing \cap Failed) = 0
    BY <2>1, FS_EmptySet, Zenon
  <2>4. Cardinality(Publishing) \in Nat /\ Cardinality(Failed) \in Nat
    BY <1>1, <1>5, FS_CardinalityType
  <2>5. Cardinality(Publishing \cup Failed) =
          Cardinality(Publishing) + Cardinality(Failed)
    BY <2>2, <2>3, <2>4
  <2> QED
    BY <2>1, <2>5, Zenon
<1>7. /\ Cardinality(Publishing) \in Nat /\ Cardinality(Failed) \in Nat
      /\ Bound(o) <= 1 + Cardinality(Failed) /\ Bound(o) \in Nat
  BY <1>1, <1>5, FS_CardinalityType DEF Bound
<1>8. /\ Waiting(Orders, {}, o) \in Nat /\ Count(dlq, R) \in Nat
      /\ Count(dlq, U) \in Nat
      /\ Lasts(Orders, {}, o) = Waiting(Orders, {}, o) + Count(dlq, R)
  BY InvQueues, CountType, LastsType DEF Lasts, R, Sound
<1> QED
  BY <1>1, <1>3, <1>4, <1>5, <1>6, <1>7, <1>8

-----------------------------------------------------------------------------
(* Theorems *)

\* The invariant of DlqService: its types, who holds what, and the accounting
\* of the lasting copies of every order, kept by every step of every request
\* and of the broker, however many run at once.
THEOREM DlqInvariant == Spec => []IInv
<1>1. Inv => IInv
  BY InvTyped, InvHeldByActive, InvLastingCopies DEF IInv
<1> QED
  BY <1>1, InvHolds, PTL

\* No request loses a message, wherever it stops.
THEOREM DlqLosesNothing == Spec => []NothingLost
BY InvHolds, InvNothingLost, PTL

\* No message stays held by a request that ended, and none by two.
THEOREM DlqHeldByActive == Spec => []HeldByActive
BY InvHolds, InvHeldByActive, PTL

\* An order has one copy more than the one sent for each request that stopped
\* between its publication and its ack, and never another.
THEOREM DlqCopiesBounded == Spec => []CopiesBounded
BY InvHolds, InvCopiesBounded, PTL

=============================================================================
