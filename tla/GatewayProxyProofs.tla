------------------------- MODULE GatewayProxyProofs -------------------------
(***************************************************************************)
(* Proofs about GatewayProxy for any calls, thresholds and retries: the    *)
(* state of the circuit agrees with the failures it counted, and the calls *)
(* drive the circuit only as CircuitBreaker says.                          *)
(***************************************************************************)
EXTENDS GatewayProxy, FiniteSetTheorems, TLAPS

Pcs == {"idle", "awaiting", "backoff", "default"}

\* The inductive invariant: what the circuit needs of the calls is that each
\* is at one of its places.
CircuitInv ==
  /\ pc \in [Calls -> Pcs]
  /\ state \in {"CLOSED", "OPEN", "HALF_OPEN"}
  /\ failures \in 0 .. Threshold
  /\ due \in BOOLEAN
  /\ Breaker!ClosedBelowThreshold

LEMMA CircuitInit == Init => CircuitInv /\ Breaker!Init
<1> SUFFICES ASSUME Init
             PROVE  CircuitInv /\ Breaker!Init
  OBVIOUS
<1>1. pc \in [Calls -> Pcs] /\ Running = {}
  BY DEF Init, Pcs, Running
<1>2. 0 \in 0 .. Threshold /\ 0 < Threshold
  BY ThresholdAssumption
<1> QED
  BY <1>1, <1>2
     DEF Init, CircuitInv, Breaker!Init, Breaker!ClosedBelowThreshold

\* A step that leaves the circuit alone and moves a call between two places
\* that are both under way, or both not, leaves the running calls alone.
LEMMA SameRunning ==
  ASSUME pc \in [Calls -> Pcs], NEW c \in Calls, NEW p \in Pcs, Goto(c, p),
         pc[c] \in {"awaiting", "backoff"} <=> p \in {"awaiting", "backoff"}
  PROVE  pc' \in [Calls -> Pcs] /\ Running' = Running
BY DEF Goto, Running, Pcs

\* What a step does to the circuit.
LEMMA CircuitStep ==
  ASSUME CircuitInv, [Next]_vars
  PROVE  pc' \in [Calls -> Pcs] /\ [Breaker!Next]_(Breaker!vars)
<1> USE DEF CircuitInv
<1>1. ASSUME NEW c \in Calls, Begin(c)
      PROVE  pc' \in [Calls -> Pcs] /\ Breaker!Next
  BY <1>1 DEF Begin, Goto, Pcs, Breaker!Next
<1>2. ASSUME NEW c \in Calls, Fallback(c)
      PROVE  \E p \in {"idle", "default"} : Goto(c, p)
  BY <1>2 DEF Fallback, Answer
<1>3. ASSUME NEW c \in Calls, Refuse(c)
      PROVE  pc' \in [Calls -> Pcs] /\ UNCHANGED Breaker!vars
  <2>1. PICK p \in {"idle", "default"} : Goto(c, p)
    BY <1>2, <1>3 DEF Refuse
  <2>2. pc' \in [Calls -> Pcs] /\ Running' = Running
    BY <1>3, <2>1, SameRunning DEF Refuse, Fresh, Pcs
  <2> QED
    BY <1>3, <2>2 DEF Refuse, circuitVars, Breaker!vars
<1>4. ASSUME NEW c \in Calls, Receive(c)
      PROVE  pc' \in [Calls -> Pcs] /\ Breaker!Next
  BY <1>4 DEF Receive, Answer, Goto, Pcs, Breaker!Next
<1>5. ASSUME NEW c \in Calls, Backoff(c)
      PROVE  pc' \in [Calls -> Pcs] /\ UNCHANGED Breaker!vars
  BY <1>5, SameRunning DEF Backoff, Pcs, circuitVars, Breaker!vars
<1>6. ASSUME NEW c \in Calls, Retry(c)
      PROVE  pc' \in [Calls -> Pcs] /\ UNCHANGED Breaker!vars
  BY <1>6, SameRunning DEF Retry, Pcs, circuitVars, Breaker!vars
<1>7. ASSUME NEW c \in Calls, GiveUp(c)
      PROVE  pc' \in [Calls -> Pcs] /\ Breaker!Next
  <2>1. PICK p \in {"idle", "default"} : Goto(c, p)
    BY <1>2, <1>7 DEF GiveUp
  <2> QED
    BY <1>7, <2>1 DEF GiveUp, Goto, Pcs, Breaker!Next
<1>8. ASSUME NEW c \in Calls, StoreDefault(c)
      PROVE  pc' \in [Calls -> Pcs] /\ UNCHANGED Breaker!vars
  BY <1>8, SameRunning
     DEF StoreDefault, Answer, Pcs, circuitVars, Breaker!vars
<1>9. ASSUME UNCHANGED <<circuitVars, pc>>
      PROVE  pc' \in [Calls -> Pcs] /\ UNCHANGED Breaker!vars
  BY <1>9 DEF Running, circuitVars, Breaker!vars
<1>10. ASSUME NEW c \in Calls, NEW n \in Attempts, Network(c, n)
       PROVE  UNCHANGED <<circuitVars, pc>>
  BY <1>10 DEF Network, Serve, Break, LateAnswer, callVars
<1>11. Expire \/ HealthChanges \/ UNCHANGED vars => UNCHANGED <<circuitVars, pc>>
  BY DEF Expire, HealthChanges, vars, circuitVars, callVars
<1>12. Elapse => pc' \in [Calls -> Pcs] /\ Breaker!Next
  BY DEF Elapse, callVars, Breaker!Next
<1> QED
  BY <1>1, <1>3, <1>4, <1>5, <1>6, <1>7, <1>8, <1>9, <1>10, <1>11, <1>12
     DEF Next, Step

\* Whatever the order in which calls begin and end, the circuit keeps its own
\* invariant.
LEMMA CircuitPreserved ==
  ASSUME CircuitInv, pc' \in [Calls -> Pcs], [Breaker!Next]_(Breaker!vars)
  PROVE  CircuitInv'
<1> USE ThresholdAssumption DEF CircuitInv, Breaker!ClosedBelowThreshold
<1>1. ASSUME NEW c \in Calls, Breaker!Admit(c)
      PROVE  CircuitInv'
  BY <1>1 DEF Breaker!Admit
<1>2. ASSUME NEW c \in Calls, Breaker!Succeed(c)
      PROVE  CircuitInv'
  <2>1. due' \in BOOLEAN
    BY <1>2, Zenon DEF Breaker!Succeed
  <2>2. 0 \in 0 .. Threshold /\ 0 < Threshold
    OBVIOUS
  <2>3. failures' = 0 /\ state' = "CLOSED"
    BY <1>2 DEF Breaker!Succeed
  <2> QED
    BY <2>1, <2>2, <2>3
<1>3. ASSUME NEW c \in Calls, Breaker!Fail(c)
      PROVE  CircuitInv'
  <2>1. due' \in BOOLEAN
    BY <1>3, Zenon DEF Breaker!Fail
  <2>2. CASE failures + 1 >= Threshold
    BY <1>3, <2>1, <2>2 DEF Breaker!Fail
  <2>3. CASE ~(failures + 1 >= Threshold)
    <3>1. failures' = failures + 1 /\ state' = state
      BY <1>3, <2>3 DEF Breaker!Fail
    <3> QED
      BY <2>1, <2>3, <3>1
  <2> QED
    BY <2>2, <2>3
<1>4. CASE Breaker!Elapse
  BY <1>4 DEF Breaker!Elapse
<1>5. CASE UNCHANGED Breaker!vars
  BY <1>5 DEF Breaker!vars
<1> QED
  BY <1>1, <1>2, <1>3, <1>4, <1>5 DEF Breaker!Next

THEOREM CircuitInvariant == Spec => []CircuitInv
<1>1. CircuitInv /\ [Next]_vars => CircuitInv'
  BY CircuitStep, CircuitPreserved
<1> QED
  BY CircuitInit, <1>1, PTL DEF Spec

\* The circuit is closed exactly while fewer than Threshold calls failed since
\* the last success.
THEOREM CircuitIsConsistent == Spec => []CircuitConsistent
<1>1. CircuitInv => CircuitConsistent
  BY DEF CircuitInv, CircuitConsistent
<1> QED
  BY <1>1, CircuitInvariant, PTL

\* The calls of proxyRequest, with their retries, timeouts and fallbacks,
\* implement the callers of CircuitBreaker.
THEOREM ProxyImplementsBreaker == Spec => ImplementsBreaker
<1>1. CircuitInv /\ [Next]_vars => [Breaker!Next]_(Breaker!vars)
  BY CircuitStep
<1> QED
  BY CircuitInit, <1>1, CircuitInvariant, PTL
     DEF Spec, ImplementsBreaker, Breaker!Spec

-----------------------------------------------------------------------------
(* What the client is told and what the service did                         *)

Places == {"none", "sent", "served", "refused", "failed"}
Answers == {"none", "served", "refused", "error", "read", "default"}

\* The attempts of call c whose request the service may still take.
Sent(c) == {n \in Attempts : net[c][n] = "sent"}

Typed ==
  /\ pc \in [Calls -> Pcs]
  /\ attempts \in [Calls -> 0 .. MaxAttempts]
  /\ answer \in [Calls -> Answers]
  /\ net \in [Calls -> [Attempts -> Places]]
  /\ effects \in [Calls -> Nat]
  /\ cache \in {"empty", "read", "default"}

CallOK(c) ==
  /\ pc[c] # "idle" => answer[c] = "none"
  /\ pc[c] \in {"awaiting", "backoff"} => attempts[c] >= 1
  /\ pc[c] = "backoff" => attempts[c] < MaxAttempts
  /\ pc[c] = "default" => attempts[c] \in {0, MaxAttempts}
  /\ c \notin Reads => \A n \in Attempts : net[c][n] = "served" => effects[c] >= 1
  /\ answer[c] \in {"error", "read", "default"} => attempts[c] \in {0, MaxAttempts}
  /\ answer[c] = "served" /\ c \notin Reads => effects[c] >= 1
  /\ effects[c] + Cardinality(Sent(c)) <= attempts[c]

CallsInv == Typed /\ \A c \in Calls : CallOK(c)

LEMMA SentIsFinite ==
  ASSUME NEW c
  PROVE  IsFiniteSet(Sent(c)) /\ Cardinality(Sent(c)) \in Nat
<1>1. IsFiniteSet(Attempts)
  BY MaxAttemptsAssumption, FS_Interval DEF Attempts
<1>2. Sent(c) \subseteq Attempts
  BY DEF Sent
<1> QED
  BY <1>1, <1>2, FS_Subset, FS_CardinalityType

\* One request of call c moves.
LEMMA MoveRequest ==
  ASSUME Typed, NEW c \in Calls, NEW n \in Attempts, NEW w \in Places, Move(c, n, w)
  PROVE  /\ net' \in [Calls -> [Attempts -> Places]]
         /\ \A d \in Calls \ {c} : net'[d] = net[d]
         /\ net'[c][n] = w
         /\ \A m \in Attempts \ {n} : net'[c][m] = net[c][m]
         /\ Cardinality(Sent(c))' =
              Cardinality(Sent(c)) - (IF net[c][n] = "sent" THEN 1 ELSE 0)
                                   + (IF w = "sent" THEN 1 ELSE 0)
<1>1. /\ net' \in [Calls -> [Attempts -> Places]]
      /\ \A d \in Calls \ {c} : net'[d] = net[d]
      /\ net'[c][n] = w
      /\ \A m \in Attempts \ {n} : net'[c][m] = net[c][m]
  BY DEF Typed, Move
<1> DEFINE R == Sent(c) \ {n}
<1>2. IsFiniteSet(R) /\ Cardinality(R) \in Nat
  BY SentIsFinite, FS_Subset, FS_CardinalityType
<1>3. R = Sent(c)' \ {n}
  BY <1>1 DEF Sent
<1>4. Cardinality(R \cup {n}) = Cardinality(R) + 1
  BY <1>2, FS_AddElement
<1>5. Sent(c) = IF net[c][n] = "sent" THEN R \cup {n} ELSE R
  BY DEF Sent
<1>6. Sent(c)' = IF w = "sent" THEN R \cup {n} ELSE R
  BY <1>1, <1>3 DEF Sent
<1> HIDE DEF R
<1>7. Cardinality(Sent(c)) = Cardinality(R) + IF net[c][n] = "sent" THEN 1 ELSE 0
  BY <1>2, <1>4, <1>5
<1>8. Cardinality(Sent(c)') = Cardinality(R) + IF w = "sent" THEN 1 ELSE 0
  BY <1>2, <1>4, <1>6
<1> QED
  BY <1>1, <1>2, <1>7, <1>8

\* A step of call c leaves the other calls alone.
LEMMA OneCall ==
  ASSUME CallsInv, Typed', NEW c \in Calls, CallOK(c)',
         \A d \in Calls \ {c} :
           /\ pc'[d] = pc[d] /\ attempts'[d] = attempts[d]
           /\ answer'[d] = answer[d] /\ net'[d] = net[d]
           /\ effects'[d] = effects[d]
  PROVE  CallsInv'
<1>1. ASSUME NEW d \in Calls \ {c}
      PROVE  CallOK(d)'
  <2>1. Sent(d)' = Sent(d)
    BY DEF Sent
  <2>2. CallOK(d)
    BY DEF CallsInv
  <2> QED
    BY <2>1, <2>2 DEF CallOK
<1>2. \A d \in Calls : CallOK(d)'
  BY <1>1
<1> QED
  BY <1>2 DEF CallsInv

\* A call that is refused or gives up is answered by its fallback.
LEMMA FallbackAnswer ==
  ASSUME Typed, NEW c \in Calls, Fallback(c)
  PROVE  /\ pc' \in [Calls -> Pcs] /\ answer' \in [Calls -> Answers]
         /\ \A d \in Calls \ {c} : pc'[d] = pc[d] /\ answer'[d] = answer[d]
         /\ pc'[c] \in {"idle", "default"}
         /\ answer'[c] \in {"none", "error", "read", "default"}
         /\ pc'[c] = "default" => answer'[c] = "none"
BY DEF Fallback, Answer, Goto, Typed, Pcs, Answers

LEMMA BeginCall ==
  ASSUME CallsInv, NEW c \in Calls, Begin(c) \/ Refuse(c)
  PROVE  CallsInv'
<1> USE MaxAttemptsAssumption
<1>1. Typed /\ Cardinality(Sent(c)) = 0
  <2>1. Sent(c) = {}
    BY DEF Begin, Refuse, Fresh, Sent
  <2> QED
    BY <2>1, FS_EmptySet DEF CallsInv
<1>2. CASE Begin(c)
  <2>1. 1 \in Attempts /\ Move(c, 1, "sent") /\ net[c][1] = "none"
    BY <1>2 DEF Begin, Attempts, Fresh
  <2>2. /\ net' \in [Calls -> [Attempts -> Places]]
        /\ \A d \in Calls \ {c} : net'[d] = net[d]
        /\ net'[c][1] = "sent"
        /\ \A m \in Attempts \ {1} : net'[c][m] = net[c][m]
        /\ Cardinality(Sent(c))' = 1
    <3>1. "sent" \in Places
      BY DEF Places
    <3> QED
      BY <1>1, <2>1, <3>1, MoveRequest
  <2>3. Typed'
    <3>1. /\ attempts' = [attempts EXCEPT ![c] = 1] /\ 1 \in 0 .. MaxAttempts
          /\ effects' = [effects EXCEPT ![c] = 0]
          /\ answer' = [answer EXCEPT ![c] = "none"]
          /\ pc' = [pc EXCEPT ![c] = "awaiting"] /\ cache' = cache
      BY <1>2 DEF Begin, Goto
    <3>2. attempts' \in [Calls -> 0 .. MaxAttempts] /\ effects' \in [Calls -> Nat]
      BY <1>1, <3>1 DEF Typed
    <3>3. pc' \in [Calls -> Pcs] /\ answer' \in [Calls -> Answers]
      BY <1>1, <3>1 DEF Typed, Pcs, Answers
    <3> QED
      BY <1>1, <2>2, <3>1, <3>2, <3>3 DEF Typed
  <2>4. /\ pc'[c] = "awaiting" /\ attempts'[c] = 1 /\ answer'[c] = "none"
        /\ effects'[c] = 0
        /\ \A d \in Calls \ {c} :
             /\ pc'[d] = pc[d] /\ attempts'[d] = attempts[d]
             /\ answer'[d] = answer[d] /\ effects'[d] = effects[d]
    BY <1>1, <1>2 DEF Begin, Typed, Goto
  <2>5. \A n \in Attempts : net'[c][n] # "served"
    BY <1>2, <2>2 DEF Begin, Fresh
  <2>6. CallOK(c)'
    BY <2>2, <2>4, <2>5 DEF CallOK
  <2> QED
    BY <2>2, <2>3, <2>4, <2>6, OneCall
<1>3. CASE Refuse(c)
  <2>1. /\ pc' \in [Calls -> Pcs] /\ answer' \in [Calls -> Answers]
        /\ \A d \in Calls \ {c} : pc'[d] = pc[d] /\ answer'[d] = answer[d]
        /\ pc'[c] \in {"idle", "default"}
        /\ answer'[c] \in {"none", "error", "read", "default"}
        /\ pc'[c] = "default" => answer'[c] = "none"
    BY <1>1, <1>3, FallbackAnswer DEF Refuse
  <2>2. /\ attempts'[c] = 0 /\ effects'[c] = 0 /\ net' = net
        /\ \A d \in Calls \ {c} :
             attempts'[d] = attempts[d] /\ effects'[d] = effects[d]
    BY <1>1, <1>3 DEF Refuse, Typed
  <2>3. Typed'
    <3>1. /\ attempts' = [attempts EXCEPT ![c] = 0] /\ 0 \in 0 .. MaxAttempts
          /\ effects' = [effects EXCEPT ![c] = 0] /\ cache' = cache
      BY <1>3 DEF Refuse
    <3>2. attempts' \in [Calls -> 0 .. MaxAttempts] /\ effects' \in [Calls -> Nat]
      BY <1>1, <3>1 DEF Typed
    <3> QED
      BY <1>1, <2>1, <2>2, <3>1, <3>2 DEF Typed
  <2>4. Cardinality(Sent(c))' = 0 /\ \A n \in Attempts : net'[c][n] # "served"
    BY <1>1, <1>3, <2>2 DEF Sent, Refuse, Fresh
  <2>5. CallOK(c)'
    BY <2>1, <2>2, <2>4 DEF CallOK
  <2> QED
    BY <2>1, <2>2, <2>3, <2>5, OneCall
<1> QED
  BY <1>2, <1>3

\* The attempt a call awaits is one of its attempts.
LEMMA CurrentAttempt ==
  ASSUME CallsInv, NEW c \in Calls, pc[c] \in {"awaiting", "backoff"}
  PROVE  attempts[c] \in Attempts
BY MaxAttemptsAssumption DEF CallsInv, CallOK, Typed, Attempts

LEMMA LostRequest ==
  ASSUME CallsInv, NEW c \in Calls, pc[c] = "awaiting", Lost(c)
  PROVE  /\ net' \in [Calls -> [Attempts -> Places]]
         /\ \A d \in Calls \ {c} : net'[d] = net[d]
         /\ \A n \in Attempts : net'[c][n] = "served" => net[c][n] = "served"
         /\ Cardinality(Sent(c))' = Cardinality(Sent(c))
<1>1. attempts[c] \in Attempts /\ Typed
  BY CurrentAttempt DEF CallsInv
<1>2. CASE Current(c) = "failed" /\ Move(c, attempts[c], "none")
  <2>1. PICK n \in Attempts : n = attempts[c] /\ net[c][n] = "failed" /\ Move(c, n, "none")
    BY <1>1, <1>2 DEF Current
  <2>2. "none" \in Places
    BY DEF Places
  <2>3. /\ net' \in [Calls -> [Attempts -> Places]]
        /\ \A d \in Calls \ {c} : net'[d] = net[d]
        /\ net'[c][n] = "none"
        /\ \A m \in Attempts \ {n} : net'[c][m] = net[c][m]
        /\ Cardinality(Sent(c))' =
             Cardinality(Sent(c)) - (IF net[c][n] = "sent" THEN 1 ELSE 0)
                                  + (IF "none" = "sent" THEN 1 ELSE 0)
    BY <1>1, <2>1, <2>2, MoveRequest
  <2>4. Cardinality(Sent(c)) \in Nat
    BY SentIsFinite
  <2> QED
    BY <2>1, <2>3, <2>4
<1>3. CASE UNCHANGED net
  BY <1>1, <1>3 DEF Typed, Sent
<1> QED
  BY <1>2, <1>3 DEF Lost

LEMMA ReceiveCall ==
  ASSUME CallsInv, NEW c \in Calls, Receive(c)
  PROVE  CallsInv'
<1>1. /\ pc[c] = "awaiting" /\ attempts[c] \in Attempts /\ Typed /\ CallOK(c)
      /\ "none" \in Places
  BY CurrentAttempt DEF Receive, CallsInv, Places
<1> DEFINE n == attempts[c]
<1>2. /\ net[c][n] \in {"served", "refused"} /\ Move(c, n, "none")
      /\ pc' = [pc EXCEPT ![c] = "idle"] /\ answer' = [answer EXCEPT ![c] = net[c][n]]
      /\ UNCHANGED <<attempts, effects>> /\ cache' \in {"read", cache}
  BY DEF Receive, Answer, Goto, Current
<1>3. /\ net' \in [Calls -> [Attempts -> Places]]
      /\ \A d \in Calls \ {c} : net'[d] = net[d]
      /\ net'[c][n] = "none"
      /\ \A m \in Attempts \ {n} : net'[c][m] = net[c][m]
      /\ Cardinality(Sent(c))' =
           Cardinality(Sent(c)) - (IF net[c][n] = "sent" THEN 1 ELSE 0)
                                + (IF "none" = "sent" THEN 1 ELSE 0)
  BY <1>1, <1>2, MoveRequest
<1>4. Cardinality(Sent(c))' = Cardinality(Sent(c))
  BY <1>2, <1>3, SentIsFinite
<1>5. Typed'
  <2>1. pc' \in [Calls -> Pcs] /\ answer' \in [Calls -> Answers]
    BY <1>1, <1>2 DEF Typed, Pcs, Answers
  <2> QED
    BY <1>1, <1>2, <1>3, <2>1 DEF Typed
<1>6. /\ pc'[c] = "idle" /\ answer'[c] = net[c][n]
      /\ \A d \in Calls \ {c} : pc'[d] = pc[d] /\ answer'[d] = answer[d]
  BY <1>1, <1>2 DEF Typed
<1>7. CallOK(c)'
  <2>1. c \notin Reads => \A m \in Attempts : net'[c][m] = "served" => effects[c] >= 1
    BY <1>1, <1>3 DEF CallOK
  <2>2. net[c][n] = "served" /\ c \notin Reads => effects[c] >= 1
    BY <1>1 DEF CallOK
  <2>3. effects'[c] + Cardinality(Sent(c))' <= attempts'[c]
    BY <1>1, <1>2, <1>4 DEF CallOK
  <2> QED
    BY <1>2, <1>6, <2>1, <2>2, <2>3 DEF CallOK
<1> QED
  BY <1>2, <1>3, <1>5, <1>6, <1>7, OneCall

LEMMA BackoffCall ==
  ASSUME CallsInv, NEW c \in Calls, Backoff(c)
  PROVE  CallsInv'
<1>1. /\ pc[c] = "awaiting" /\ attempts[c] < MaxAttempts /\ Typed /\ CallOK(c)
      /\ pc' = [pc EXCEPT ![c] = "backoff"]
      /\ UNCHANGED <<attempts, answer, effects, cache>>
  BY DEF Backoff, CallsInv, Goto
<1>2. /\ net' \in [Calls -> [Attempts -> Places]]
      /\ \A d \in Calls \ {c} : net'[d] = net[d]
      /\ \A n \in Attempts : net'[c][n] = "served" => net[c][n] = "served"
      /\ Cardinality(Sent(c))' = Cardinality(Sent(c))
  BY <1>1, LostRequest DEF Backoff
<1>3. Typed'
  BY <1>1, <1>2 DEF Typed, Pcs
<1>4. pc'[c] = "backoff" /\ \A d \in Calls \ {c} : pc'[d] = pc[d]
  BY <1>1 DEF Typed
<1>5. CallOK(c)'
  BY <1>1, <1>2, <1>4 DEF CallOK
<1> QED
  BY <1>1, <1>2, <1>3, <1>4, <1>5, OneCall

LEMMA RetryCall ==
  ASSUME CallsInv, NEW c \in Calls, Retry(c)
  PROVE  CallsInv'
<1> DEFINE n == attempts[c] + 1
<1>1. /\ pc[c] = "backoff" /\ Typed /\ CallOK(c) /\ "sent" \in Places
      /\ attempts[c] \in 1 .. MaxAttempts /\ attempts[c] < MaxAttempts
      /\ pc' = [pc EXCEPT ![c] = "awaiting"]
      /\ attempts' = [attempts EXCEPT ![c] = n] /\ Move(c, n, "sent")
      /\ UNCHANGED <<answer, effects, cache>>
  BY CurrentAttempt DEF Retry, CallsInv, CallOK, Goto, Places, Attempts
<1>2. n \in Attempts /\ n \in 0 .. MaxAttempts
  BY <1>1, MaxAttemptsAssumption DEF Attempts
<1>3. /\ net' \in [Calls -> [Attempts -> Places]]
      /\ \A d \in Calls \ {c} : net'[d] = net[d]
      /\ net'[c][n] = "sent"
      /\ \A m \in Attempts \ {n} : net'[c][m] = net[c][m]
      /\ Cardinality(Sent(c))' =
           Cardinality(Sent(c)) - (IF net[c][n] = "sent" THEN 1 ELSE 0)
                                + (IF "sent" = "sent" THEN 1 ELSE 0)
  BY <1>1, <1>2, MoveRequest
<1> HIDE DEF n
<1>4. Typed'
  <2>1. pc' \in [Calls -> Pcs] /\ attempts' \in [Calls -> 0 .. MaxAttempts]
    BY <1>1, <1>2 DEF Typed, Pcs
  <2> QED
    BY <1>1, <1>3, <2>1 DEF Typed
<1>5. /\ pc'[c] = "awaiting" /\ attempts'[c] = n
      /\ \A d \in Calls \ {c} : pc'[d] = pc[d] /\ attempts'[d] = attempts[d]
  BY <1>1 DEF Typed
<1>6. CallOK(c)'
  <2>1. effects'[c] + Cardinality(Sent(c))' <= n
    <3>1. /\ effects[c] \in Nat /\ effects'[c] = effects[c]
          /\ effects[c] + Cardinality(Sent(c)) <= attempts[c]
      BY <1>1 DEF Typed, CallOK
    <3>2. Cardinality(Sent(c)) \in Nat
      BY SentIsFinite
    <3> QED
      BY <1>1, <1>3, <3>1, <3>2 DEF n
  <2>2. c \notin Reads => \A m \in Attempts : net'[c][m] = "served" => effects[c] >= 1
    BY <1>1, <1>3 DEF CallOK
  <2>3. n >= 1 /\ answer'[c] = "none"
    BY <1>1, <1>2 DEF Attempts, CallOK
  <2> QED
    BY <1>1, <1>5, <2>1, <2>2, <2>3 DEF CallOK
<1> QED
  BY <1>1, <1>3, <1>4, <1>5, <1>6, OneCall

LEMMA GiveUpCall ==
  ASSUME CallsInv, NEW c \in Calls, GiveUp(c)
  PROVE  CallsInv'
<1>1. /\ pc[c] = "awaiting" /\ attempts[c] = MaxAttempts /\ Typed /\ CallOK(c)
      /\ UNCHANGED <<attempts, effects, cache>>
  BY DEF GiveUp, CallsInv
<1>2. /\ net' \in [Calls -> [Attempts -> Places]]
      /\ \A d \in Calls \ {c} : net'[d] = net[d]
      /\ \A n \in Attempts : net'[c][n] = "served" => net[c][n] = "served"
      /\ Cardinality(Sent(c))' = Cardinality(Sent(c))
  BY <1>1, LostRequest DEF GiveUp
<1>3. /\ pc' \in [Calls -> Pcs] /\ answer' \in [Calls -> Answers]
      /\ \A d \in Calls \ {c} : pc'[d] = pc[d] /\ answer'[d] = answer[d]
      /\ pc'[c] \in {"idle", "default"}
      /\ answer'[c] \in {"none", "error", "read", "default"}
      /\ pc'[c] = "default" => answer'[c] = "none"
  BY <1>1, FallbackAnswer DEF GiveUp
<1>4. Typed'
  BY <1>1, <1>2, <1>3 DEF Typed
<1>5. CallOK(c)'
  BY <1>1, <1>2, <1>3 DEF CallOK
<1> QED
  BY <1>1, <1>2, <1>3, <1>4, <1>5, OneCall

LEMMA DefaultCall ==
  ASSUME CallsInv, NEW c \in Calls, StoreDefault(c)
  PROVE  CallsInv'
<1>1. /\ pc[c] = "default" /\ Typed /\ CallOK(c)
      /\ pc' = [pc EXCEPT ![c] = "idle"] /\ answer' = [answer EXCEPT ![c] = "default"]
      /\ cache' = "default" /\ UNCHANGED <<attempts, net, effects>>
  BY DEF StoreDefault, CallsInv, Answer, Goto
<1>2. Typed'
  BY <1>1 DEF Typed, Pcs, Answers
<1>3. /\ pc'[c] = "idle" /\ answer'[c] = "default"
      /\ \A d \in Calls \ {c} : pc'[d] = pc[d] /\ answer'[d] = answer[d]
  BY <1>1 DEF Typed
<1>4. CallOK(c)'
  BY <1>1, <1>3 DEF CallOK, Sent
<1> QED
  BY <1>1, <1>2, <1>3, <1>4, OneCall

\* The network moves one request, and the service may carry it out.
LEMMA NetworkStep ==
  ASSUME CallsInv, NEW c \in Calls, NEW n \in Attempts, Network(c, n)
  PROVE  CallsInv'
<1>1. /\ Typed /\ CallOK(c) /\ Cardinality(Sent(c)) \in Nat
      /\ effects[c] \in Nat
  BY SentIsFinite DEF CallsInv, Typed
<1>2. ASSUME NEW w \in Places, w # "sent", Move(c, n, w),
             w = "served" => net[c][n] = "sent",
             UNCHANGED <<pc, attempts, answer>>, cache' \in {"read", cache},
             \/ UNCHANGED effects /\ (w = "served" => c \in Reads)
             \/ /\ net[c][n] = "sent" /\ w = "served"
                /\ effects' = [effects EXCEPT ![c] = @ + 1]
      PROVE  CallsInv'
  <2>1. /\ net' \in [Calls -> [Attempts -> Places]]
        /\ \A d \in Calls \ {c} : net'[d] = net[d]
        /\ net'[c][n] = w
        /\ \A m \in Attempts \ {n} : net'[c][m] = net[c][m]
        /\ Cardinality(Sent(c))' =
             Cardinality(Sent(c)) - (IF net[c][n] = "sent" THEN 1 ELSE 0)
                                  + (IF w = "sent" THEN 1 ELSE 0)
    BY <1>1, <1>2, MoveRequest
  <2>2. /\ effects' \in [Calls -> Nat]
        /\ \A d \in Calls \ {c} : effects'[d] = effects[d]
        /\ effects'[c] \in {effects[c], effects[c] + 1}
        /\ effects'[c] # effects[c] => net[c][n] = "sent" /\ effects'[c] = effects[c] + 1
        /\ w = "served" /\ c \notin Reads => effects'[c] >= 1
    BY <1>1, <1>2 DEF Typed
  <2>3. Typed'
    BY <1>1, <1>2, <2>1, <2>2 DEF Typed
  <2>4. CallOK(c)'
    <3>1. effects'[c] + Cardinality(Sent(c))' <= attempts[c]
      <4>1. effects[c] + Cardinality(Sent(c)) <= attempts[c]
        BY <1>1 DEF CallOK
      <4>2. attempts[c] \in Nat
        BY <1>1, MaxAttemptsAssumption DEF Typed
      <4>3. Cardinality(Sent(c))' =
              Cardinality(Sent(c)) - (IF net[c][n] = "sent" THEN 1 ELSE 0)
        BY <1>1, <1>2, <2>1
      <4> QED
        BY <1>1, <2>2, <4>1, <4>2, <4>3
    <3>2. effects'[c] >= effects[c]
      BY <1>1, <2>2
    <3>3. c \notin Reads => \A m \in Attempts : net'[c][m] = "served" => effects'[c] >= 1
      BY <1>1, <2>1, <2>2, <3>2 DEF CallOK
    <3> QED
      BY <1>1, <1>2, <2>2, <3>1, <3>2, <3>3 DEF CallOK
  <2> QED
    BY <1>2, <2>1, <2>2, <2>3, <2>4, OneCall
<1>3. CASE Serve(c, n)
  <2>1. /\ net[c][n] = "sent" /\ UNCHANGED <<pc, attempts, answer, cache>>
        /\ "served" \in Places /\ "refused" \in Places
    BY <1>3 DEF Serve, callVars, Places
  <2>2. CASE /\ Move(c, n, "served")
             /\ effects' = [effects EXCEPT ![c] = @ + IF c \in Reads THEN 0 ELSE 1]
    <3>1. CASE c \in Reads
      <4>1. effects' = effects
        BY <1>1, <2>2, <3>1 DEF Typed
      <4> QED
        BY <1>2, <2>1, <2>2, <3>1, <4>1
    <3>2. CASE c \notin Reads
      <4>1. effects' = [effects EXCEPT ![c] = @ + 1]
        BY <2>2, <3>2
      <4> QED
        BY <1>2, <2>1, <2>2, <4>1
    <3> QED
      BY <3>1, <3>2
  <2>3. CASE Move(c, n, "refused") /\ UNCHANGED effects
    BY <1>2, <2>1, <2>3
  <2> QED
    BY <1>3, <2>2, <2>3 DEF Serve
<1>4. CASE Break(c, n)
  <2>1. PICK w \in {"none", "failed"} : Move(c, n, w)
    BY <1>4 DEF Break
  <2>2. w \in Places /\ w # "sent" /\ w # "served"
    BY DEF Places
  <2> QED
    BY <1>2, <1>4, <2>1, <2>2 DEF Break, callVars
<1>5. CASE LateAnswer(c, n)
  <2>1. "none" \in Places /\ Move(c, n, "none") /\ cache' \in {"read", cache}
        /\ UNCHANGED <<pc, attempts, answer, effects>>
    BY <1>5 DEF LateAnswer, Places, callVars
  <2> QED
    BY <1>2, <2>1
<1> QED
  BY <1>3, <1>4, <1>5 DEF Network

LEMMA CallsStep == CallsInv /\ [Next]_vars => CallsInv'
<1> SUFFICES ASSUME CallsInv, [Next]_vars
             PROVE  CallsInv'
  OBVIOUS
<1>1. ASSUME NEW c \in Calls, Step(c)
      PROVE  CallsInv'
  BY <1>1, ReceiveCall, BackoffCall, RetryCall, GiveUpCall, DefaultCall DEF Step
<1>2. ASSUME UNCHANGED <<pc, attempts, answer, net, effects>>,
             cache' \in {"empty", cache}
      PROVE  CallsInv'
  BY <1>2 DEF CallsInv, Typed, CallOK, Sent
<1>3. CASE Expire \/ Elapse \/ HealthChanges \/ UNCHANGED vars
  BY <1>2, <1>3 DEF Expire, Elapse, HealthChanges, vars, callVars
<1> QED
  BY <1>1, <1>3, BeginCall, NetworkStep DEF Next

-----------------------------------------------------------------------------
LEMMA CallsInit == Init => CallsInv
<1> SUFFICES ASSUME Init
             PROVE  CallsInv
  OBVIOUS
<1>1. 0 \in 0 .. MaxAttempts
  BY MaxAttemptsAssumption
<1>2. Typed
  BY <1>1 DEF Init, Typed, Pcs, Answers, Places
<1>3. ASSUME NEW c \in Calls
      PROVE  CallOK(c)
  <2>1. Cardinality(Sent(c)) = 0
    <3>1. Sent(c) = {}
      BY DEF Init, Sent
    <3> QED
      BY <3>1, FS_EmptySet
  <2> QED
    BY <2>1 DEF Init, CallOK
<1> QED
  BY <1>2, <1>3 DEF CallsInv

\* The invariant of the proxy: the types of the calls and of their circuit, how
\* far each call is, and what its answer says of its attempts and effects.
THEOREM ProxyInvariant == Spec => []IInv
<1> DEFINE Inv == CircuitInv /\ CallsInv /\ healthy \in BOOLEAN
<1>1. Init => Inv
  BY CircuitInit, CallsInit DEF Init
<1>2. Inv /\ [Next]_vars => Inv'
  <2> SUFFICES ASSUME Inv, [Next]_vars
               PROVE  Inv'
    OBVIOUS
  <2>1. healthy' \in BOOLEAN
    BY DEF Next, Begin, Refuse, Step, Receive, Backoff, Retry, GiveUp,
           StoreDefault, Network, Serve, Break, LateAnswer, Expire, Elapse,
           HealthChanges, vars
  <2> QED
    BY <2>1, CircuitStep, CircuitPreserved, CallsStep
<1>3. Inv => IInv
  <2> SUFFICES ASSUME Inv
               PROVE  IInv
    OBVIOUS
  <2>1. effects \in [Calls -> 0 .. MaxAttempts]
    <3>1. ASSUME NEW c \in Calls
          PROVE  effects[c] \in 0 .. MaxAttempts
      <4>1. /\ effects[c] \in Nat /\ attempts[c] \in 0 .. MaxAttempts
            /\ effects[c] + Cardinality(Sent(c)) <= attempts[c]
        BY DEF CallsInv, Typed, CallOK
      <4>2. Cardinality(Sent(c)) \in Nat
        BY SentIsFinite
      <4> QED
        BY <4>1, <4>2, MaxAttemptsAssumption
    <3> QED
      BY <3>1 DEF CallsInv, Typed
  <2>2. TypeOK
    <3>1. Breaker!TypeOK
      BY DEF CircuitInv, Breaker!TypeOK, Running
    <3> QED
      BY <2>1, <3>1 DEF CallsInv, Typed, TypeOK, Pcs, Answers, Places
  <2>3. CallsUnderWay /\ ServedIsCarriedOut
    BY DEF CallsInv, CallOK, CallsUnderWay, ServedIsCarriedOut
  <2>4. AnswerMatchesEffects
    BY DEF CallsInv, CallOK, AnswerMatchesEffects, Sent
  <2> QED
    BY <2>2, <2>3, <2>4 DEF IInv, CircuitConsistent, CircuitInv
<1> HIDE DEF Inv
<1> QED
  BY <1>1, <1>2, <1>3, PTL DEF Spec

\* No attempt is carried out twice, a success was carried out, and a fallback
\* answers only for a call that was refused or used up its attempts.
THEOREM AnswersMatch == Spec => []AnswerMatchesEffects
<1>1. IInv => AnswerMatchesEffects
  BY DEF IInv
<1> QED
  BY <1>1, ProxyInvariant, PTL
=============================================================================
