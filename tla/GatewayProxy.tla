---------------------------- MODULE GatewayProxy ----------------------------
(***************************************************************************)
(* ProxyService.proxyRequest of the api-gateway, for the calls of its      *)
(* clients to one service: a circuit breaker around a retry around a       *)
(* timeout around an HTTP request.  The timeout abandons the request, which*)
(* the service may still take and whose answer may still arrive: the       *)
(* timeout of the HTTP client only counts the time without any traffic.    *)
(***************************************************************************)
EXTENDS Naturals, FiniteSets

CONSTANTS Calls,      \* the clients' calls, each made again once answered
          Cached,     \* the calls whose fallback is the entry of the cache
          Reads,      \* the calls whose responses go to that entry: the same
                      \* GETs for the products, none for the users
          Threshold,  \* failureThreshold of the circuit
          MaxAttempts \* maxRetries + 1: the attempts of a call

ASSUME ThresholdAssumption == Threshold \in Nat \ {0}
ASSUME MaxAttemptsAssumption == MaxAttempts \in Nat \ {0}
ASSUME CallsAssumption == Cached \subseteq Calls /\ Reads \subseteq Cached

VARIABLES state, failures, due, \* the circuit, of CircuitBreaker
          pc,       \* pc[c]: what call c awaits
          attempts, \* attempts[c]: the attempts call c has begun
          answer,   \* answer[c]: what the client got
          net,      \* net[c][n]: where the request of attempt n is
          effects,  \* effects[c]: how often the service carried c out,
                    \* unless c only reads
          cache,    \* the entry of CacheFallbackService: empty, what was
                    \* read, or the default of the fallback
          healthy   \* the service answers, and in time

callVars == <<pc, attempts, answer>>
circuitVars == <<state, failures, due>>
vars == <<state, failures, due, pc, attempts, answer, net, effects, cache,
          healthy>>

Attempts == 1 .. MaxAttempts
Running == {c \in Calls : pc[c] \in {"awaiting", "backoff"}}

Breaker == INSTANCE CircuitBreaker WITH running <- Running

Init ==
  /\ state = "CLOSED" /\ failures = 0 /\ due = FALSE
  /\ pc = [c \in Calls |-> "idle"]
  /\ attempts = [c \in Calls |-> 0]
  /\ answer = [c \in Calls |-> "none"]
  /\ net = [c \in Calls |-> [n \in Attempts |-> "none"]]
  /\ effects = [c \in Calls |-> 0]
  /\ cache = "empty"
  /\ healthy \in BOOLEAN

Goto(c, p) == pc' = [pc EXCEPT ![c] = p]
Move(c, n, where) == net' = [net EXCEPT ![c][n] = where]

\* The request of the attempt call c awaits.
Current(c) == net[c][attempts[c]]

\* The call ends with its answer.
Answer(c, a) == Goto(c, "idle") /\ answer' = [answer EXCEPT ![c] = a]

\* What the fallback of call c does at once: fail, answer what is cached, or
\* go on to store the default when nothing is.
Fallback(c) ==
  \/ c \notin Cached /\ Answer(c, "error")
  \/ c \in Cached /\ cache # "empty" /\ Answer(c, cache)
  \/ c \in Cached /\ cache = "empty" /\ Goto(c, "default")
     /\ answer' = [answer EXCEPT ![c] = "none"]

-----------------------------------------------------------------------------
(* The steps of a call *)

\* A client calls (again).  A call is made again only once its abandoned
\* requests are over, so that the requests of Attempts are all of one call;
\* those of other calls go on meanwhile.
Fresh(c) == pc[c] = "idle" /\ \A n \in Attempts : net[c][n] = "none"

\* The circuit admits the call, and its first request is sent.
Begin(c) ==
  /\ Fresh(c)
  /\ Goto(c, "awaiting")
  /\ attempts' = [attempts EXCEPT ![c] = 1]
  /\ answer' = [answer EXCEPT ![c] = "none"]
  /\ effects' = [effects EXCEPT ![c] = 0]
  /\ Move(c, 1, "sent")
  /\ Breaker!Admit(c)
  /\ UNCHANGED <<cache, healthy>>

\* The circuit is open: the fallback answers and nothing is sent.
Refuse(c) ==
  /\ Fresh(c) /\ Breaker!Refuses
  /\ attempts' = [attempts EXCEPT ![c] = 0]
  /\ effects' = [effects EXCEPT ![c] = 0]
  /\ Fallback(c)
  /\ UNCHANGED <<circuitVars, net, cache, healthy>>

\* Mutant: the result is returned without onSucess.
ReceiveUncounted(c) ==
  /\ pc[c] = "awaiting" /\ Current(c) \in {"served", "refused"}
  /\ Answer(c, Current(c))
  /\ Move(c, attempts[c], "none")
  /\ cache' = IF c \in Reads /\ Current(c) = "served" THEN "read" ELSE cache
  /\ UNCHANGED <<circuitVars, attempts, effects, healthy>>

\* The response arrives in time: a success of the circuit, even a 4xx.
Receive(c) ==
  /\ pc[c] = "awaiting" /\ Current(c) \in {"served", "refused"}
  /\ Answer(c, Current(c))
  /\ Move(c, attempts[c], "none")
  /\ cache' = IF c \in Reads /\ Current(c) = "served" THEN "read" ELSE cache
  /\ Breaker!Succeed(c)
  /\ UNCHANGED <<attempts, effects, healthy>>

\* Mutant: validateStatus lets 2xx alone through, so a 4xx rejects.
LostUnless2xx(c) ==
  \/ Current(c) \in {"failed", "refused"} /\ Move(c, attempts[c], "none")
  \/ Current(c) \in {"sent", "served"} /\ ~healthy /\ UNCHANGED net

\* Mutant: nothing races the request.
LostOnFailure(c) == Current(c) = "failed" /\ Move(c, attempts[c], "none")

\* An attempt is lost when its request fails, or when it times out while the
\* request goes on.
Lost(c) ==
  \/ Current(c) = "failed" /\ Move(c, attempts[c], "none")
  \/ Current(c) \in {"sent", "served", "refused"} /\ ~healthy /\ UNCHANGED net

\* Mutant: the loop runs once more.
BackoffOnceMore(c) ==
  /\ pc[c] = "awaiting" /\ attempts[c] <= MaxAttempts
  /\ Lost(c)
  /\ Goto(c, "backoff")
  /\ UNCHANGED <<circuitVars, attempts, answer, effects, cache, healthy>>

\* Attempts are left: the retry waits before the next one.
Backoff(c) ==
  /\ pc[c] = "awaiting" /\ attempts[c] < MaxAttempts
  /\ Lost(c)
  /\ Goto(c, "backoff")
  /\ UNCHANGED <<circuitVars, attempts, answer, effects, cache, healthy>>

Retry(c) ==
  /\ pc[c] = "backoff"
  /\ Goto(c, "awaiting")
  /\ attempts' = [attempts EXCEPT ![c] = @ + 1]
  /\ Move(c, attempts[c] + 1, "sent")
  /\ UNCHANGED <<circuitVars, answer, effects, cache, healthy>>

\* Mutant: the fallback answers before the retries are used up.
GiveUpEarly(c) ==
  /\ pc[c] = "awaiting"
  /\ Lost(c)
  /\ Fallback(c)
  /\ Breaker!Fail(c)
  /\ UNCHANGED <<attempts, effects, cache, healthy>>

\* The last attempt is lost: the circuit counts a failure, and the fallback
\* answers.
GiveUp(c) ==
  /\ pc[c] = "awaiting" /\ attempts[c] = MaxAttempts
  /\ Lost(c)
  /\ Fallback(c)
  /\ Breaker!Fail(c)
  /\ UNCHANGED <<attempts, effects, cache, healthy>>

\* The fallback found nothing cached: the default is cached, then answered.
StoreDefault(c) ==
  /\ pc[c] = "default"
  /\ cache' = "default"
  /\ Answer(c, "default")
  /\ UNCHANGED <<circuitVars, attempts, net, effects, healthy>>

Step(c) ==
  Receive(c) \/ Backoff(c) \/ Retry(c) \/ GiveUp(c) \/ StoreDefault(c)

-----------------------------------------------------------------------------
(* The service, the network and time *)

\* The service takes a request: it carries it out or refuses it with a 4xx.
Serve(c, n) ==
  /\ net[c][n] = "sent"
  /\ \/ Move(c, n, "served")
        /\ effects' = [effects EXCEPT ![c] = @ + IF c \in Reads THEN 0 ELSE 1]
     \/ Move(c, n, "refused") /\ UNCHANGED effects
  /\ UNCHANGED <<circuitVars, callVars, cache, healthy>>

\* Nobody awaits the request of attempt n any more.
Abandoned(c, n) == pc[c] # "awaiting" \/ n < attempts[c]

\* A 5xx or a broken connection, before or after the service took it; an
\* abandoned request may also be aborted by the HTTP client.
Break(c, n) ==
  /\ net[c][n] \in {"sent", "served"}
  /\ ~healthy \/ Abandoned(c, n)
  /\ Move(c, n, IF Abandoned(c, n) THEN "none" ELSE "failed")
  /\ UNCHANGED <<circuitVars, callVars, effects, cache, healthy>>

\* The answer to an abandoned request: the operation still caches what it read.
LateAnswer(c, n) ==
  /\ Abandoned(c, n) /\ net[c][n] \in {"served", "refused"}
  /\ Move(c, n, "none")
  /\ cache' = IF c \in Reads /\ net[c][n] = "served" THEN "read" ELSE cache
  /\ UNCHANGED <<circuitVars, callVars, effects, healthy>>

\* The entry is older than its five minutes.
Expire ==
  /\ cache' = "empty"
  /\ UNCHANGED <<circuitVars, callVars, net, effects, healthy>>

Elapse == UNCHANGED <<callVars, net, effects, cache, healthy>> /\ Breaker!Elapse

HealthChanges ==
  /\ healthy' = ~healthy
  /\ UNCHANGED <<circuitVars, callVars, net, effects, cache>>

Network(c, n) == Serve(c, n) \/ Break(c, n) \/ LateAnswer(c, n)

Next ==
  \/ \E c \in Calls :
       \/ Begin(c) \/ Refuse(c) \/ Step(c)
       \/ \E n \in Attempts : Network(c, n)
  \/ Expire
  \/ Elapse
  \/ HealthChanges

\* The gateway runs its timers and callbacks: a timer is not put off for ever
\* by a service that keeps coming back, hence SF.  A service that stays healthy
\* takes what it was sent.
Fairness ==
  /\ WF_vars(Elapse)
  /\ \A c \in Calls :
       /\ SF_vars(Step(c))
       /\ WF_vars(healthy /\ \E n \in Attempts : Network(c, n))

Spec == Init /\ [][Next]_vars /\ Fairness

-----------------------------------------------------------------------------
(* Properties *)

TypeOK ==
  /\ Breaker!TypeOK
  /\ pc \in [Calls -> {"idle", "awaiting", "backoff", "default"}]
  /\ attempts \in [Calls -> 0 .. MaxAttempts]
  /\ answer \in [Calls -> {"none", "served", "refused", "error", "read", "default"}]
  /\ net \in [Calls -> [Attempts -> {"none", "sent", "served", "refused", "failed"}]]
  /\ effects \in [Calls -> 0 .. MaxAttempts]
  /\ cache \in {"empty", "read", "default"}
  /\ healthy \in BOOLEAN

\* The circuit is closed exactly while fewer than Threshold calls failed since
\* the last success (onSucess, onFailure), whatever the order in which calls
\* that overlap end.
CircuitConsistent == Breaker!ClosedBelowThreshold

\* What the client is told and what the service did (executeWithCircuitBreaker,
\* executeWithExponentialBackoff): an answer of the fallback follows no attempt
\* or all of them, a response of the service was carried out at least once, a
\* call the circuit refused never, and no attempt is carried out twice, however
\* late.
AnswerMatchesEffects ==
  \A c \in Calls :
    /\ answer[c] \in {"error", "read", "default"} => attempts[c] \in {0, MaxAttempts}
    /\ answer[c] = "served" /\ c \notin Reads => effects[c] >= 1
    /\ effects[c] + Cardinality({n \in Attempts : net[c][n] = "sent"}) <= attempts[c]

\* proxyRequest drives the circuit as CircuitBreaker says: each admitted call
\* reports one outcome, and only then.
ImplementsBreaker == Breaker!Spec

\* A call always ends, though its service may never answer (executeWithCustomTimeout
\* and the bound of the retries).
EveryCallEnds == \A c \in Calls : pc[c] # "idle" ~> pc[c] = "idle"

\* Once the service stays healthy and clients go on calling, the circuit closes
\* for good: late failures of calls that began before, refused calls and 4xx
\* responses do not keep it open.
RecoversWithService ==
  /\ <>[]healthy
  /\ []<><<\E c \in Calls : Begin(c) \/ Refuse(c)>>_vars
  => <>[](state = "CLOSED")

-----------------------------------------------------------------------------
(* The inductive invariant: how far a call is with its attempts at each of  *)
(* its places, and that a served request was carried out.                   *)

CallsUnderWay ==
  \A c \in Calls :
    /\ pc[c] # "idle" => answer[c] = "none"
    /\ pc[c] \in {"awaiting", "backoff"} => attempts[c] >= 1
    /\ pc[c] = "backoff" => attempts[c] < MaxAttempts
    /\ pc[c] = "default" => attempts[c] \in {0, MaxAttempts}

ServedIsCarriedOut ==
  \A c \in Calls \ Reads : \A n \in Attempts :
    net[c][n] = "served" => effects[c] >= 1

IInv ==
  /\ TypeOK
  /\ CallsUnderWay
  /\ ServedIsCarriedOut
  /\ CircuitConsistent
  /\ AnswerMatchesEffects
=============================================================================
