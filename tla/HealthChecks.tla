---------------------------- MODULE HealthChecks ----------------------------
(***************************************************************************)
(* HealthCheckService of the api-gateway and the endpoints that report it. *)
(* A request probes every service, each through a circuit of its own that  *)
(* no proxied call shares, stores each result and reports them together.   *)
(* Requests overlap: a probe that took long stores its result over that of *)
(* one that began later.                                                   *)
(*                                                                         *)
(* Services share nothing but the report, so the model follows the probes  *)
(* of one of them; the results of the others are whatever they are.        *)
(***************************************************************************)
EXTENDS Naturals

CONSTANTS Checks,   \* the requests that check the health, each made again
          Service,  \* the service the model follows
          Others,   \* the other services of a report
          Threshold \* failureThreshold of the circuit

ASSUME ThresholdAssumption == Threshold \in Nat \ {0}
ASSUME ServiceAssumption == Service \notin Others

VARIABLES state, failures, due, \* the circuit, of CircuitBreaker
          pc,     \* pc[c]: where request c is with the service
          result, \* result[c]: what request c found
          report, \* report[c]: the overall status request c was answered
          stored, \* the entry of healthCache
          healthy \* the service answers, in time and with a 2xx

circuitVars == <<state, failures, due>>
vars == <<state, failures, due, pc, result, report, stored, healthy>>

Running == {c \in Checks : pc[c] \in {"probing", "answered", "failed"}}
Breaker == INSTANCE CircuitBreaker WITH Calls <- Checks, running <- Running

Statuses == {"healthy", "unhealthy"}
Services == Others \cup {Service}

Init ==
  /\ state = "CLOSED" /\ failures = 0 /\ due = FALSE
  /\ pc = [c \in Checks |-> "idle"]
  /\ result = [c \in Checks |-> "none"]
  /\ report = [c \in Checks |-> "none"]
  /\ stored = "unknown"
  /\ healthy \in BOOLEAN

Goto(c, where) == pc' = [pc EXCEPT ![c] = where]

-----------------------------------------------------------------------------
(* The check of the service by request c *)

\* The circuit lets the probe through: GET /health of the service.
Probe(c) ==
  /\ pc[c] = "idle"
  /\ Goto(c, "probing")
  /\ Breaker!Admit(c)
  /\ result' = [result EXCEPT ![c] = "none"]
  /\ report' = [report EXCEPT ![c] = "none"]
  /\ UNCHANGED <<stored, healthy>>

\* Mutant: a probe waits for its answer, however long it takes.
RespondOnly(c) ==
  /\ pc[c] = "probing" /\ healthy
  /\ Goto(c, "answered")
  /\ UNCHANGED <<circuitVars, result, report, stored, healthy>>

\* The probe is answered with a 2xx, or it fails: another status, a broken
\* connection, or the timeout, which also ends the request.
Respond(c) ==
  /\ pc[c] = "probing"
  /\ Goto(c, IF healthy THEN "answered" ELSE "failed")
  /\ UNCHANGED <<circuitVars, result, report, stored, healthy>>

\* Mutant: a result is only stored when there is none.
StoreFirst(c, status) ==
  /\ result' = [result EXCEPT ![c] = status]
  /\ stored' = IF stored = "unknown" THEN status ELSE stored

\* Mutant: a failure is stored as degraded.
StoreDegraded(c, status) ==
  /\ result' = [result EXCEPT ![c] = status]
  /\ stored' = IF status = "unhealthy" THEN "degraded" ELSE status

\* The result is stored and kept for the report.
Store(c, status) ==
  /\ result' = [result EXCEPT ![c] = status]
  /\ stored' = status

\* The promise of the probe settles: its outcome reaches the circuit, and the
\* fallback of a failure throws, which makes the service unhealthy.
Settle(c) ==
  /\ Goto(c, "settled")
  /\ \/ pc[c] = "answered" /\ Breaker!Succeed(c) /\ Store(c, "healthy")
     \/ pc[c] = "failed" /\ Breaker!Fail(c) /\ Store(c, "unhealthy")
  /\ UNCHANGED <<report, healthy>>

\* The circuit is open: its fallback throws at once.
Refuse(c) ==
  /\ pc[c] = "idle" /\ Breaker!Refuses
  /\ Goto(c, "settled")
  /\ Store(c, "unhealthy")
  /\ report' = [report EXCEPT ![c] = "none"]
  /\ UNCHANGED <<circuitVars, healthy>>

\* The overall status: that of getServicesHealth, and of getReadyStatus, which
\* is ready when it is healthy.
Overall(results) ==
  CASE \A s \in Services : results[s] = "healthy" -> "healthy"
    [] \A s \in Services : results[s] = "unhealthy" -> "unhealthy"
    [] OTHER -> "degraded"

\* Mutant: the report is made of the entries of healthCache.
ReportStored(c) ==
  /\ pc[c] = "settled"
  /\ Goto(c, "idle")
  /\ \E results \in [Services -> Statuses] :
       /\ results[Service] = stored
       /\ report' = [report EXCEPT ![c] = Overall(results)]
  /\ UNCHANGED <<circuitVars, result, stored, healthy>>

\* Every service has settled: the request is answered.
Report(c) ==
  /\ pc[c] = "settled"
  /\ Goto(c, "idle")
  /\ \E results \in [Services -> Statuses] :
       /\ results[Service] = result[c]
       /\ report' = [report EXCEPT ![c] = Overall(results)]
  /\ UNCHANGED <<circuitVars, result, stored, healthy>>

Step(c) == Respond(c) \/ Settle(c) \/ Report(c)

Elapse == UNCHANGED <<pc, result, report, stored, healthy>> /\ Breaker!Elapse

HealthChanges ==
  /\ healthy' = ~healthy
  /\ UNCHANGED <<circuitVars, pc, result, report, stored>>

Next ==
  \/ \E c \in Checks : Probe(c) \/ Refuse(c) \/ Step(c)
  \/ Elapse
  \/ HealthChanges

\* The gateway runs its timers and callbacks.
Fairness == WF_vars(Elapse) /\ \A c \in Checks : WF_vars(Step(c))

Spec == Init /\ [][Next]_vars /\ Fairness

-----------------------------------------------------------------------------
(* Properties *)

TypeOK ==
  /\ Breaker!TypeOK
  /\ pc \in [Checks -> {"idle", "probing", "answered", "failed", "settled"}]
  /\ result \in [Checks -> Statuses \cup {"none"}]
  /\ report \in [Checks -> Statuses \cup {"degraded", "none"}]
  /\ stored \in Statuses \cup {"unknown"}
  /\ healthy \in BOOLEAN

\* A report agrees with the probe its own request made, whatever overlapping
\* requests stored meanwhile: ready is never answered over a failed or refused
\* probe, nor unhealthy over an answered one.
ReportIsTrue ==
  \A c \in Checks :
    /\ report[c] = "healthy" => result[c] = "healthy"
    /\ report[c] = "unhealthy" => result[c] = "unhealthy"

\* A request that checks the health is always answered, though the service may
\* never answer (the timeouts of the probe).
EveryCheckEnds == \A c \in Checks : pc[c] # "idle" ~> pc[c] = "idle"

\* Once the service stays healthy and checks go on, its stored health is healthy
\* for good: neither the open circuit nor a failure that settles late leaves it
\* unhealthy.
HealthRecovers ==
  /\ <>[]healthy
  /\ []<><<\E c \in Checks : Probe(c) \/ Refuse(c)>>_vars
  => <>[](stored = "healthy")
=============================================================================
