------------------------- MODULE HealthChecksProofs -------------------------
(***************************************************************************)
(* Proofs about HealthChecks for any number of overlapping requests, other *)
(* services and thresholds: a report agrees with the probe of its own      *)
(* request, and the probes drive their circuit as CircuitBreaker says.     *)
(***************************************************************************)
EXTENDS HealthChecks, TLAPS

Pcs == {"idle", "probing", "answered", "failed", "settled"}

\* What a report needs: a request has its result once its probe has settled,
\* and drops the report of its last check when the next one begins.
ReportInv ==
  /\ pc \in [Checks -> Pcs]
  /\ result \in [Checks -> Statuses \cup {"none"}]
  /\ report \in [Checks -> Statuses \cup {"degraded", "none"}]
  /\ \A c \in Checks :
       /\ pc[c] = "settled" => result[c] \in Statuses
       /\ pc[c] # "idle" => report[c] = "none"
  /\ ReportIsTrue

\* The overall status is that of a service only when every service has it.
LEMMA OverallOfAll ==
  ASSUME NEW results \in [Services -> Statuses], NEW s \in Services
  PROVE  /\ Overall(results) \in Statuses \cup {"degraded"}
         /\ Overall(results) = "healthy" => results[s] = "healthy"
         /\ Overall(results) = "unhealthy" => results[s] = "unhealthy"
<1>1. CASE \A t \in Services : results[t] = "healthy"
  BY <1>1 DEF Overall, Statuses
<1>2. CASE ~\A t \in Services : results[t] = "healthy"
  <2>1. Overall(results) = IF \A t \in Services : results[t] = "unhealthy"
                           THEN "unhealthy" ELSE "degraded"
    BY <1>2 DEF Overall
  <2> QED
    BY <2>1 DEF Statuses
<1> QED
  BY <1>1, <1>2

LEMMA StepReport == ReportInv /\ [Next]_vars => ReportInv'
<1> SUFFICES ASSUME ReportInv, [Next]_vars
             PROVE  ReportInv'
  OBVIOUS
<1> USE DEF ReportInv, ReportIsTrue, Pcs, Goto, Statuses
<1>1. ASSUME NEW c \in Checks, Probe(c)
      PROVE  ReportInv'
  BY <1>1 DEF Probe
<1>2. ASSUME NEW c \in Checks, Refuse(c)
      PROVE  ReportInv'
  BY <1>2 DEF Refuse, Store
<1>3. ASSUME NEW c \in Checks, Respond(c)
      PROVE  ReportInv'
  BY <1>3 DEF Respond
<1>4. ASSUME NEW c \in Checks, Settle(c)
      PROVE  ReportInv'
  <2>1. /\ Goto(c, "settled") /\ pc[c] \in {"answered", "failed"}
        /\ UNCHANGED report
        /\ \E s \in Statuses : result' = [result EXCEPT ![c] = s]
    BY <1>4 DEF Settle, Store
  <2> QED
    BY <2>1
<1>5. ASSUME NEW c \in Checks, Report(c)
      PROVE  ReportInv'
  <2>1. PICK results \in [Services -> Statuses] :
          /\ results[Service] = result[c]
          /\ report' = [report EXCEPT ![c] = Overall(results)]
    BY <1>5 DEF Report
  <2>2. /\ Overall(results) \in Statuses \cup {"degraded"}
        /\ Overall(results) = "healthy" => result[c] = "healthy"
        /\ Overall(results) = "unhealthy" => result[c] = "unhealthy"
    BY <2>1, OverallOfAll DEF Services
  <2> QED
    BY <1>5, <2>1, <2>2 DEF Report
<1>6. CASE Elapse \/ HealthChanges
  BY <1>6 DEF Elapse, HealthChanges
<1>7. CASE UNCHANGED vars
  BY <1>7 DEF vars
<1> QED
  BY <1>1, <1>2, <1>3, <1>4, <1>5, <1>6, <1>7 DEF Next, Step

\* A report never claims more than the probe of its own request found.
THEOREM TrueReports == Spec => []ReportIsTrue
<1>1. Init => ReportInv
  BY DEF Init, ReportInv, ReportIsTrue, Pcs, Statuses
<1>2. ReportInv => ReportIsTrue
  BY DEF ReportInv
<1> QED
  BY <1>1, <1>2, StepReport, PTL DEF Spec

-----------------------------------------------------------------------------
\* A step of the requests is a step of the circuit, or leaves it alone.
LEMMA CircuitStep ==
  ASSUME ReportInv, [Next]_vars
  PROVE  [Breaker!Next]_(Breaker!vars)
<1> USE DEF ReportInv, Pcs, Goto
<1>1. ASSUME NEW c \in Checks, Probe(c)
      PROVE  Breaker!Next
  BY <1>1 DEF Probe, Breaker!Next
<1>2. ASSUME NEW c \in Checks, Settle(c)
      PROVE  Breaker!Next
  BY <1>2 DEF Settle, Breaker!Next
<1>3. ASSUME NEW c \in Checks, Refuse(c) \/ Respond(c) \/ Report(c)
      PROVE  UNCHANGED Breaker!vars
  BY <1>3 DEF Refuse, Respond, Report, circuitVars, Breaker!vars, Running
<1>4. Elapse => Breaker!Next
  BY DEF Elapse, Breaker!Next
<1>5. HealthChanges \/ UNCHANGED vars => UNCHANGED Breaker!vars
  BY DEF HealthChanges, vars, circuitVars, Breaker!vars, Running
<1> QED
  BY <1>1, <1>2, <1>3, <1>4, <1>5 DEF Next, Step

\* The overlapping checks of a service use its circuit only as CircuitBreaker
\* has it: a probe reports its outcome once, to the circuit that let it through.
THEOREM ChecksImplementBreaker == Spec => Breaker!Spec
<1>1. Init => ReportInv /\ Breaker!Init
  BY DEF Init, ReportInv, ReportIsTrue, Pcs, Statuses, Running, Breaker!Init
<1>2. ReportInv /\ [Next]_vars => [Breaker!Next]_(Breaker!vars)
  BY CircuitStep
<1> QED
  BY <1>1, <1>2, StepReport, PTL DEF Spec, Breaker!Spec

-----------------------------------------------------------------------------
\* What a step of the circuit keeps of its types.
LEMMA CircuitTyped ==
  ASSUME Breaker!TypeOK, [Breaker!Next]_(Breaker!vars)
  PROVE  Breaker!TypeOK'
<1> USE ThresholdAssumption DEF Breaker!TypeOK
<1>1. Running' \subseteq Checks
  BY DEF Running
<1>2. ASSUME NEW c \in Checks, Breaker!Admit(c) \/ Breaker!Succeed(c)
      PROVE  Breaker!TypeOK'
  <2>1. due' \in BOOLEAN
    BY <1>2, Zenon DEF Breaker!Admit, Breaker!Succeed
  <2>2. 0 \in 0 .. Threshold
    OBVIOUS
  <2> QED
    BY <1>1, <1>2, <2>1, <2>2 DEF Breaker!Admit, Breaker!Succeed
<1>3. ASSUME NEW c \in Checks, Breaker!Fail(c)
      PROVE  Breaker!TypeOK'
  <2>1. due' \in BOOLEAN
    BY <1>3, Zenon DEF Breaker!Fail
  <2>2. failures' \in 0 .. Threshold
    BY <1>3 DEF Breaker!Fail
  <2> QED
    BY <1>1, <1>3, <2>1, <2>2 DEF Breaker!Fail
<1>4. CASE Breaker!Elapse
  BY <1>1, <1>4 DEF Breaker!Elapse
<1>5. CASE UNCHANGED Breaker!vars
  BY <1>5 DEF Breaker!vars
<1> QED
  BY <1>2, <1>3, <1>4, <1>5 DEF Breaker!Next

\* The entry of healthCache is what the last probe to settle stored.
LEMMA StoredTyped ==
  ASSUME stored \in Statuses \cup {"unknown"}, healthy \in BOOLEAN, [Next]_vars
  PROVE  stored' \in Statuses \cup {"unknown"} /\ healthy' \in BOOLEAN
<1>1. ASSUME NEW c \in Checks, Settle(c) \/ Refuse(c)
      PROVE  stored' \in Statuses \cup {"unknown"} /\ UNCHANGED healthy
  BY <1>1 DEF Settle, Refuse, Store, Statuses
<1>2. ASSUME NEW c \in Checks, Probe(c) \/ Respond(c) \/ Report(c)
      PROVE  UNCHANGED <<stored, healthy>>
  BY <1>2 DEF Probe, Respond, Report
<1>3. CASE Elapse \/ UNCHANGED vars
  BY <1>3 DEF Elapse, vars
<1>4. CASE HealthChanges
  BY <1>4 DEF HealthChanges
<1> QED
  BY <1>1, <1>2, <1>3, <1>4 DEF Next, Step

\* The types of the requests, of the stored health and of the circuit that
\* they share.
THEOREM ChecksTyped == Spec => []TypeOK
<1> DEFINE Inv == /\ ReportInv /\ Breaker!TypeOK
                  /\ stored \in Statuses \cup {"unknown"} /\ healthy \in BOOLEAN
<1>1. Init => Inv
  <2> SUFFICES ASSUME Init
               PROVE  Inv
    OBVIOUS
  <2>1. ReportInv
    BY DEF Init, ReportInv, ReportIsTrue, Pcs, Statuses
  <2>2. 0 \in 0 .. Threshold /\ FALSE \in BOOLEAN
    BY ThresholdAssumption
  <2>3. Breaker!TypeOK
    BY <2>2 DEF Init, Breaker!TypeOK, Running
  <2> QED
    BY <2>1, <2>3 DEF Init
<1>2. Inv /\ [Next]_vars => Inv'
  BY StepReport, CircuitStep, CircuitTyped, StoredTyped
<1>3. Inv => TypeOK
  BY DEF ReportInv, TypeOK, Pcs
<1> HIDE DEF Inv
<1> QED
  BY <1>1, <1>2, <1>3, PTL DEF Spec
=============================================================================
