--------------------------- MODULE CircuitBreaker ---------------------------
(***************************************************************************)
(* CircuitBreakerService of the api-gateway: one circuit, shared by the    *)
(* concurrent calls to a service.  A call reads the circuit when it starts *)
(* and reports its outcome when its operation ends, whatever happened to   *)
(* the circuit in between.                                                 *)
(***************************************************************************)
EXTENDS Naturals

CONSTANTS Calls,    \* the calls made through the circuit
          Threshold \* failureThreshold, positive

VARIABLES state,    \* the state of the circuit
          failures, \* failureCount, which is only compared with Threshold:
                    \* it stays there instead of growing further
          due,      \* the circuit is open, and the time past nextAttemptTime
          running   \* the calls whose operation is under way

vars == <<state, failures, due, running>>

Init ==
  /\ state = "CLOSED"
  /\ failures = 0
  /\ due = FALSE
  /\ running = {}

\* Until its next attempt is due, an open circuit answers with the fallback.
Refuses == state = "OPEN" /\ ~due

\* The first call of an open circuit that is due makes it half open; while it
\* is half open every other call is let through as well.
Admit(c) ==
  /\ c \notin running
  /\ ~Refuses
  /\ running' = running \cup {c}
  /\ state' = IF state = "OPEN" THEN "HALF_OPEN" ELSE state
  /\ due' = FALSE
  /\ UNCHANGED failures

\* onSucess: the circuit closes, even one that opened after the call began.
Succeed(c) ==
  /\ c \in running
  /\ running' = running \ {c}
  /\ state' = "CLOSED"
  /\ failures' = 0
  /\ due' = FALSE

\* Mutant: the count starts again when the circuit opens.
FailAndReset(c) ==
  /\ c \in running
  /\ running' = running \ {c}
  /\ IF failures + 1 >= Threshold
     THEN state' = "OPEN" /\ failures' = 0 /\ due' = FALSE
     ELSE failures' = failures + 1 /\ UNCHANGED <<state, due>>

\* onFailure: at the threshold the circuit opens, or stays open for longer.
Fail(c) ==
  /\ c \in running
  /\ running' = running \ {c}
  /\ IF failures + 1 >= Threshold
     THEN state' = "OPEN" /\ failures' = Threshold /\ due' = FALSE
     ELSE failures' = failures + 1 /\ UNCHANGED <<state, due>>

\* resetTimeout passes.
Elapse == state = "OPEN" /\ due' = TRUE /\ UNCHANGED <<state, failures, running>>

Next ==
  \/ \E c \in Calls : Admit(c) \/ Succeed(c) \/ Fail(c)
  \/ Elapse

Spec == Init /\ [][Next]_vars

-----------------------------------------------------------------------------
(* Properties *)

TypeOK ==
  /\ state \in {"CLOSED", "OPEN", "HALF_OPEN"}
  /\ failures \in 0 .. Threshold
  /\ due \in BOOLEAN
  /\ running \subseteq Calls

\* The circuit is closed exactly while fewer than Threshold calls failed since
\* the last success, whatever the order in which overlapping calls end.
ClosedBelowThreshold == state = "CLOSED" <=> failures < Threshold
=============================================================================
