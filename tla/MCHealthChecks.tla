--------------------------- MODULE MCHealthChecks ---------------------------
(* Three overlapping requests, a threshold of two, and one other service.  *)
EXTENDS HealthChecks

CONSTANTS c1, c2, c3, users, payments

ThreeChecks == {c1, c2, c3}
OneOther == {payments}
=============================================================================
