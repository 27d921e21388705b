---------------------------- MODULE MCDlqService ----------------------------
(* Two orders and a message that does not parse; two concurrent requests.  *)
EXTENDS DlqService

CONSTANTS o1, o2, g, r1, r2

OneAndGarbage == {o1, g}
TwoOrders == {o1, o2}
NoGarbage == {}
MCGarbage == {g}
TwoRequests == {r1, r2}
OneRequest == {r1}
=============================================================================
