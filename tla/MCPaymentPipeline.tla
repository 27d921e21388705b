-------------------------- MODULE MCPaymentPipeline --------------------------
(* Two instances, a valid order and a message that does not parse, and no  *)
(* dlq request or one that the first instance serves.                      *)
EXTENDS PaymentPipeline, TLC

CONSTANTS i1, i2, o1, g, r1

MCInstances == {i1, i2}
MCOrders == {o1, g}
MCValid == {o1}
MCGarbage == {g}
MCAmount == [o \in MCOrders |-> 1999]
OneRequest == {r1}
NoRequest == {}
OneHost == [r \in OneRequest |-> i1]
NoHost == [r \in NoRequest |-> i1]
=============================================================================
