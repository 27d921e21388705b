------------------------- MODULE MCPaymentsService -------------------------
(* Three orders: one approved at the limit, one rejected, over the limit   *)
(* and declined by its cents, and one whose message breaks the schema.     *)
EXTENDS PaymentsService, TLC

CONSTANTS i1, i2, oGood, oLimit, oBad

MCInstances == {i1, i2}
MCOrders == {oGood, oLimit, oBad}
MCValid == {oGood, oLimit}
MCAmount == (oGood :> 1000000) @@ (oLimit :> 1000099) @@ (oBad :> 1999)

Symmetry == Permutations(MCInstances)
============================================================================
