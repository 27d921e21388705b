--------------------------- MODULE MCCheckoutFlow ---------------------------
(* Four requests of a user over two products with different prices, while  *)
(* the process and its channel come and go.                                *)
EXTENDS CheckoutFlow, TLC

CONSTANTS r1, r2, r3, r4, p1, p2

Four == {r1, r2, r3, r4}
TwoProducts == {p1, p2}
MCPrice == [p \in Products |-> IF p = p1 THEN 1 ELSE 3]

\* Requests are interchangeable: sound for the runs without liveness.
Symmetry == Permutations(Requests)
=============================================================================
