--------------------------- MODULE MCGatewayAccess ---------------------------
(* A seller and a buyer who want the same e-mail in two spellings; the     *)
(* buyer has another one as well.                                          *)
EXTENDS GatewayAccess, TLC

CONSTANTS ana, bob

Both == {ana, bob}
MCRole == ana :> "seller" @@ bob :> "buyer"
MCSpellings == {"ana", "Ana", "bob"}
MCVisited == {ProductRoutes.create, ProductRoutes.findAllActive}
MCLower == [s \in MCSpellings |-> IF s = "Ana" THEN "ana" ELSE s]
MCTyped == ana :> {"ana"} @@ bob :> {"Ana", "bob"}
=============================================================================
