--------------------------- MODULE MCGatewayProxy ---------------------------
(* Two calls to the products service: one GET and one POST. *)
EXTENDS GatewayProxy

CONSTANTS get, post

MCCalls == {get, post}
MCReads == {get}
=============================================================================
