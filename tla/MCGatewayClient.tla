-------------------------- MODULE MCGatewayClient ---------------------------
(* Instances of GatewayClient for TLC: the constants are given in the .cfg. *)
EXTENDS GatewayClient

=============================================================================
