-------------------------- MODULE MCGatewaySession --------------------------
(* TLC instance of GatewaySession. *)
EXTENDS GatewaySession
=============================================================================
