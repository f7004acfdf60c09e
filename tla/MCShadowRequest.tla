-------------------------- MODULE MCShadowRequest --------------------------
(* TLC instance of ShadowRequest. *)
EXTENDS ShadowRequest
============================================================================
