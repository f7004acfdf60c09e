--------------------------- MODULE MCCoapMessage ---------------------------
(* TLC instance of CoapMessage. *)
EXTENDS CoapMessage
============================================================================
