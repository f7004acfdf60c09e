--------------------------- MODULE MCMqttReceive ---------------------------
(* TLC instance of MqttReceive. *)
EXTENDS MqttReceive
============================================================================
