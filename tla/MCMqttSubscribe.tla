-------------------------- MODULE MCMqttSubscribe --------------------------
(* TLC instance of MqttSubscribe. *)
EXTENDS MqttSubscribe
============================================================================
