--------------------------- MODULE MCMqttPublish ---------------------------
(* TLC instance of MqttPublish: the application threads are symmetric. *)
EXTENDS MqttPublish, TLC

PublisherSymmetry == Permutations(Publishers)
============================================================================
