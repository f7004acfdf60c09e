---------------------------- MODULE MCTopicMatch ----------------------------
(* TLC instance of TopicMatch. *)
EXTENDS TopicMatch
============================================================================
