---------------------------- MODULE MCMqttHandle ----------------------------
(* A small instance of MqttHandle: packets of two and three bytes, so that   *)
(* writes and reads fragment, and three packet identifiers, so that they     *)
(* wrap within the publishes explored.                                       *)
EXTENDS MqttHandle
=============================================================================
