---------------------------- MODULE MCMqttBroker ----------------------------
(* Small instances of MqttBroker: two or three conversions, packets of one   *)
(* or two bytes (answers keep their four and two) and two packet             *)
(* identifiers.                                                              *)
EXTENDS MqttBroker
=============================================================================
