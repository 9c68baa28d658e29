---------------------------- MODULE MCCenterAligned ----------------------------
(* CenterAligned with the period and the duty cycles of the code, 50000,     *)
(* 10000, 5000, 40000 and 35000, 25000, 2000, divided by 1000.               *)
EXTENDS CenterAligned

MCFirst ==
  [i \in Legs |-> CASE i = "DUTY1" -> 35 [] i = "DUTY2" -> 25 [] i = "DUTY3" -> 2]
MCSecond ==
  [i \in Legs |-> CASE i = "DUTY1" -> 10 [] i = "DUTY2" -> 5 [] i = "DUTY3" -> 40]
=============================================================================
