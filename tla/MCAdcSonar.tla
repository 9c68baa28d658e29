------------------------------ MODULE MCAdcSonar ------------------------------
(* A small instance of AdcSonar: two readers contending with the thread for  *)
(* the lock, and conversions enough for each of its polling states.          *)
EXTENDS AdcSonar
=============================================================================
