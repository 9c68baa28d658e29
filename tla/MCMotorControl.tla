---------------------------- MODULE MCMotorControl ----------------------------
(* The values of motorcontrol.c; a uint32_t cut to 30 bits, which TLC can    *)
(* hold: either way it is far from any duty cycle.                          *)
EXTENDS MotorControl

MCWordSize == 2 ^ 30
=============================================================================
