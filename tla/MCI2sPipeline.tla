---------------------------- MODULE MCI2sPipeline ----------------------------
(* I2sPipeline with the sizes of the code.  Three names tell a frame from    *)
(* its neighbours, and the host may change the enable bit at every mclk      *)
(* cycle, one frame (256 cycles, 21 us) after the last change: the code      *)
(* leaves at least 100 ms.                                                   *)
EXTENDS I2sPipeline
=============================================================================
