------------------------------ MODULE MCPedalBoard ------------------------------
(* The default configuration and three others that differ from it and from   *)
(* each other in a few bits of each register, with values beyond the limits  *)
(* of the setters among them.                                                *)
EXTENDS PedalBoard

MCDefault ==
  [isStart |-> FALSE, normalizer |-> 8, mode |-> 0, threshold_high |-> 8388607,
   threshold_low |-> -8388557, shift_qubic |-> 2, gain |-> 4, compressor |-> 16384,
   highpass |-> 2, lowpass |-> 9, enable |-> FALSE, inc |-> 1, max_time |-> 1, max_value |-> 4]

MCPhaser ==
  [MCDefault EXCEPT !.isStart = TRUE, !.mode = 1, !.threshold_low = -9000000,
                    !.normalizer = 20, !.enable = TRUE]

MCFast ==
  [MCPhaser EXCEPT !.mode = 2, !.gain = 5, !.highpass = -9, !.compressor = 24576,
                   !.inc = 3, !.max_value = 6, !.max_time = 0]

MCOff == [MCFast EXCEPT !.isStart = FALSE, !.inc = 2]

MCConfigs == {MCPhaser, MCFast, MCOff}
MCPhaseTimes == [i \in 0 .. 4 |-> i]
=============================================================================
